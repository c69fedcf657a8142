--------------------------- MODULE UserSpaceProofs ---------------------------
(***************************************************************************)
(* Proofs about the packet queue of a user pseudo address space, for every *)
(* size of the buffer and of packets and any number of headers: packets    *)
(* are kept until their turn, and each step of the headers' list is a step *)
(* of PacketQueue.  Then about the kernel channel behind a user's channel, *)
(* for any number of bus resets: it holds in the IRM what it believes to.  *)
(***************************************************************************)
EXTENDS UserPseudoAddressSpace, IsochChannel, SequenceTheorems, TLAPS

(* The assumptions of both modules, for short.                             *)
LEMMA Assumptions == BufferAssumption /\ HeadersAssumption
    BY BufferAssumption, HeadersAssumption

(* What a client keeps to: notification is turned on and off once.         *)
NotifiedOnce == ~EarlyPackets /\ MaxSwitches <= 8

(* A packet goes into an empty buffer wherever the last one ended.         *)
PacketsAreSmall == \A size \in Sizes : 2 * size <= fBufferSize

-----------------------------------------------------------------------------
(* The layout of the buffer.  e[1..n] are the headers of the packets kept. *)

Queues == [front : 0..fBufferSize, length : 0..fBufferSize]
IsData(e, i) == e[i].type \in DataTypes
End(e, i) == e[i].offset + e[i].size

(* Where the entry is, counted from the start of the buffer the front is   *)
(* in: those before the front have gone round.                             *)
Place(e, i, q) == IF e[i].offset >= q.front THEN e[i].offset
                                            ELSE e[i].offset + fBufferSize

(* The entry i is stored at end, or at the start, if it did not fit there. *)
Follows(e, i, end) ==
    e[i].offset = end \/ (e[i].offset = 0 /\ e[i].size > fBufferSize - end)

Inside(e, n, q) == \A i \in 1..n : IsData(e, i) =>
    /\ e[i].size >= 1
    /\ End(e, i) <= fBufferSize
    /\ e[i].offset >= q.front \/ End(e, i) <= q.front

InTurn(e, n, q) == \A i, j \in 1..n :
    IsData(e, i) /\ IsData(e, j) /\ i < j =>
        Place(e, i, q) + e[i].size <= Place(e, j, q)

NoneBetween(e, i, j) == \A k \in i + 1 .. j - 1 : ~IsData(e, k)

Contiguous(e, n, q) ==
    /\ \A i, j \in 1..n :
          IsData(e, i) /\ IsData(e, j) /\ i < j /\ NoneBetween(e, i, j) =>
              Follows(e, j, End(e, i))
    /\ \A i \in 1..n : IsData(e, i) /\ NoneBetween(e, 0, i) => Follows(e, i, q.front)

LengthIsTrue(e, n, q) ==
    /\ \A i \in 1..n : IsData(e, i) =>
          Place(e, i, q) + e[i].size <= q.front + q.length
    /\ \A i \in 1..n : IsData(e, i) /\ NoneBetween(e, i, n + 1) =>
          Place(e, i, q) + e[i].size = q.front + q.length
    /\ (\A i \in 1..n : ~IsData(e, i)) => q.length = 0

Laid(e, n, q) == /\ Inside(e, n, q)
                 /\ InTurn(e, n, q)
                 /\ Contiguous(e, n, q)
                 /\ LengthIsTrue(e, n, q)

-----------------------------------------------------------------------------
(* Offsets below twice the size of the buffer go round at most once.       *)
LEMMA GoesRound ==
    ASSUME NEW x \in 0 .. 2 * fBufferSize
    PROVE  x % fBufferSize = IF x < fBufferSize THEN x
                             ELSE IF x < 2 * fBufferSize THEN x - fBufferSize ELSE 0
  <1>0. fBufferSize \in Nat /\ fBufferSize > 0
    BY Assumptions DEF BufferAssumption
  <1>1. CASE x < fBufferSize
    BY <1>0, <1>1, SMT
  <1>2. CASE x >= fBufferSize /\ x < 2 * fBufferSize
    BY <1>0, <1>2, SMT
  <1>3. CASE x = 2 * fBufferSize
    <2>1. (2 * fBufferSize) % fBufferSize = 0
      BY <1>0, SMT
    <2>2. QED
      BY <1>0, <1>3, <2>1, SMT
  <1>4. QED
    BY <1>0, <1>1, <1>2, <1>3, SMT

(* Differences of byte counts that are not negative do not wrap.           *)
LEMMA MinusIsMinus ==
    ASSUME NEW a \in 0 .. fBufferSize, NEW b \in 0 .. 2 * fBufferSize, b <= a
    PROVE  Minus(a, b) = a - b
  <1>1. ByteCounts \in Nat /\ ByteCounts > 0 /\ a - b \in Nat /\ a - b < ByteCounts
    BY Assumptions DEF BufferAssumption
  <1>2. QED
    BY <1>1, SMT DEF Minus

LEMMA EndIs ==
    ASSUME NEW q \in Queues
    PROVE  EndOffset(q) = IF q.front + q.length < fBufferSize THEN q.front + q.length
                          ELSE IF q.front + q.length < 2 * fBufferSize
                          THEN q.front + q.length - fBufferSize ELSE 0
  <1> DEFINE x == q.front + q.length
  <1>0. fBufferSize \in Nat /\ q.front \in Nat /\ q.length \in Nat
    BY Assumptions DEF Queues, BufferAssumption
  <1>1. x \in 0 .. 2 * fBufferSize
    BY Assumptions DEF Queues, BufferAssumption
  <1>2. EndOffset(q) = x % fBufferSize
    BY DEF EndOffset
  <1> HIDE DEF x
  <1>3. EndOffset(q) = IF x < fBufferSize THEN x
                       ELSE IF x < 2 * fBufferSize THEN x - fBufferSize ELSE 0
    BY <1>1, <1>2, GoesRound
  <1>4. QED
    BY <1>0, <1>3 DEF x

(* Where an entry goes that fits, by where the queue ends.                 *)
LEMMA InsertIs ==
    ASSUME NEW q \in Queues, NEW size \in 1..fBufferSize, Fits(q, size)
    PROVE  LET at == InsertOffset(q, size)
               after == Enqueued(q, size)
           IN  /\ after \in Queues /\ after.front = q.front
               /\ at \in 0..fBufferSize /\ at + size <= fBufferSize
               /\ at >= q.front \/ at + size <= q.front
               /\ after.front + after.length =
                     (IF at >= q.front THEN at ELSE at + fBufferSize) + size
               /\ q.front + q.length <= IF at >= q.front THEN at ELSE at + fBufferSize
               /\ \/ at = q.front + q.length
                  \/ at = q.front + q.length - fBufferSize /\ at < q.front
                  \/ at = 0 /\ at < q.front /\ size > fBufferSize - (q.front + q.length)
  <1>0. fBufferSize \in Nat /\ fBufferSize > 0
    BY Assumptions DEF BufferAssumption
  <1>1. /\ q.front \in 0..fBufferSize /\ q.length \in 0..fBufferSize
        /\ q = [front |-> q.front, length |-> q.length]
    BY DEF Queues
  <1>2. Enqueued(q, size) =
            [front |-> q.front, length |-> q.length + size + InsertPadding(q, size)]
    BY <1>1 DEF Enqueued
  <1>3. CASE GoesToStart(q, size)
    BY <1>0, <1>1, <1>2, <1>3, EndIs DEF GoesToStart, Fits, InsertOffset, InsertPadding, Queues
  <1>4. CASE ~GoesToStart(q, size) /\ EndOffset(q) >= q.front
    BY <1>0, <1>1, <1>2, <1>4, EndIs DEF GoesToStart, Fits, InsertOffset, InsertPadding, Queues
  <1>5. CASE EndOffset(q) < q.front
    BY <1>0, <1>1, <1>2, <1>5, EndIs DEF GoesToStart, Fits, InsertOffset, InsertPadding, Queues
  <1>6. EndOffset(q) \in Int
    BY <1>0, <1>1, EndIs
  <1>7. QED
    BY <1>1, <1>3, <1>4, <1>5, <1>6
-----------------------------------------------------------------------------
(* The layout stays sound.                                                 *)

Layouts(n) == [1..n -> HeaderRecords]

LEMMA LaidByAnother ==
    ASSUME NEW n \in Nat, NEW e \in Layouts(n), NEW f \in Layouts(n + 1),
           NEW q \in Queues, Laid(e, n, q),
           \A i \in 1..n : f[i] = e[i],
           ~IsData(f, n + 1)
    PROVE  Laid(f, n + 1, q)
  <1>1. /\ \A i \in 1 .. n + 1 : IsData(f, i) => i \in 1..n /\ IsData(e, i)
        /\ \A i \in 1..n : IsData(e, i) => IsData(f, i)
    BY DEF IsData
  <1>2. \A i \in 1..n : /\ End(f, i) = End(e, i) /\ Place(f, i, q) = Place(e, i, q)
                        /\ f[i] = e[i]
                        /\ \A end : Follows(f, i, end) <=> Follows(e, i, end)
    BY DEF End, Place, Follows
  <1>3. Inside(f, n + 1, q)
    BY <1>1, <1>2 DEF Laid, Inside
  <1>4. InTurn(f, n + 1, q)
    BY <1>1, <1>2 DEF Laid, InTurn
  <1>5. \A i \in 0..n, j \in 1..n : NoneBetween(f, i, j) => NoneBetween(e, i, j)
    BY <1>1 DEF NoneBetween
  <1>6. Contiguous(f, n + 1, q)
    BY <1>1, <1>2, <1>5 DEF Laid, Contiguous
  <1>7. \A i \in 1..n : NoneBetween(f, i, n + 2) => NoneBetween(e, i, n + 1)
    BY <1>1 DEF NoneBetween
  <1>8. LengthIsTrue(f, n + 1, q)
    BY <1>1, <1>2, <1>7 DEF Laid, LengthIsTrue
  <1>9. QED
    BY <1>3, <1>4, <1>6, <1>8 DEF Laid
(* An entry that fits is laid after the last.                              *)
LEMMA LaidWhenQueued ==
    ASSUME NEW n \in Nat, NEW e \in Layouts(n), NEW f \in Layouts(n + 1),
           NEW q \in Queues, Laid(e, n, q),
           \A i \in 1..n : f[i] = e[i],
           IsData(f, n + 1), f[n + 1].size >= 1,
           Fits(q, f[n + 1].size),
           f[n + 1].offset = InsertOffset(q, f[n + 1].size)
    PROVE  /\ Enqueued(q, f[n + 1].size) \in Queues
           /\ Laid(f, n + 1, Enqueued(q, f[n + 1].size))
  <1> DEFINE new == n + 1
             size == f[new].size
             at == f[new].offset
             r == Enqueued(q, size)
             place == IF at >= q.front THEN at ELSE at + fBufferSize
  <1>0. fBufferSize \in Nat /\ fBufferSize > 0
    BY Assumptions DEF BufferAssumption
  <1>1. /\ \A i \in 1..n : f[i] \in HeaderRecords /\ e[i] \in HeaderRecords
        /\ f[new] \in HeaderRecords
    BY DEF Layouts
  <1>2. /\ \A i \in 1..n : f[i].size \in 0..fBufferSize /\ f[i].offset \in 0..fBufferSize
        /\ size \in 1..fBufferSize /\ at \in 0..fBufferSize
    BY <1>0, <1>1 DEF HeaderRecords
  <1>3. /\ r \in Queues /\ r.front = q.front
        /\ at + size <= fBufferSize
        /\ at >= q.front \/ at + size <= q.front
        /\ q.front + r.length = place + size
        /\ q.front + q.length <= place
        /\ \/ at = q.front + q.length
           \/ at = q.front + q.length - fBufferSize /\ at < q.front
           \/ at = 0 /\ at < q.front /\ size > fBufferSize - (q.front + q.length)
    BY <1>2, InsertIs
  <1>4. /\ q.front \in 0..fBufferSize /\ q.length \in 0..fBufferSize
        /\ r.length \in 0..fBufferSize
    BY <1>3 DEF Queues
  <1>5. \A i \in 1..n : /\ IsData(f, i) <=> IsData(e, i)
                        /\ End(f, i) = End(e, i) /\ Place(f, i, r) = Place(e, i, q)
                        /\ f[i] = e[i]
                        /\ \A end : Follows(f, i, end) <=> Follows(e, i, end)
    BY <1>3 DEF IsData, End, Place, Follows
  <1>6. Place(f, new, r) = place /\ End(f, new) = at + size
    BY <1>3 DEF Place, End
  <1>7. /\ f[new].size = size /\ f[new].offset = at
        /\ place = IF at >= q.front THEN at ELSE at + fBufferSize
        /\ \A i \in 1..n : e[i].size \in 0..fBufferSize /\ e[i].offset \in 0..fBufferSize
    BY <1>2
  <1> HIDE DEF r, size, at, place
  <1>7a. Inside(f, new, r)
    BY <1>2, <1>3, <1>5, <1>6, <1>7 DEF Laid, Inside
  <1>8. /\ \A i \in 1..n : IsData(e, i) =>
              Place(e, i, q) + e[i].size <= q.front + q.length
        /\ \A i \in 1..n : IsData(e, i) /\ NoneBetween(e, i, new) =>
              Place(e, i, q) + e[i].size = q.front + q.length
        /\ (\A i \in 1..n : ~IsData(e, i)) => q.length = 0
    BY DEF Laid, LengthIsTrue
  <1>9. \A i \in 1..n : Place(e, i, q) \in Int
    BY <1>0, <1>2, <1>4 DEF Place
  <1>10. InTurn(f, new, r)
    <2>1. \A i \in 1..n : IsData(f, i) => Place(f, i, r) + f[i].size <= Place(f, new, r)
      <3> SUFFICES ASSUME NEW i \in 1..n, IsData(e, i)
                   PROVE  Place(e, i, q) + e[i].size <= place
        BY <1>5, <1>6
      <3>1. Place(e, i, q) + e[i].size <= q.front + q.length
        BY <1>8
      <3>2. QED
        BY <3>1, <1>0, <1>2, <1>3, <1>4, <1>7, <1>9
    <2>2. \A i, j \in 1..n : IsData(f, i) /\ IsData(f, j) /\ i < j =>
             Place(f, i, r) + f[i].size <= Place(f, j, r)
      BY <1>5 DEF Laid, InTurn
    <2>3. QED
      BY <2>1, <2>2 DEF InTurn
  <1>11. \A i \in 0..n, j \in 1..n : NoneBetween(f, i, j) => NoneBetween(e, i, j)
    BY <1>5 DEF NoneBetween
  <1>12. \A i \in 0..n : NoneBetween(f, i, new) => NoneBetween(e, i, new)
    BY <1>5 DEF NoneBetween
  <1>13. Contiguous(f, new, r)
    <2>1. ASSUME NEW i \in 1..n, IsData(f, i), NoneBetween(f, i, new)
          PROVE  Follows(f, new, End(f, i))
      <3>1. /\ Place(e, i, q) + e[i].size = q.front + q.length
            /\ e[i].offset \in 0..fBufferSize
            /\ e[i].size \in 0..fBufferSize /\ e[i].size >= 1
            /\ End(e, i) = e[i].offset + e[i].size
            /\ End(e, i) <= fBufferSize
            /\ e[i].offset >= q.front \/ End(e, i) <= q.front
        BY <2>1, <1>2, <1>5, <1>7, <1>8, <1>12 DEF Laid, Inside, End
      <3>2. at = End(e, i) \/ (at = 0 /\ size > fBufferSize - End(e, i))
        BY <3>1, <1>0, <1>2, <1>3, <1>4, <1>7 DEF Place
      <3>3. QED
        BY <3>2, <1>5, <1>7 DEF Follows
    <2>2. NoneBetween(f, 0, new) => Follows(f, new, r.front)
      <3>1. ASSUME NoneBetween(f, 0, new)
            PROVE  q.length = 0
        BY <3>1, <1>5, <1>8 DEF NoneBetween
      <3>2. ASSUME q.length = 0
            PROVE  Follows(f, new, q.front)
        BY <3>2, <1>0, <1>2, <1>3, <1>4, <1>7 DEF Follows
      <3>3. QED
        BY <3>1, <3>2, <1>3
    <2>3. \A i, j \in 1..n : IsData(f, i) /\ IsData(f, j) /\ i < j /\ NoneBetween(f, i, j) =>
             Follows(f, j, End(f, i))
      BY <1>5, <1>11 DEF Laid, Contiguous
    <2>4. \A i \in 1..n : IsData(f, i) /\ NoneBetween(f, 0, i) => Follows(f, i, r.front)
      BY <1>3, <1>5, <1>11 DEF Laid, Contiguous
    <2>5. QED
      BY <2>1, <2>2, <2>3, <2>4 DEF Contiguous
  <1>14. LengthIsTrue(f, new, r)
    <2>1. Place(f, new, r) + f[new].size = r.front + r.length
      BY <1>3, <1>6, <1>7
    <2>2. \A i \in 1..n : IsData(f, i) => Place(f, i, r) + f[i].size <= r.front + r.length
      <3> SUFFICES ASSUME NEW i \in 1..n, IsData(e, i)
                   PROVE  Place(e, i, q) + e[i].size <= r.front + r.length
        BY <1>5
      <3>1. Place(e, i, q) + e[i].size <= q.front + q.length
        BY <1>8
      <3>2. QED
        BY <3>1, <1>0, <1>2, <1>3, <1>4, <1>7, <1>9
    <2>3. \A i \in 1..n : ~NoneBetween(f, i, new + 1)
      BY DEF NoneBetween
    <2>4. Place(f, new, r) + f[new].size <= r.front + r.length
      BY <2>1, <1>3, <1>4, <1>6, <1>7
    <2>5. QED
      BY <2>1, <2>2, <2>3, <2>4 DEF LengthIsTrue
  <1>15. QED
    BY <1>3, <1>7, <1>7a, <1>10, <1>13, <1>14 DEF Laid, r

(* The oldest packet is found where it was stored.                         *)
LEMMA FrontIsFirst ==
    ASSUME NEW n \in Nat, NEW e \in Layouts(n), NEW q \in Queues, Laid(e, n, q),
           NEW i \in 1..n, IsData(e, i), NoneBetween(e, 0, i)
    PROVE  /\ FrontEntryOffset(q, e[i].size) = e[i].offset
           /\ FrontPadding(q, e[i].size) =
                 IF e[i].offset = q.front THEN 0 ELSE fBufferSize - q.front
           /\ e[i].offset = q.front
                 \/ (e[i].offset = 0 /\ q.front > 0 /\ e[i].size > fBufferSize - q.front)
  <1> DEFINE size == e[i].size
             at == e[i].offset
  <1>0. fBufferSize \in Nat /\ fBufferSize > 0
    BY Assumptions DEF BufferAssumption
  <1>1. /\ size \in 1..fBufferSize /\ at \in 0..fBufferSize /\ at + size <= fBufferSize
        /\ at >= q.front \/ at + size <= q.front
    BY <1>0 DEF Layouts, HeaderRecords, Laid, Inside, End
  <1>2. q.front \in 0..fBufferSize /\ q.length \in 0..fBufferSize
    BY DEF Queues
  <1>3. at = q.front \/ (at = 0 /\ size > fBufferSize - q.front)
    BY DEF Laid, Contiguous, Follows
  <1>4. (IF at >= q.front THEN at ELSE at + fBufferSize) + size <= q.front + q.length
    BY DEF Laid, LengthIsTrue, Place
  <1>5. Minus(fBufferSize, q.front) = fBufferSize - q.front
    BY <1>0, <1>2, MinusIsMinus
  <1>6. CASE at = q.front
    <2>1. ~FrontIsAtStart(q, size)
      BY <1>0, <1>1, <1>2, <1>5, <1>6 DEF FrontIsAtStart
    <2>2. QED
      BY <2>1, <1>6 DEF FrontEntryOffset, FrontPadding
  <1>7. CASE at = 0 /\ q.front > 0 /\ size > fBufferSize - q.front
    <2>1. q.front >= EndOffset(q)
      BY <1>0, <1>1, <1>2, <1>4, <1>7, EndIs
    <2>2. q.length > 0
      BY <1>0, <1>1, <1>2, <1>4, <1>7
    <2>3. FrontIsAtStart(q, size)
      BY <2>1, <2>2, <1>5, <1>7 DEF FrontIsAtStart
    <2>4. QED
      BY <2>3, <1>5, <1>7 DEF FrontEntryOffset, FrontPadding
  <1>8. QED
    BY <1>1, <1>2, <1>3, <1>6, <1>7
(* The oldest entry is taken off the front.                                *)
LEMMA LaidWhenDequeued ==
    ASSUME NEW n \in Nat \ {0}, NEW e \in Layouts(n), NEW f \in Layouts(n - 1),
           NEW q \in Queues, Laid(e, n, q),
           \A i \in 1 .. n - 1 : f[i] = e[i + 1],
           IsData(e, 1)
    PROVE  /\ Dequeued(q, e[1].size) \in Queues
           /\ Laid(f, n - 1, Dequeued(q, e[1].size))
  <1> DEFINE size == e[1].size
             at == e[1].offset
             r == Dequeued(q, size)
             left == n - 1
             padding == IF at = q.front THEN 0 ELSE fBufferSize - q.front
  <1>0. fBufferSize \in Nat /\ fBufferSize > 0
    BY Assumptions DEF BufferAssumption
  <1>1. /\ \A i \in 1..n : e[i].size \in 0..fBufferSize /\ e[i].offset \in 0..fBufferSize
        /\ left \in Nat /\ n = left + 1
        /\ \A i \in 1..left : i + 1 \in 1..n /\ f[i] = e[i + 1]
    BY DEF Layouts, HeaderRecords
  <1>2. /\ size \in 1..fBufferSize /\ at \in 0..fBufferSize
        /\ End(e, 1) = at + size /\ at + size <= fBufferSize
        /\ at >= q.front \/ at + size <= q.front
    BY <1>0, <1>1 DEF Laid, Inside, End
  <1>3. q.front \in 0..fBufferSize /\ q.length \in 0..fBufferSize
    BY DEF Queues
  <1>4. /\ FrontEntryOffset(q, size) = at
        /\ FrontPadding(q, size) = padding
        /\ at = q.front \/ (at = 0 /\ q.front > 0 /\ size > fBufferSize - q.front)
    <2>1. NoneBetween(e, 0, 1)
      BY DEF NoneBetween
    <2>2. QED
      BY <2>1, FrontIsFirst
  <1>5. /\ Place(e, 1, q) + size <= q.front + q.length
        /\ Place(e, 1, q) = IF at = q.front THEN at ELSE at + fBufferSize
    BY <1>0, <1>2, <1>3, <1>4 DEF Laid, LengthIsTrue, Place
  <1>6. padding + size \in 0 .. 2 * fBufferSize /\ padding + size <= q.length
    BY <1>0, <1>2, <1>3, <1>4, <1>5
  <1>7. r = [front |-> at + size, length |-> q.length - (padding + size)]
    BY <1>3, <1>4, <1>6, MinusIsMinus DEF Dequeued
  <1>8. r \in Queues /\ r.front = at + size /\ r.length = q.length - (padding + size)
    BY <1>0, <1>2, <1>3, <1>6, <1>7 DEF Queues
  <1> DEFINE round == IF at = q.front THEN 0 ELSE fBufferSize
  <1>9. /\ q.front + q.length = r.front + r.length + round
        /\ r.length \in 0..fBufferSize
    BY <1>0, <1>2, <1>3, <1>4, <1>8 DEF Queues
  <1>10. e[1].size = size /\ e[1].offset = at
    OBVIOUS
  <1> HIDE DEF r, size, at, padding, left
  <1>11. ASSUME NEW i \in 1..left, IsData(f, i)
         PROVE  /\ IsData(e, i + 1)
                /\ f[i].offset >= r.front \/ End(f, i) <= r.front
                /\ Place(e, i + 1, q) = Place(f, i, r) + round
    <2>1. IsData(e, i + 1) /\ f[i] = e[i + 1] /\ i + 1 \in 1..n /\ i \in Nat
      BY <1>1, <1>11 DEF IsData
    <2>2. Place(e, 1, q) + size <= Place(e, i + 1, q)
      <3>1. IsData(e, 1) /\ 1 \in 1..n /\ 1 < i + 1
        BY <1>1, <2>1
      <3>2. QED
        BY <2>1, <3>1, <1>10 DEF Laid, InTurn
    <2>3. /\ e[i + 1].offset >= q.front \/ End(e, i + 1) <= q.front
          /\ End(e, i + 1) <= fBufferSize
          /\ e[i + 1].size >= 1
          /\ e[i + 1].size \in 0..fBufferSize /\ e[i + 1].offset \in 0..fBufferSize
      BY <2>1, <1>1 DEF Laid, Inside
    <2>4. QED
      BY <2>1, <2>2, <2>3, <1>0, <1>2, <1>3, <1>4, <1>5, <1>8 DEF Place, End
  <1>12. \A i \in 1..left : IsData(e, i + 1) => IsData(f, i)
    BY <1>1 DEF IsData
  <1>13. Inside(f, left, r)
    <2> SUFFICES ASSUME NEW i \in 1..left, IsData(f, i)
                 PROVE  /\ f[i].size >= 1 /\ End(f, i) <= fBufferSize
                        /\ f[i].offset >= r.front \/ End(f, i) <= r.front
      BY DEF Inside
    <2>1. IsData(e, i + 1) /\ f[i] = e[i + 1] /\ i + 1 \in 1..n
      BY <1>1, <1>11
    <2>2. QED
      BY <2>1, <1>11 DEF Laid, Inside, End
  <1>14. \A i \in 1..left : Place(f, i, r) \in Int /\ f[i].size \in Int /\ round \in Int
    BY <1>0, <1>1, <1>2, <1>8 DEF Place
  <1>15. InTurn(f, left, r)
    <2> SUFFICES ASSUME NEW i \in 1..left, NEW j \in 1..left,
                        IsData(f, i), IsData(f, j), i < j
                 PROVE  Place(f, i, r) + f[i].size <= Place(f, j, r)
      BY DEF InTurn
    <2>1. /\ IsData(e, i + 1) /\ IsData(e, j + 1) /\ f[i] = e[i + 1]
          /\ i + 1 \in 1..n /\ j + 1 \in 1..n /\ i + 1 < j + 1
      BY <1>1, <1>11
    <2>2. Place(e, i + 1, q) + f[i].size <= Place(e, j + 1, q)
      BY <2>1 DEF Laid, InTurn
    <2>3. /\ Place(e, i + 1, q) = Place(f, i, r) + round
          /\ Place(e, j + 1, q) = Place(f, j, r) + round
      BY <1>11
    <2> HIDE DEF round
    <2>4. QED
      BY <2>2, <2>3, <1>14
  <1>16. ASSUME NEW i \in 0..left, NEW j \in 1 .. left + 1, NoneBetween(f, i, j)
         PROVE  NoneBetween(e, i + 1, j + 1)
    <2> SUFFICES ASSUME NEW k \in i + 2 .. j, IsData(e, k) PROVE FALSE
      BY <1>1 DEF NoneBetween
    <2>1. k - 1 \in 1..left /\ k - 1 \in i + 1 .. j - 1 /\ (k - 1) + 1 = k
      BY <1>1
    <2>2. IsData(f, k - 1)
      BY <2>1, <1>12
    <2>3. QED
      BY <2>1, <2>2, <1>16 DEF NoneBetween
  <1>17. Contiguous(f, left, r)
    <2>1. ASSUME NEW i \in 1..left, NEW j \in 1..left,
                 IsData(f, i), IsData(f, j), i < j, NoneBetween(f, i, j)
          PROVE  Follows(f, j, End(f, i))
      <3>1. /\ IsData(e, i + 1) /\ IsData(e, j + 1)
            /\ f[i] = e[i + 1] /\ f[j] = e[j + 1]
            /\ i + 1 \in 1..n /\ j + 1 \in 1..n /\ i + 1 < j + 1
        BY <2>1, <1>1, <1>11
      <3>2. NoneBetween(e, i + 1, j + 1)
        BY <2>1, <1>1, <1>16
      <3>3. Follows(e, j + 1, End(e, i + 1))
        BY <3>1, <3>2 DEF Laid, Contiguous
      <3>4. QED
        BY <3>1, <3>3 DEF Follows, End
    <2>2. ASSUME NEW i \in 1..left, IsData(f, i), NoneBetween(f, 0, i)
          PROVE  Follows(f, i, r.front)
      <3>1. IsData(e, i + 1) /\ f[i] = e[i + 1] /\ i + 1 \in 1..n /\ 1 \in 1..n /\ 1 < i + 1
        BY <2>2, <1>1, <1>11
      <3>2. NoneBetween(e, 0 + 1, i + 1)
        BY <2>2, <1>1, <1>16
      <3>3. Follows(e, i + 1, End(e, 1))
        BY <3>1, <3>2 DEF Laid, Contiguous
      <3>4. End(e, 1) = r.front
        BY <1>2, <1>8
      <3>5. QED
        BY <3>1, <3>3, <3>4 DEF Follows
    <2>3. QED
      BY <2>1, <2>2 DEF Contiguous
  <1>18. LengthIsTrue(f, left, r)
    <2>1. ASSUME NEW i \in 1..left, IsData(f, i)
          PROVE  Place(f, i, r) + f[i].size <= r.front + r.length
      <3>1. IsData(e, i + 1) /\ f[i] = e[i + 1] /\ i + 1 \in 1..n
        BY <2>1, <1>1, <1>11
      <3>2. Place(e, i + 1, q) + f[i].size <= q.front + q.length
        BY <3>1 DEF Laid, LengthIsTrue
      <3>3. Place(e, i + 1, q) = Place(f, i, r) + round
        BY <2>1, <1>11
      <3> HIDE DEF round
      <3>4. QED
        BY <3>2, <3>3, <1>2, <1>3, <1>8, <1>9, <1>14
    <2>2. ASSUME NEW i \in 1..left, IsData(f, i), NoneBetween(f, i, left + 1)
          PROVE  Place(f, i, r) + f[i].size = r.front + r.length
      <3>1. IsData(e, i + 1) /\ f[i] = e[i + 1] /\ i + 1 \in 1..n
        BY <2>2, <1>1, <1>11
      <3>2. NoneBetween(e, i + 1, n + 1)
        BY <2>2, <1>1, <1>16
      <3>3. Place(e, i + 1, q) + f[i].size = q.front + q.length
        BY <3>1, <3>2 DEF Laid, LengthIsTrue
      <3>4. Place(e, i + 1, q) = Place(f, i, r) + round
        BY <2>2, <1>11
      <3> HIDE DEF round
      <3>5. QED
        BY <3>3, <3>4, <1>2, <1>3, <1>8, <1>9, <1>14
    <2>3. ASSUME \A i \in 1..left : ~IsData(f, i)
          PROVE  r.length = 0
      <3>1. NoneBetween(e, 1, n + 1)
        <4> SUFFICES ASSUME NEW k \in 2..n, IsData(e, k) PROVE FALSE
          BY <1>1 DEF NoneBetween
        <4>1. k - 1 \in 1..left /\ (k - 1) + 1 = k
          BY <1>1
        <4>2. QED
          BY <4>1, <1>12, <2>3
      <3>2. 1 \in 1..n
        BY <1>1
      <3>3. Place(e, 1, q) + size = q.front + q.length
        BY <3>1, <3>2, <1>10 DEF Laid, LengthIsTrue
      <3>4. QED
        BY <3>3, <1>0, <1>2, <1>3, <1>4, <1>5, <1>8 DEF padding
    <2>4. QED
      BY <2>1, <2>2, <2>3 DEF LengthIsTrue
  <1>19. QED
    BY <1>8, <1>13, <1>15, <1>17, <1>18 DEF Laid, r, size, left

(* A header without data leaves the front.                                 *)
LEMMA LaidWhenOtherLeaves ==
    ASSUME NEW n \in Nat \ {0}, NEW e \in Layouts(n), NEW f \in Layouts(n - 1),
           NEW q \in Queues, Laid(e, n, q),
           \A i \in 1 .. n - 1 : f[i] = e[i + 1],
           ~IsData(e, 1)
    PROVE  Laid(f, n - 1, q)
  <1> DEFINE left == n - 1
  <1>1. /\ left \in Nat /\ n = left + 1
        /\ \A i \in 1..left : i + 1 \in 1..n /\ f[i] = e[i + 1]
    OBVIOUS
  <1> HIDE DEF left
  <1>2. \A i \in 1..left : /\ i + 1 \in 1..n /\ f[i] = e[i + 1]
                           /\ IsData(f, i) <=> IsData(e, i + 1)
                           /\ End(f, i) = End(e, i + 1)
                           /\ Place(f, i, q) = Place(e, i + 1, q)
                           /\ \A end : Follows(f, i, end) <=> Follows(e, i + 1, end)
    BY <1>1 DEF IsData, End, Place, Follows
  <1>3. ASSUME NEW i \in 0..left, NEW j \in 1 .. left + 1, NoneBetween(f, i, j)
        PROVE  NoneBetween(e, i + 1, j + 1)
    <2> SUFFICES ASSUME NEW k \in i + 2 .. j, IsData(e, k) PROVE FALSE
      BY <1>1 DEF NoneBetween
    <2>1. k - 1 \in 1..left /\ k - 1 \in i + 1 .. j - 1 /\ (k - 1) + 1 = k
      BY <1>1
    <2>2. IsData(f, k - 1)
      BY <2>1, <1>2
    <2>3. QED
      BY <2>1, <2>2, <1>3 DEF NoneBetween
  <1>4. Inside(f, left, q)
    BY <1>2 DEF Laid, Inside
  <1>5. InTurn(f, left, q)
    <2> SUFFICES ASSUME NEW i \in 1..left, NEW j \in 1..left,
                        IsData(f, i), IsData(f, j), i < j
                 PROVE  Place(f, i, q) + f[i].size <= Place(f, j, q)
      BY DEF InTurn
    <2>1. i + 1 < j + 1
      OBVIOUS
    <2>2. QED
      BY <2>1, <1>2 DEF Laid, InTurn
  <1>6. Contiguous(f, left, q)
    <2>1. ASSUME NEW i \in 1..left, NEW j \in 1..left,
                 IsData(f, i), IsData(f, j), i < j, NoneBetween(f, i, j)
          PROVE  Follows(f, j, End(f, i))
      <3>1. i + 1 < j + 1 /\ NoneBetween(e, i + 1, j + 1)
        BY <2>1, <1>1, <1>3
      <3>2. QED
        BY <2>1, <3>1, <1>2 DEF Laid, Contiguous
    <2>2. ASSUME NEW i \in 1..left, IsData(f, i), NoneBetween(f, 0, i)
          PROVE  Follows(f, i, q.front)
      <3>1. NoneBetween(e, 0 + 1, i + 1)
        BY <2>2, <1>1, <1>3
      <3>2. NoneBetween(e, 0, i + 1)
        BY <3>1 DEF NoneBetween
      <3>3. QED
        BY <2>2, <3>2, <1>2 DEF Laid, Contiguous
    <2>3. QED
      BY <2>1, <2>2 DEF Contiguous
  <1>7. LengthIsTrue(f, left, q)
    <2>1. ASSUME NEW i \in 1..left, IsData(f, i), NoneBetween(f, i, left + 1)
          PROVE  Place(f, i, q) + f[i].size = q.front + q.length
      <3>1. NoneBetween(e, i + 1, n + 1)
        BY <2>1, <1>1, <1>3
      <3>2. QED
        BY <2>1, <3>1, <1>2 DEF Laid, LengthIsTrue
    <2>2. ASSUME \A i \in 1..left : ~IsData(f, i)
          PROVE  \A i \in 1..n : ~IsData(e, i)
      <3> SUFFICES ASSUME NEW k \in 2..n, IsData(e, k) PROVE FALSE
        BY <1>1
      <3>1. k - 1 \in 1..left /\ (k - 1) + 1 = k
        BY <1>1
      <3>2. QED
        BY <3>1, <1>2, <2>2
    <2>3. QED
      BY <2>1, <2>2, <1>2 DEF Laid, LengthIsTrue
  <1>8. QED
    BY <1>4, <1>5, <1>6, <1>7 DEF Laid, left
-----------------------------------------------------------------------------
(* The list of headers.                                                    *)

KeptOf(t, u) == IF t = NoHeader THEN u ELSE <<t>> \o u

LEMMA KeptIs ==
    ASSUME NEW S, NoHeader \notin S, NEW t \in S \cup {NoHeader}, NEW u \in Seq(S)
    PROVE  /\ KeptOf(t, u) \in Seq(S)
           /\ t = NoHeader => KeptOf(t, u) = u
           /\ t # NoHeader => /\ Len(KeptOf(t, u)) = Len(u) + 1
                              /\ KeptOf(t, u)[1] = t
                              /\ \A i \in 1..Len(u) : KeptOf(t, u)[i + 1] = u[i]
  <1>1. CASE t = NoHeader
    BY <1>1 DEF KeptOf
  <1>2. CASE t # NoHeader
    <2>1. <<t>> \in Seq(S) /\ Len(<<t>>) = 1 /\ <<t>>[1] = t
      BY <1>2
    <2>2. KeptOf(t, u) = <<t>> \o u
      BY <1>2 DEF KeptOf
    <2>3. QED
      BY <1>2, <2>1, <2>2
  <1>3. QED
    BY <1>1, <1>2

Circle(A, links) ==
    \A part \in SUBSET A :
        part # {} /\ (\A h \in part : links[h] \in part) => part = A

(* A new header is linked in.                                              *)
LEMMA CircleGrows ==
    ASSUME NEW A, NEW links, NEW new, new \notin A, NEW w \in A,
           \A h \in A : links[h] \in A, Circle(A, links),
           NEW longer, longer[w] = new, longer[new] = links[w],
           \A h \in A \ {w} : longer[h] = links[h]
    PROVE  Circle(A \cup {new}, longer)
  <1> SUFFICES ASSUME NEW part \in SUBSET (A \cup {new}), part # {},
                      \A h \in part : longer[h] \in part
               PROVE  part = A \cup {new}
    BY DEF Circle
  <1> DEFINE old == part \ {new}
  <1>1. old \in SUBSET A
    OBVIOUS
  <1>2. old # {}
    <2>1. new \in part => links[w] \in part
      OBVIOUS
    <2>2. QED
      BY <2>1
  <1>3. \A h \in old : links[h] \in old
    OBVIOUS
  <1>4. old = A
    BY <1>1, <1>2, <1>3 DEF Circle
  <1>5. QED
    BY <1>4

(* Some header comes before each.                                          *)
LEMMA CircleHasAll ==
    ASSUME NEW A, NEW links, \A h \in A : links[h] \in A, Circle(A, links), NEW w \in A
    PROVE  \E h \in A : links[h] = w
  <1> SUFFICES ASSUME \A h \in A : links[h] # w PROVE FALSE
    OBVIOUS
  <1> DEFINE rest == A \ {w}
  <1>1. rest \in SUBSET A /\ rest # A
    OBVIOUS
  <1>2. \A h \in rest : links[h] \in rest
    OBVIOUS
  <1>3. rest # {}
    OBVIOUS
  <1>4. QED
    BY <1>1, <1>2, <1>3 DEF Circle

-----------------------------------------------------------------------------
(* The inductive invariant.                                                *)

(* The headers of the packets kept are those in use.                       *)
KeptIsSound ==
    /\ \A i \in 1..Len(Kept) : Kept[i] \in Allocated /\ ~IsFree(Kept[i])
    /\ \A i, j \in 1..Len(Kept) : Kept[i] = Kept[j] => i = j
    /\ \A h \in Allocated : IsFree(h) \/ \E i \in 1..Len(Kept) : Kept[i] = h

(* They are linked in the order of arrival, from the next to acknowledge   *)
(* to the last written.                                                    *)
LinksAreSound ==
    /\ \A h \in Allocated : next[h] \in Allocated
    /\ Circle(Allocated, next)
    /\ Len(Kept) = 0 => next[fLastWrittenHeader] = fLastReadHeader
    /\ Len(Kept) > 0 => /\ Kept[1] = fLastReadHeader
                        /\ Kept[Len(Kept)] = fLastWrittenHeader
    /\ \A i \in 1 .. Len(Kept) - 1 : next[Kept[i]] = Kept[i + 1]

Records == [i \in 1..Len(Kept) |-> hdr[Kept[i]]]

ListIsSound == /\ KeptIsSound
               /\ LinksAreSound
               /\ Laid(Records, Len(Kept), fPacketQueue)

(* How far notification is turned on or off.  No packet is there before it *)
(* is all on, and none waits when the client works on none.                *)
Calls == MaxSwitches - switches
RefsAfter(calls) ==
    CASE calls = 0 -> {}
      [] calls = 1 -> {"packet"}
      [] calls = 2 -> {"packet", "skipped"}
      [] calls = 3 -> AllRefs
      [] calls = 4 -> {"skipped", "read"}
      [] calls = 5 -> {"read"}
      [] calls = 6 -> {}
      [] calls = 7 -> {"packet"}
      [] OTHER -> {"packet", "skipped"}

SwitchesAreTrue ==
    /\ refs = RefsAfter(Calls)
    /\ Calls < 3 => told = NoHeader /\ untold = <<>>
    /\ Calls = 3 /\ told = NoHeader => untold = <<>>

PseudoInv ==
    /\ PseudoTypeOK
    /\ SwitchesAreTrue
    /\ IF active THEN ListIsSound ELSE told = NoHeader /\ untold = <<>>
LEMMA AllAreOn ==
    ASSUME SwitchesAreTrue, PseudoTypeOK, NotifiedOnce, refs = AllRefs
    PROVE  Calls = 3 /\ (told = NoHeader => untold = <<>>)
  <1>1. Calls \in 0..8
    BY Assumptions DEF PseudoTypeOK, Calls, NotifiedOnce, HeadersAssumption
  <1>2. RefsAfter(Calls) = AllRefs
    BY DEF SwitchesAreTrue
  <1>3. \A calls \in 0..8 : RefsAfter(calls) = AllRefs => calls = 3
    BY DEF RefsAfter, AllRefs
  <1>4. QED
    BY <1>1, <1>2, <1>3 DEF SwitchesAreTrue

LEMMA WithoutFirst ==
    ASSUME NEW S, NEW u \in Seq(S), u # <<>>,
           \A i \in 1..Len(u) : u[i] = u[1] => i = 1
    PROVE  Without(u, u[1]) = Tail(u)
  <1>1. DOMAIN u = 1..Len(u) /\ Len(u) \in Nat /\ Len(u) >= 1
    OBVIOUS
  <1>2. (CHOOSE i \in DOMAIN u : u[i] = u[1]) = 1
    BY <1>1
  <1>3. Without(u, u[1]) = SubSeq(u, 1, 0) \o SubSeq(u, 2, Len(u))
    <2>1. \E i \in DOMAIN u : u[i] = u[1]
      BY <1>1
    <2>2. Without(u, u[1]) =
              LET i == CHOOSE i \in DOMAIN u : u[i] = u[1]
              IN  SubSeq(u, 1, i - 1) \o SubSeq(u, i + 1, Len(u))
      BY <2>1, Zenon DEF Without
    <2>3. Without(u, u[1]) = SubSeq(u, 1, 1 - 1) \o SubSeq(u, 1 + 1, Len(u))
      BY <1>2, <2>2, Zenon
    <2>4. QED
      BY <2>3
  <1>4. SubSeq(u, 1, 0) = <<>>
    OBVIOUS
  <1>5. SubSeq(u, 2, Len(u)) = Tail(u)
    BY <1>1
  <1>6. QED
    BY <1>3, <1>4, <1>5

LEMMA WithoutOnly ==
    ASSUME NEW S, NEW h \in S
    PROVE  Without(Append(<<>>, h), h) = <<>>
  <1> DEFINE u == Append(<<>>, h)
  <1>1. u \in Seq(S) /\ Len(u) = 1 /\ u[1] = h
    OBVIOUS
  <1>2. Tail(u) = <<>>
    OBVIOUS
  <1> HIDE DEF u
  <1>3. u # <<>> /\ \A i \in 1..Len(u) : u[i] = u[1] => i = 1
    BY <1>1
  <1>4. Without(u, u[1]) = Tail(u)
    BY <1>1, <1>3, WithoutFirst
  <1>5. QED
    BY <1>1, <1>2, <1>4, Zenon DEF u

(* The notification of a packet just queued.                               *)
LEMMA QueuedIsTold ==
    ASSUME PseudoInv, NotifiedOnce, refs = AllRefs,
           NEW h \in Headers, NEW headers, headers[h].type \in PacketTypes,
           sendPacketNotification(headers, h, told, Append(untold, h))
    PROVE  /\ Kept' = Append(Kept, h)
           /\ IF told = NoHeader THEN told' = h /\ untold = <<>> /\ untold' = <<>>
                                 ELSE told' = told /\ untold' = Append(untold, h)
  <1>1. told = NoHeader => untold = <<>>
    BY AllAreOn DEF PseudoInv
  <1>2. AsyncRef(headers[h].type) \in AllRefs
    BY DEF AsyncRef, AllRefs
  <1>3. h # NoHeader
    BY Assumptions DEF HeadersAssumption
  <1>4. /\ told \in Headers \cup {NoHeader} /\ untold \in Seq(Headers)
    BY DEF PseudoInv, PseudoTypeOK, Allocated
  <1>5. CASE told = NoHeader
    <2>1. told' = h /\ untold' = Without(Append(untold, h), h)
      BY <1>2, <1>5 DEF sendPacketNotification
    <2>2. untold' = <<>>
      BY <1>1, <1>5, <2>1, WithoutOnly
    <2>3. Kept = <<>> /\ Kept' = <<h>> \o <<>>
      BY <1>1, <1>3, <1>5, <2>1, <2>2 DEF Kept
    <2>4. QED
      BY <1>1, <1>5, <2>1, <2>2, <2>3
  <1>6. CASE told # NoHeader
    <2>1. told' = told /\ untold' = Append(untold, h)
      BY <1>6 DEF sendPacketNotification
    <2>2. Kept = <<told>> \o untold /\ Kept' = <<told>> \o Append(untold, h)
      BY <1>6, <2>1 DEF Kept
    <2>3. <<told>> \o Append(untold, h) = Append(<<told>> \o untold, h)
      BY <1>4, <1>6
    <2>4. QED
      BY <1>6, <2>1, <2>2, <2>3
  <1>7. QED
    BY <1>5, <1>6

(* The header written is none in use, and follows the last.                *)
LEMMA HeaderIsFresh ==
    ASSUME PseudoInv, active, NeedsNew => Allocated # Headers
    PROVE  /\ NextHeader \in Headers
           /\ NeedsNew => NextHeader \notin Allocated
           /\ ~NeedsNew => NextHeader = next[fLastWrittenHeader]
           /\ \A i \in 1..Len(Kept) : Kept[i] # NextHeader
           /\ NeedsNew => Len(Kept) > 0
           /\ Len(Kept) = 0 => NextHeader = fLastReadHeader
  <1>1. ListIsSound /\ PseudoTypeOK
    BY DEF PseudoInv
  <1>2. Len(Kept) = 0 => IsFree(fLastWrittenHeader)
    BY <1>1 DEF ListIsSound, KeptIsSound, PseudoTypeOK
  <1>3. CASE NeedsNew
    <2>1. NextHeader \in Headers \ Allocated
      BY <1>3 DEF NextHeader, NewHeader, Allocated
    <2>2. Len(Kept) # 0
      BY <1>2, <1>3 DEF NeedsNew
    <2>3. Len(Kept) \in Nat
      <3>1. Kept \in Seq(Headers)
        BY <1>1, KeptIs, Assumptions DEF PseudoTypeOK, Kept, KeptOf, HeadersAssumption, Allocated
      <3>2. QED
        BY <3>1
    <2>4. QED
      BY <1>1, <1>3, <2>1, <2>2, <2>3 DEF ListIsSound, KeptIsSound
  <1>4. CASE ~NeedsNew
    <2>1. NextHeader = next[fLastWrittenHeader]
      BY <1>4 DEF NextHeader
    <2>2. NextHeader \in Headers
      BY <1>1, <2>1 DEF PseudoTypeOK, Allocated
    <2>3. ASSUME NEW i \in 1..Len(Kept) PROVE Kept[i] # NextHeader
      <3>1. Kept[Len(Kept)] = fLastWrittenHeader /\ Len(Kept) \in 1..Len(Kept)
        BY <1>1, <2>3 DEF ListIsSound, LinksAreSound
      <3>2. IsFree(NextHeader)
        BY <1>1, <1>4, <2>1, <3>1 DEF NeedsNew, ListIsSound, KeptIsSound
      <3>3. QED
        BY <1>1, <3>2 DEF ListIsSound, KeptIsSound
    <2>4. Len(Kept) = 0 => NextHeader = fLastReadHeader
      BY <1>1, <2>1 DEF ListIsSound, LinksAreSound
    <2>5. QED
      BY <1>4, <2>1, <2>2, <2>3, <2>4
  <1>5. QED
    BY <1>3, <1>4
LEMMA KeptIsASequence ==
    ASSUME PseudoTypeOK
    PROVE  Kept \in Seq(Headers) /\ Len(Kept) \in Nat
  <1>1. NoHeader \notin Headers
    BY Assumptions DEF HeadersAssumption
  <1>2. told \in Headers \cup {NoHeader} /\ untold \in Seq(Headers)
    BY DEF PseudoTypeOK, Allocated
  <1>3. KeptOf(told, untold) \in Seq(Headers)
    BY <1>1, <1>2, KeptIs
  <1>4. QED
    BY <1>3 DEF Kept, KeptOf

LEMMA TypesAreOther ==
    /\ "none" \notin PacketTypes /\ "kFree" \notin PacketTypes
    /\ DataTypes \subseteq PacketTypes
    /\ Empty("kFree") \in HeaderRecords /\ Empty("none") \in HeaderRecords
    /\ \A type \in PacketTypes : Empty(type) \in HeaderRecords
  BY Assumptions DEF PacketTypes, DataTypes, Empty, HeaderRecords, BufferAssumption

(* A header that is written becomes the last of the list.                  *)
LEMMA WritesKeepList ==
    ASSUME PseudoInv, NotifiedOnce, active, refs = AllRefs,
           NeedsNew => Allocated # Headers,
           NEW r \in HeaderRecords, r.type \in PacketTypes,
           NEW q \in Queues, Write(NextHeader, Links, r, q),
           UNCHANGED <<fLastReadHeader, refs, switches>>
    PROVE  /\ PseudoTypeOK' /\ SwitchesAreTrue'
           /\ KeptIsSound' /\ LinksAreSound'
           /\ Kept' = Append(Kept, NextHeader)
           /\ Len(Kept) \in Nat /\ Len(Kept') = Len(Kept) + 1
           /\ Records \in Layouts(Len(Kept)) /\ Records' \in Layouts(Len(Kept) + 1)
           /\ \A i \in 1..Len(Kept) : Records'[i] = Records[i]
           /\ Records'[Len(Kept) + 1] = r
  <1> DEFINE h == NextHeader
             n == Len(Kept)
  <1>1. /\ PseudoTypeOK /\ SwitchesAreTrue /\ KeptIsSound /\ LinksAreSound
        /\ Kept \in Seq(Headers) /\ n \in Nat
    BY KeptIsASequence DEF PseudoInv, ListIsSound
  <1>2. /\ h \in Headers
        /\ NeedsNew => h \notin Allocated
        /\ ~NeedsNew => h = next[fLastWrittenHeader]
        /\ \A i \in 1..n : Kept[i] # h
        /\ NeedsNew => n > 0
        /\ n = 0 => h = fLastReadHeader
    BY HeaderIsFresh
  <1>3. /\ hdr' = [hdr EXCEPT ![h] = r] /\ next' = Links /\ fLastWrittenHeader' = h
        /\ fPacketQueue' = q
        /\ sendPacketNotification([hdr EXCEPT ![h] = r], h, told, Append(untold, h))
    BY DEF Write
  <1> HIDE DEF h
  <1>4. hdr'[h] = r /\ \A g \in Headers \ {h} : hdr'[g] = hdr[g]
    <2>1. hdr \in [Headers -> HeaderRecords]
      BY <1>1 DEF PseudoTypeOK
    <2>2. QED
      BY <2>1, <1>2, <1>3
  <1>5. /\ Kept' = Append(Kept, h)
        /\ IF told = NoHeader THEN told' = h /\ untold = <<>> /\ untold' = <<>>
                              ELSE told' = told /\ untold' = Append(untold, h)
    <2>1. [hdr EXCEPT ![h] = r][h].type \in PacketTypes
      BY <1>3, <1>4
    <2>2. QED
      BY <2>1, <1>2, <1>3, QueuedIsTold
  <1>6. /\ Len(Kept') = n + 1 /\ Kept'[n + 1] = h
        /\ \A i \in 1..n : Kept'[i] = Kept[i] /\ Kept[i] \in Headers
    BY <1>1, <1>2, <1>5
  <1>7. Allocated' = Allocated \cup {h} /\ Allocated \subseteq Headers
    BY <1>2, <1>3, <1>4, TypesAreOther DEF Allocated
  <1> HIDE DEF n
  <1>8. fLastWrittenHeader \in Allocated /\ \A g \in Allocated : next[g] \in Allocated
    BY <1>1 DEF PseudoTypeOK, LinksAreSound
  <1>9. ~NeedsNew => h \in Allocated
    BY <1>2, <1>8
  <1>10. /\ ~NeedsNew => next' = next
         /\ NeedsNew => /\ next'[h] = next[fLastWrittenHeader]
                        /\ next'[fLastWrittenHeader] = h
                        /\ \A g \in Headers \ {h, fLastWrittenHeader} : next'[g] = next[g]
         /\ next' \in [Headers -> Headers]
    BY <1>1, <1>2, <1>3, <1>7, <1>8 DEF Links, NextHeader, PseudoTypeOK, h
  <1>11. PseudoTypeOK'
    <2>1. hdr' \in [Headers -> HeaderRecords]
      BY <1>1, <1>3 DEF PseudoTypeOK
    <2>2. untold \in Seq(Allocated') /\ told \in Allocated' \cup {NoHeader} /\ h \in Allocated'
      BY <1>1, <1>7 DEF PseudoTypeOK
    <2>3. untold' \in Seq(Allocated') /\ told' \in Allocated' \cup {NoHeader}
      BY <2>2, <1>5
    <2>4. fLastReadHeader' \in Allocated' \cup {NoHeader}
      BY <1>1, <1>7 DEF PseudoTypeOK
    <2>5. fPacketQueue' \in [front : 0..fBufferSize, length : 0..fBufferSize]
      BY <1>3 DEF Queues
    <2>6. QED
      BY <2>1, <2>2, <2>3, <2>4, <2>5, <1>1, <1>3, <1>10 DEF PseudoTypeOK
  <1>12. SwitchesAreTrue'
    <2>1. Calls' = Calls /\ refs' = refs /\ Calls = 3
      BY <1>1, AllAreOn DEF Calls
    <2>2. told' # NoHeader
      BY <1>2, <1>5, Assumptions DEF HeadersAssumption
    <2>3. QED
      BY <2>1, <2>2, <1>1 DEF SwitchesAreTrue
  <1>13. KeptIsSound'
    <2>1. \A g \in Headers \ {h} : (hdr'[g].type = "kFree") <=> IsFree(g)
      BY <1>4 DEF IsFree
    <2>3. \A i \in 1 .. n + 1 : Kept'[i] \in Allocated' /\ hdr'[Kept'[i]].type # "kFree"
      <3>1. \A i \in 1..n : Kept[i] \in Headers \ {h} /\ ~IsFree(Kept[i]) /\ Kept[i] \in Allocated
        BY <1>1, <1>2, <1>6 DEF KeptIsSound, n
      <3>2. \A i \in 1..n : Kept'[i] \in Allocated' /\ hdr'[Kept'[i]].type # "kFree"
        BY <3>1, <1>3, <1>4, <1>6, <1>7 DEF IsFree
      <3>3. Kept'[n + 1] \in Allocated' /\ hdr'[Kept'[n + 1]].type # "kFree"
        BY <1>3, <1>4, <1>6, <1>7, TypesAreOther DEF IsFree
      <3>4. QED
        BY <3>2, <3>3, <1>1 DEF n
    <2>4. \A i, j \in 1 .. n + 1 : Kept'[i] = Kept'[j] => i = j
      <3>1. \A i, j \in 1..n : Kept[i] = Kept[j] => i = j
        BY <1>1 DEF KeptIsSound, n
      <3>2. QED
        BY <3>1, <1>1, <1>2, <1>6 DEF n
    <2>5. \A g \in Allocated' : hdr'[g].type = "kFree" \/ \E i \in 1 .. n + 1 : Kept'[i] = g
      <3>1. \A g \in Allocated : IsFree(g) \/ \E i \in 1..n : Kept[i] = g
        BY <1>1 DEF KeptIsSound, n
      <3>2. \A i \in 1..n : i \in 1 .. n + 1
        BY <1>1 DEF n
      <3>3. n + 1 \in 1 .. n + 1
        BY <1>1 DEF n
      <3>4. QED
        BY <3>1, <3>2, <3>3, <2>1, <1>6, <1>7
    <2>6. QED
      BY <2>3, <2>4, <2>5, <1>6 DEF KeptIsSound, IsFree
  <1>14. LinksAreSound'
    <2>1. \A g \in Allocated' : next'[g] \in Allocated'
      BY <1>7, <1>8, <1>9, <1>10
    <2>2. Circle(Allocated', next')
      <3>1. Circle(Allocated, next)
        BY <1>1 DEF LinksAreSound
      <3>2. CASE NeedsNew
        <4>1. h \notin Allocated /\ \A g \in Allocated \ {fLastWrittenHeader} : next'[g] = next[g]
          BY <3>2, <1>2, <1>7, <1>10
        <4>2. Circle(Allocated \cup {h}, next')
          BY <3>1, <3>2, <4>1, <1>8, <1>10, CircleGrows
        <4>3. QED
          BY <4>2, <1>7
      <3>3. CASE ~NeedsNew
        BY <3>1, <3>3, <1>7, <1>9, <1>10 DEF Circle
      <3>4. QED
        BY <3>2, <3>3
    <2>3. /\ n > 0 => Kept[1] = fLastReadHeader /\ Kept[n] = fLastWrittenHeader
          /\ \A i \in 1 .. n - 1 : next[Kept[i]] = Kept[i + 1]
      BY <1>1 DEF LinksAreSound, n
    <2>4. Kept'[1] = fLastReadHeader' /\ Kept'[n + 1] = fLastWrittenHeader'
      <3>1. CASE n = 0
        BY <3>1, <1>2, <1>3, <1>6 DEF n
      <3>2. CASE n > 0
        BY <3>2, <2>3, <1>1, <1>3, <1>6 DEF n
      <3>3. QED
        BY <3>1, <3>2, <1>1 DEF n
    <2>5. \A i \in 1..n : next'[Kept'[i]] = Kept'[i + 1]
      <3>1. ASSUME NEW i \in 1 .. n - 1
            PROVE  next'[Kept'[i]] = Kept'[i + 1]
        <4>1. i \in 1..n /\ i + 1 \in 1..n /\ n \in 1..n /\ n > 0 /\ i # n
          BY <1>1 DEF n
        <4>2. Kept[i] # fLastWrittenHeader
          BY <4>1, <2>3, <1>1 DEF KeptIsSound, n
        <4>3. next'[Kept[i]] = next[Kept[i]]
          BY <4>1, <4>2, <1>2, <1>6, <1>10
        <4>4. QED
          BY <4>1, <4>3, <2>3, <1>6
      <3>2. n > 0 => next'[Kept'[n]] = Kept'[n + 1]
        BY <2>3, <1>1, <1>2, <1>6, <1>10 DEF n
      <3>3. QED
        BY <3>1, <3>2, <1>1 DEF n
    <2>6. QED
      BY <2>1, <2>2, <2>4, <2>5, <1>1, <1>6 DEF LinksAreSound, n
  <1>15. /\ Records \in Layouts(n)
         /\ Records' \in Layouts(n + 1)
         /\ \A i \in 1..n : Records'[i] = Records[i]
         /\ Records'[n + 1] = r
    <2>1. \A g \in Headers : hdr[g] \in HeaderRecords /\ hdr'[g] \in HeaderRecords
      BY <1>1, <1>11 DEF PseudoTypeOK
    <2>2. /\ Records = [i \in 1..n |-> hdr[Kept[i]]]
          /\ Records' = [i \in 1 .. n + 1 |-> hdr'[Kept'[i]]]
      BY <1>6 DEF Records, n
    <2>3. \A i \in 1..n : hdr'[Kept'[i]] = hdr[Kept[i]] /\ i \in 1 .. n + 1
      BY <1>1, <1>2, <1>3, <1>4, <1>6 DEF n
    <2>4. hdr'[Kept'[n + 1]] = r /\ n + 1 \in 1 .. n + 1
      BY <1>1, <1>3, <1>4, <1>6 DEF n
    <2>5. \A i \in 1 .. n + 1 : Kept'[i] \in Headers
      BY <1>1, <1>2, <1>6 DEF n
    <2>6. QED
      BY <2>1, <2>2, <2>3, <2>4, <2>5, <1>6 DEF Layouts
  <1>16. QED
    BY <1>1, <1>5, <1>6, <1>11, <1>12, <1>13, <1>14, <1>15 DEF h, n
LEMMA StutteringKeeps ==
    ASSUME PseudoInv, UNCHANGED pseudoVars
    PROVE  PseudoInv'
  <1>1. UNCHANGED <<hdr, next, fLastWrittenHeader, fLastReadHeader, fPacketQueue, refs,
                    told, untold, switches>>
    BY DEF pseudoVars, listVars
  <1>2. Kept' = Kept
    BY <1>1 DEF Kept
  <1>3. Records' = Records /\ Allocated' = Allocated /\ Calls' = Calls
    BY <1>1, <1>2 DEF Records, Allocated, Calls
  <1>4. PseudoTypeOK' /\ SwitchesAreTrue'
    BY <1>1, <1>3 DEF PseudoInv, PseudoTypeOK, SwitchesAreTrue
  <1>5. active => KeptIsSound' /\ LinksAreSound'
    BY <1>1, <1>2, <1>3 DEF PseudoInv, ListIsSound, KeptIsSound, LinksAreSound, IsFree
  <1>6. active => Laid(Records, Len(Kept), fPacketQueue)'
    <2>1. active => Laid(Records', Len(Kept'), fPacketQueue')
      BY <1>1, <1>2, <1>3 DEF PseudoInv, ListIsSound
    <2>2. QED
      BY <2>1 DEF Laid, Inside, InTurn, Contiguous,
         LengthIsTrue, Follows, Place, End, NoneBetween, IsData
  <1>7. QED
    BY <1>1, <1>4, <1>5, <1>6 DEF PseudoInv, ListIsSound, active

(* A packet that is queued.                                                *)
LEMMA QueuePacketKeeps ==
    ASSUME PseudoInv, NotifiedOnce, active, refs = AllRefs,
           NeedsNew => Allocated # Headers,
           NEW tag, NEW size,
           \/ tag = "kReadPacket" /\ size = 0
           \/ tag \in DataTypes /\ size \in Sizes /\ Fits(fPacketQueue, size),
           QueuePacket(tag, size),
           UNCHANGED <<fLastReadHeader, refs, switches>>
    PROVE  PseudoInv'
  <1>0. /\ fPacketQueue \in Queues
        /\ Laid(Records, Len(Kept), fPacketQueue)
        /\ active'
    BY DEF PseudoInv, PseudoTypeOK, ListIsSound, Queues, active
  <1>1. CASE tag = "kReadPacket"
    <2> DEFINE r == Empty(tag)
    <2>1. Write(NextHeader, Links, r, fPacketQueue)
      BY <1>1 DEF QueuePacket
    <2>2. r \in HeaderRecords /\ r.type \in PacketTypes /\ r.type \notin DataTypes
      BY <1>1, TypesAreOther DEF PacketTypes, Empty, DataTypes
    <2> HIDE DEF r
    <2>3. /\ PseudoTypeOK' /\ SwitchesAreTrue'
          /\ KeptIsSound' /\ LinksAreSound'
          /\ Len(Kept) \in Nat /\ Len(Kept') = Len(Kept) + 1
          /\ Records \in Layouts(Len(Kept)) /\ Records' \in Layouts(Len(Kept) + 1)
          /\ \A i \in 1..Len(Kept) : Records'[i] = Records[i]
          /\ Records'[Len(Kept) + 1] = r
      BY <1>0, <2>1, <2>2, WritesKeepList
    <2>4. ~IsData(Records', Len(Kept) + 1)
      BY <2>2, <2>3 DEF IsData
    <2>5. Laid(Records', Len(Kept) + 1, fPacketQueue)
      BY <1>0, <2>3, <2>4, LaidByAnother
    <2>6. fPacketQueue' = fPacketQueue
      BY <2>1 DEF Write
    <2>7. Laid(Records', Len(Kept'), fPacketQueue')
      BY <2>3, <2>5, <2>6
    <2>8. QED
      BY <1>0, <2>3, <2>7 DEF PseudoInv, ListIsSound, Laid, Inside, InTurn, Contiguous,
         LengthIsTrue, Follows, Place, End, NoneBetween, IsData
  <1>2. CASE tag \in DataTypes
    <2> DEFINE r == [type |-> tag, size |-> size,
                     offset |-> InsertOffset(fPacketQueue, size)]
               q == Enqueued(fPacketQueue, size)
    <2>0. tag # "kReadPacket" /\ size \in 1..fBufferSize /\ Fits(fPacketQueue, size)
      BY <1>2, Assumptions DEF DataTypes, HeadersAssumption
    <2>1. Write(NextHeader, Links, r, q)
      BY <2>0 DEF QueuePacket
    <2>2. q \in Queues /\ InsertOffset(fPacketQueue, size) \in 0..fBufferSize
      BY <1>0, <2>0, InsertIs
    <2>3. /\ r.type = tag /\ r.size = size /\ r.offset = InsertOffset(fPacketQueue, size)
          /\ r \in HeaderRecords /\ r.type \in PacketTypes
      BY <1>2, <2>0, <2>2, Assumptions DEF HeaderRecords, PacketTypes, BufferAssumption
    <2> HIDE DEF r, q
    <2>4. /\ PseudoTypeOK' /\ SwitchesAreTrue'
          /\ KeptIsSound' /\ LinksAreSound'
          /\ Len(Kept) \in Nat /\ Len(Kept') = Len(Kept) + 1
          /\ Records \in Layouts(Len(Kept)) /\ Records' \in Layouts(Len(Kept) + 1)
          /\ \A i \in 1..Len(Kept) : Records'[i] = Records[i]
          /\ Records'[Len(Kept) + 1] = r
      BY <1>0, <2>1, <2>2, <2>3, WritesKeepList
    <2>5. Laid(Records', Len(Kept) + 1, q)
      <3> DEFINE n == Len(Kept)
                 e == Records
                 f == Records'
      <3>1. /\ n \in Nat /\ e \in Layouts(n) /\ f \in Layouts(n + 1)
            /\ Laid(e, n, fPacketQueue)
            /\ \A i \in 1..n : f[i] = e[i]
            /\ f[n + 1].size = size
            /\ IsData(f, n + 1) /\ f[n + 1].size >= 1
            /\ Fits(fPacketQueue, f[n + 1].size)
            /\ f[n + 1].offset = InsertOffset(fPacketQueue, f[n + 1].size)
        BY <1>0, <1>2, <2>0, <2>3, <2>4 DEF IsData
      <3> HIDE DEF n, e, f
      <3>2. Laid(f, n + 1, Enqueued(fPacketQueue, f[n + 1].size))
        BY <1>0, <3>1, LaidWhenQueued
      <3>3. QED
        BY <3>1, <3>2 DEF n, f, q
    <2>6. Laid(Records', Len(Kept'), fPacketQueue')
      BY <2>1, <2>4, <2>5 DEF Write
    <2>7. QED
      BY <1>0, <2>4, <2>6 DEF PseudoInv, ListIsSound, Laid, Inside, InTurn, Contiguous,
         LengthIsTrue, Follows, Place, End, NoneBetween, IsData
  <1>3. QED
    BY <1>1, <1>2
(* A small packet always fits when the buffer is empty.                    *)
LEMMA SmallFitsInEmpty ==
    ASSUME NEW q \in Queues, q.length = 0, NEW size \in Sizes, PacketsAreSmall
    PROVE  Fits(q, size)
  <1>1. /\ fBufferSize \in Nat /\ fBufferSize > 0 /\ size \in 1..fBufferSize
        /\ 2 * size <= fBufferSize
    BY Assumptions DEF BufferAssumption, HeadersAssumption, PacketsAreSmall
  <1>2. q.front \in 0..fBufferSize
    BY DEF Queues
  <1>3. EndOffset(q) = IF q.front < fBufferSize THEN q.front ELSE 0
    BY <1>1, <1>2, EndIs
  <1>4. QED
    BY <1>1, <1>2, <1>3 DEF Fits, GoesToStart

(* A packet that is skipped: one more for the last header, or a new one.   *)
LEMMA SkipPacketKeeps ==
    ASSUME PseudoInv, NotifiedOnce, PacketsAreSmall, active, refs = AllRefs,
           NeedsNew => Allocated # Headers,
           NEW size \in Sizes, ~Fits(fPacketQueue, size),
           SkipPacket,
           UNCHANGED <<fLastReadHeader, refs, switches>>
    PROVE  PseudoInv'
  <1>0. /\ fPacketQueue \in Queues /\ PseudoTypeOK /\ ListIsSound
        /\ Laid(Records, Len(Kept), fPacketQueue)
        /\ active' /\ Kept \in Seq(Headers) /\ Len(Kept) \in Nat
    BY KeptIsASequence DEF PseudoInv, PseudoTypeOK, ListIsSound, Queues, active
  <1>1. Len(Kept) # 0
    <2>1. ASSUME Len(Kept) = 0 PROVE fPacketQueue.length = 0
      BY <1>0, <2>1 DEF Laid, LengthIsTrue
    <2>2. QED
      BY <2>1, <1>0, SmallFitsInEmpty
  <1>2. ~IsFree(fLastWrittenHeader)
    BY <1>0, <1>1 DEF ListIsSound, KeptIsSound, LinksAreSound
  <1>3. told # NoHeader
    <2>1. told = NoHeader => untold = <<>>
      BY AllAreOn DEF PseudoInv
    <2>2. told = NoHeader => Kept = <<>>
      BY <2>1 DEF Kept
    <2>3. QED
      BY <1>1, <2>2
  <1>4. CASE hdr[fLastWrittenHeader].type = "kSkippedPacket"
    <2>1. sendPacketNotification(hdr, fLastWrittenHeader, told, untold)
      BY <1>2, <1>4 DEF SkipPacket
    <2>2. told' = told /\ untold' = untold
      BY <1>3, <2>1 DEF sendPacketNotification
    <2>3. UNCHANGED pseudoVars
      BY <1>2, <1>4, <2>2 DEF SkipPacket, pseudoVars, listVars
    <2>4. QED
      BY <2>3, StutteringKeeps
  <1>5. CASE hdr[fLastWrittenHeader].type # "kSkippedPacket"
    <2> DEFINE r == Empty("kSkippedPacket")
    <2>1. Write(NextHeader, Links, r, fPacketQueue)
      BY <1>2, <1>5 DEF SkipPacket
    <2>2. r \in HeaderRecords /\ r.type \in PacketTypes /\ r.type \notin DataTypes
      BY TypesAreOther DEF PacketTypes, Empty, DataTypes
    <2> HIDE DEF r
    <2>3. /\ PseudoTypeOK' /\ SwitchesAreTrue'
          /\ KeptIsSound' /\ LinksAreSound'
          /\ Len(Kept) \in Nat /\ Len(Kept') = Len(Kept) + 1
          /\ Records \in Layouts(Len(Kept)) /\ Records' \in Layouts(Len(Kept) + 1)
          /\ \A i \in 1..Len(Kept) : Records'[i] = Records[i]
          /\ Records'[Len(Kept) + 1] = r
      BY <1>0, <2>1, <2>2, WritesKeepList
    <2>4. ~IsData(Records', Len(Kept) + 1)
      BY <2>2, <2>3 DEF IsData
    <2>5. Laid(Records', Len(Kept) + 1, fPacketQueue)
      BY <1>0, <2>3, <2>4, LaidByAnother
    <2>6. fPacketQueue' = fPacketQueue
      BY <2>1 DEF Write
    <2>7. Laid(Records', Len(Kept'), fPacketQueue')
      BY <2>3, <2>5, <2>6
    <2>8. QED
      BY <1>0, <2>3, <2>7 DEF PseudoInv, ListIsSound, Laid, Inside, InTurn, Contiguous,
         LengthIsTrue, Follows, Place, End, NoneBetween, IsData
  <1>6. QED
    BY <1>4, <1>5

LEMMA doPacketKeeps ==
    ASSUME PseudoInv, NotifiedOnce, PacketsAreSmall,
           NEW tag, NEW size,
           \/ tag = "kReadPacket" /\ size = 0
           \/ tag \in DataTypes /\ size \in Sizes,
           doPacket(tag, size)
    PROVE  PseudoInv'
  <1>1. /\ active /\ refs = AllRefs
        /\ NeedsNew => Allocated # Headers
        /\ UNCHANGED <<fLastReadHeader, refs, switches>>
    BY DEF doPacket, NotifiedOnce
  <1>2. CASE tag \in DataTypes /\ ~Fits(fPacketQueue, size)
    <2>1. SkipPacket /\ size \in Sizes
      BY <1>2 DEF doPacket, DataTypes
    <2>2. QED
      BY <1>1, <1>2, <2>1, SkipPacketKeeps
  <1>3. CASE ~(tag \in DataTypes /\ ~Fits(fPacketQueue, size))
    <2>1. QueuePacket(tag, size)
      BY <1>3 DEF doPacket
    <2>2. \/ tag = "kReadPacket" /\ size = 0
          \/ tag \in DataTypes /\ size \in Sizes /\ Fits(fPacketQueue, size)
      BY <1>3
    <2>3. QED
      BY <1>1, <2>1, <2>2, QueuePacketKeeps
  <1>4. QED
    BY <1>2, <1>3
(* The header that is acknowledged is the first kept, which the client was *)
(* told of, and the next to tell is the second.                            *)
LEMMA FirstIsAcknowledged ==
    ASSUME PseudoInv, clientCommandIsComplete
    PROVE  /\ active /\ PseudoTypeOK /\ ListIsSound /\ SwitchesAreTrue
           /\ Kept \in Seq(Headers) /\ untold \in Seq(Headers)
           /\ Len(Kept) = Len(untold) + 1 /\ Kept[1] = fLastReadHeader
           /\ \A i \in 1..Len(untold) : Kept[i + 1] = untold[i]
           /\ Kept' = untold
           /\ Calls >= 3
           /\ Calls = 3 /\ told' = NoHeader => untold' = <<>>
           /\ told' \in Allocated \cup {NoHeader} /\ untold' \in Seq(Allocated)
  <1> DEFINE old == fLastReadHeader
             following == next[old]
             headers == [hdr EXCEPT ![old] = Empty("kFree")]
  <1>1. /\ active /\ PseudoTypeOK /\ ListIsSound /\ SwitchesAreTrue /\ told # NoHeader
    BY DEF clientCommandIsComplete, PseudoInv
  <1>2. /\ NoHeader \notin Headers /\ told \in Allocated /\ untold \in Seq(Allocated)
        /\ Allocated \subseteq Headers /\ fLastReadHeader \in Allocated
    BY <1>1, Assumptions DEF PseudoTypeOK, HeadersAssumption, Allocated, active
  <1>3. /\ Kept \in Seq(Allocated) /\ Len(Kept) = Len(untold) + 1
        /\ \A i \in 1..Len(untold) : Kept[i + 1] = untold[i]
    <2>1. Kept = KeptOf(told, untold)
      BY DEF Kept, KeptOf
    <2>2. NoHeader \notin Allocated /\ told \in Allocated \cup {NoHeader} /\ told # NoHeader
      BY <1>1, <1>2
    <2>3. /\ KeptOf(told, untold) \in Seq(Allocated)
          /\ Len(KeptOf(told, untold)) = Len(untold) + 1
          /\ \A i \in 1..Len(untold) : KeptOf(told, untold)[i + 1] = untold[i]
      BY <1>2, <2>2, KeptIs
    <2>4. QED
      BY <2>1, <2>3
  <1>4. Len(untold) \in Nat /\ untold \in Seq(Headers) /\ Kept \in Seq(Headers)
    BY <1>2, <1>3
  <1>5. Kept[1] = old
    BY <1>1, <1>3, <1>4 DEF ListIsSound, LinksAreSound
  <1>6. headers[old] = Empty("kFree") /\ \A g \in Headers \ {old} : headers[g] = hdr[g]
    BY <1>1, <1>2 DEF PseudoTypeOK
  <1>7. following \in Allocated
    BY <1>1, <1>2 DEF ListIsSound, LinksAreSound
  <1>8. untold # <<>> => following = untold[1] /\ following # old
    <2>1. SUFFICES ASSUME untold # <<>> PROVE following = untold[1] /\ following # old
      OBVIOUS
    <2>2. Len(untold) >= 1 /\ 1 \in 1 .. Len(Kept) - 1 /\ 1 + 1 \in 1..Len(Kept)
      BY <2>1, <1>3, <1>4
    <2>3. next[Kept[1]] = Kept[1 + 1]
      BY <2>2, <1>1 DEF ListIsSound, LinksAreSound
    <2>4. Kept[1 + 1] = untold[1] /\ Kept[1 + 1] # Kept[1]
      BY <2>2, <1>1, <1>3 DEF ListIsSound, KeptIsSound
    <2>5. QED
      BY <2>3, <2>4, <1>5
  <1>9. headers[following].type # "kFree" => untold # <<>>
    <2>1. SUFFICES ASSUME untold = <<>> PROVE headers[following].type = "kFree"
      OBVIOUS
    <2>2. CASE following = old
      BY <2>2, <1>6 DEF Empty
    <2>3. CASE following # old
      <3>1. \A i \in 1..Len(Kept) : i = 1
        BY <2>1, <1>3
      <3>2. IsFree(following)
        BY <2>3, <3>1, <1>1, <1>5, <1>7 DEF ListIsSound, KeptIsSound
      <3>3. QED
        BY <2>3, <3>2, <1>2, <1>6, <1>7 DEF IsFree
    <2>4. QED
      BY <2>2, <2>3
  <1>10. untold # <<>> => headers[following].type # "kFree"
    <2>1. SUFFICES ASSUME untold # <<>> PROVE headers[following].type # "kFree"
      OBVIOUS
    <2>2. 2 \in 1..Len(Kept) /\ Kept[2] = following /\ following # old
      <3>1. Len(untold) >= 1 /\ 1 \in 1..Len(untold)
        BY <2>1, <1>4
      <3>2. Kept[1 + 1] = untold[1]
        BY <3>1, <1>3
      <3>3. QED
        BY <2>1, <3>1, <3>2, <1>3, <1>8
    <2>3. ~IsFree(following)
      BY <2>2, <1>1 DEF ListIsSound, KeptIsSound
    <2>4. QED
      BY <2>2, <2>3, <1>2, <1>6, <1>7 DEF IsFree
  <1>11. IF untold # <<>>
         THEN sendPacketNotification(headers, following, NoHeader, untold)
         ELSE told' = NoHeader /\ untold' = untold
    BY <1>9, <1>10 DEF clientCommandIsComplete
  <1>12. Calls >= 3
    <2>1. Calls \in Int
      BY <1>1, Assumptions DEF PseudoTypeOK, Calls, HeadersAssumption
    <2>2. QED
      BY <1>1, <2>1 DEF SwitchesAreTrue
  <1> HIDE DEF headers, following, old
  <1>13. CASE untold = <<>>
    <2>1. told' = NoHeader /\ untold' = <<>>
      BY <1>11, <1>13
    <2>2. Kept' = untold
      BY <1>13, <2>1 DEF Kept
    <2>3. QED
      BY <1>1, <1>2, <1>3, <1>4, <1>5, <1>12, <2>1, <2>2 DEF old
  <1>14. CASE untold # <<>>
    <2>1. /\ following = untold[1]
          /\ sendPacketNotification(headers, following, NoHeader, untold)
      BY <1>8, <1>11, <1>14
    <2>2. CASE AsyncRef(headers[following].type) \in refs
      <3>1. \A i \in 1..Len(untold) : untold[i] = untold[1] => i = 1
        <4>1. \A i \in 1..Len(untold) : i + 1 \in 1..Len(Kept) /\ Kept[i + 1] = untold[i]
          BY <1>3, <1>4
        <4>2. \A i \in 1..Len(untold) : untold[i] = untold[1] => i + 1 = 1 + 1
          <5>1. 1 \in 1..Len(untold)
            BY <1>4, <1>14
          <5>2. QED
            BY <4>1, <5>1, <1>1 DEF ListIsSound, KeptIsSound
        <4>3. QED
          BY <4>2, <1>4
      <3>2. Without(untold, following) = Tail(untold)
        BY <2>1, <3>1, <1>4, <1>14, WithoutFirst
      <3>3. told' = following /\ untold' = Tail(untold)
        BY <2>1, <2>2, <3>2 DEF sendPacketNotification
      <3>4. told' # NoHeader
        BY <3>3, <1>2, <1>7
      <3>5. <<untold[1]>> \o Tail(untold) = untold
        BY <1>4, <1>14
      <3>6. Kept' = untold
        BY <2>1, <3>3, <3>4, <3>5 DEF Kept
      <3>7. Tail(untold) \in Seq(Allocated)
        BY <1>2, <1>14
      <3>8. QED
        BY <1>1, <1>2, <1>3, <1>4, <1>5, <1>7, <1>12, <3>3, <3>4, <3>6, <3>7 DEF old
    <2>3. CASE AsyncRef(headers[following].type) \notin refs
      <3>1. told' = NoHeader /\ untold' = untold
        BY <2>1, <2>3 DEF sendPacketNotification
      <3>2. Kept' = untold
        BY <3>1 DEF Kept
      <3>3. Calls # 3
        <4>1. AsyncRef(headers[following].type) \in AllRefs
          BY DEF AsyncRef, AllRefs
        <4>2. Calls = 3 => refs = AllRefs
          BY <1>1 DEF SwitchesAreTrue, RefsAfter
        <4>3. QED
          BY <2>3, <4>1, <4>2
      <3>4. QED
        BY <1>1, <1>2, <1>3, <1>4, <1>5, <1>12, <3>1, <3>2, <3>3 DEF old
    <2>4. QED
      BY <2>2, <2>3
  <1>15. QED
    BY <1>13, <1>14
LEMMA clientCommandIsCompleteKeeps ==
    ASSUME PseudoInv, clientCommandIsComplete
    PROVE  PseudoInv'
  <1> DEFINE old == fLastReadHeader
             n == Len(untold)
  <1>1. /\ active /\ PseudoTypeOK /\ ListIsSound /\ SwitchesAreTrue
        /\ Kept \in Seq(Headers) /\ untold \in Seq(Headers)
        /\ Len(Kept) = n + 1 /\ Kept[1] = old
        /\ \A i \in 1..n : Kept[i + 1] = untold[i]
        /\ Kept' = untold
        /\ Calls >= 3
        /\ Calls = 3 /\ told' = NoHeader => untold' = <<>>
        /\ told' \in Allocated \cup {NoHeader} /\ untold' \in Seq(Allocated)
    BY FirstIsAcknowledged
  <1>2. /\ hdr' = [hdr EXCEPT ![old] = Empty("kFree")]
        /\ fLastReadHeader' = next[old]
        /\ fPacketQueue' = IF hdr[old].type \in DataTypes
                           THEN Dequeued(fPacketQueue, hdr[old].size)
                           ELSE fPacketQueue
        /\ UNCHANGED <<next, fLastWrittenHeader, refs, switches>>
    BY DEF clientCommandIsComplete
  <1>3. n \in Nat /\ old \in Allocated /\ Allocated \subseteq Headers /\ NoHeader \notin Headers
    BY <1>1, Assumptions DEF PseudoTypeOK, HeadersAssumption, Allocated, active
  <1>4. hdr'[old] = Empty("kFree") /\ \A g \in Headers \ {old} : hdr'[g] = hdr[g]
    BY <1>1, <1>2, <1>3 DEF PseudoTypeOK
  <1>5. Allocated' = Allocated
    BY <1>3, <1>4 DEF Allocated, Empty
  <1>6. /\ next[old] \in Allocated
        /\ n > 0 => next[old] = untold[1]
        /\ n > 0 => untold[n] = fLastWrittenHeader
        /\ n = 0 => old = fLastWrittenHeader
        /\ \A i \in 1 .. n - 1 : next[untold[i]] = untold[i + 1]
        /\ \A g \in Allocated : next[g] \in Allocated
        /\ Circle(Allocated, next)
    <2>1. LinksAreSound
      BY <1>1 DEF ListIsSound
    <2>2. /\ \A i \in 1..n : next[Kept[i]] = Kept[i + 1]
          /\ Kept[n + 1] = fLastWrittenHeader
      BY <2>1, <1>1, <1>3 DEF LinksAreSound
    <2>3. n > 0 => next[old] = untold[1] /\ untold[n] = fLastWrittenHeader
      <3>1. n > 0 => 1 \in 1..n /\ n \in 1..n
        BY <1>3
      <3>2. QED
        BY <2>2, <3>1, <1>1
    <2>4. ASSUME NEW i \in 1 .. n - 1 PROVE next[untold[i]] = untold[i + 1]
      <3>1. i \in 1..n /\ i + 1 \in 1..n
        BY <1>3
      <3>2. QED
        BY <2>2, <3>1, <1>1
    <2>5. QED
      BY <2>1, <2>2, <2>3, <2>4, <1>1, <1>3 DEF LinksAreSound
  <1> HIDE DEF old, n
  <1>7. \A i \in 1..n : untold[i] \in Allocated /\ untold[i] # old /\ ~IsFree(untold[i])
    <2> SUFFICES ASSUME NEW i \in 1..n
                 PROVE  untold[i] \in Allocated /\ untold[i] # old /\ ~IsFree(untold[i])
      OBVIOUS
    <2>1. 1 \in 1..Len(Kept) /\ i + 1 \in 1..Len(Kept) /\ i + 1 # 1
      BY <1>1, <1>3
    <2>2. QED
      BY <2>1, <1>1 DEF ListIsSound, KeptIsSound
  <1>8. KeptIsSound'
    <2>1. \A i \in 1..n : untold[i] \in Allocated /\ hdr'[untold[i]].type # "kFree"
      BY <1>3, <1>4, <1>7 DEF IsFree
    <2>2. \A i, j \in 1..n : untold[i] = untold[j] => i = j
      <3>1. \A i \in 1..n : i + 1 \in 1..Len(Kept) /\ Kept[i + 1] = untold[i]
        BY <1>1, <1>3
      <3>2. \A i, j \in 1..n : untold[i] = untold[j] => i + 1 = j + 1
        BY <3>1, <1>1 DEF ListIsSound, KeptIsSound
      <3>3. QED
        BY <3>2, <1>3
    <2>3. ASSUME NEW g \in Allocated, hdr'[g].type # "kFree"
          PROVE  \E i \in 1..n : untold[i] = g
      <3>1. g # old /\ ~IsFree(g)
        BY <2>3, <1>3, <1>4 DEF IsFree, Empty
      <3>2. PICK i \in 1..Len(Kept) : Kept[i] = g
        BY <3>1, <1>1 DEF ListIsSound, KeptIsSound
      <3>3. i - 1 \in 1..n /\ (i - 1) + 1 = i
        BY <3>1, <3>2, <1>1, <1>3
      <3>4. QED
        BY <3>2, <3>3, <1>1
    <2>4. QED
      BY <2>1, <2>2, <2>3, <1>1, <1>5 DEF KeptIsSound, IsFree, n
  <1>9. LinksAreSound'
    BY <1>1, <1>2, <1>3, <1>5, <1>6 DEF LinksAreSound, n
  <1>10. /\ fPacketQueue' \in Queues
         /\ Laid(Records', n, fPacketQueue')
    <2> DEFINE e == Records
               f == Records'
               m == n + 1
    <2>1. /\ e = [i \in 1..m |-> hdr[Kept[i]]] /\ f = [i \in 1..n |-> hdr'[untold[i]]]
          /\ m \in Nat \ {0} /\ m - 1 = n
      BY <1>1, <1>3 DEF Records, n
    <2>2. \A i \in 1..m : Kept[i] \in Headers
      BY <1>1, <1>3 DEF n
    <2>3. \A g \in Headers : hdr[g] \in HeaderRecords /\ hdr'[g] \in HeaderRecords
      BY <1>1, <1>2, <1>3, <1>4, TypesAreOther DEF PseudoTypeOK
    <2>4. e \in Layouts(m) /\ f \in Layouts(m - 1)
      BY <2>1, <2>2, <2>3, <1>3, <1>7 DEF Layouts
    <2>5. \A i \in 1 .. m - 1 : f[i] = e[i + 1]
      <3> SUFFICES ASSUME NEW i \in 1..n PROVE f[i] = e[i + 1]
        BY <2>1
      <3>1. f[i] = hdr'[untold[i]] /\ e[i + 1] = hdr[Kept[i + 1]]
        BY <2>1
      <3>2. QED
        BY <3>1, <1>1, <1>3, <1>4, <1>7 DEF n
    <2>6. fPacketQueue \in Queues /\ Laid(e, m, fPacketQueue)
      BY <1>1 DEF ListIsSound, PseudoTypeOK, Queues
    <2>7. e[1] = hdr[old]
      BY <2>1, <1>1
    <2> HIDE DEF e, f, m
    <2>8. CASE hdr[old].type \in DataTypes
      <3>1. IsData(e, 1)
        BY <2>7, <2>8 DEF IsData
      <3>2. /\ Dequeued(fPacketQueue, e[1].size) \in Queues
            /\ Laid(f, m - 1, Dequeued(fPacketQueue, e[1].size))
        BY <2>1, <2>4, <2>5, <2>6, <3>1, LaidWhenDequeued
      <3>3. fPacketQueue' = Dequeued(fPacketQueue, e[1].size)
        BY <1>2, <2>7, <2>8
      <3>4. QED
        BY <3>2, <3>3, <2>1 DEF f
    <2>9. CASE hdr[old].type \notin DataTypes
      <3>1. ~IsData(e, 1)
        BY <2>7, <2>9 DEF IsData
      <3>2. Laid(f, m - 1, fPacketQueue)
        BY <2>1, <2>4, <2>5, <2>6, <3>1, LaidWhenOtherLeaves
      <3>3. fPacketQueue' = fPacketQueue
        BY <1>2, <2>9
      <3>4. QED
        BY <3>2, <3>3, <2>1, <2>6 DEF f
    <2>10. QED
      BY <2>8, <2>9
  <1>11. PseudoTypeOK'
    <2>1. hdr' \in [Headers -> HeaderRecords]
      BY <1>1, <1>2, TypesAreOther DEF PseudoTypeOK
    <2>2. fLastReadHeader' \in Allocated'
      BY <1>2, <1>5, <1>6
    <2>3. fPacketQueue' \in [front : 0..fBufferSize, length : 0..fBufferSize]
      BY <1>10 DEF Queues
    <2>4. told' \in Allocated' \cup {NoHeader} /\ untold' \in Seq(Allocated')
      BY <1>1, <1>5
    <2>5. QED
      BY <2>1, <2>2, <2>3, <2>4, <1>1, <1>2, <1>5 DEF PseudoTypeOK
  <1>12. SwitchesAreTrue'
    <2>1. Calls' = Calls /\ Calls \in Int
      BY <1>1, <1>2, Assumptions DEF Calls, PseudoTypeOK, HeadersAssumption
    <2>2. QED
      BY <2>1, <1>1, <1>2 DEF SwitchesAreTrue
  <1>13. active'
    BY <1>2, <1>3, <1>6 DEF active, Allocated
  <1>14. Laid(Records, Len(Kept), fPacketQueue)'
    <2>1. Laid(Records', Len(Kept'), fPacketQueue')
      BY <1>1, <1>10 DEF n
    <2>2. QED
      BY <2>1 DEF Laid, Inside, InTurn, Contiguous,
         LengthIsTrue, Follows, Place, End, NoneBetween, IsData
  <1>15. QED
    BY <1>8, <1>9, <1>11, <1>12, <1>13, <1>14 DEF PseudoInv, ListIsSound
LEMMA setAsyncRefKeeps ==
    ASSUME PseudoInv, NotifiedOnce, setAsyncRef
    PROVE  PseudoInv'
  <1>1. /\ UNCHANGED <<hdr, next, fLastWrittenHeader, fLastReadHeader, fPacketQueue,
                       told, untold>>
        /\ switches > 0 /\ switches' = switches - 1
        /\ PseudoTypeOK /\ SwitchesAreTrue
    BY DEF setAsyncRef, listVars, PseudoInv
  <1>2. Kept' = Kept
    BY <1>1 DEF Kept
  <1>3. Records' = Records /\ Allocated' = Allocated
    BY <1>1, <1>2 DEF Records, Allocated
  <1>4. Calls' = Calls + 1 /\ Calls \in 0..7 /\ switches' \in 0..MaxSwitches
    BY <1>1, Assumptions DEF Calls, PseudoTypeOK, HeadersAssumption, NotifiedOnce
  <1>5. refs' = CASE refs = {} -> {"packet"}
                 [] refs = {"packet"} -> {"packet", "skipped"}
                 [] refs = {"packet", "skipped"} -> AllRefs
                 [] refs = AllRefs -> {"skipped", "read"}
                 [] refs = {"skipped", "read"} -> {"read"}
                 [] OTHER -> {}
    BY DEF setAsyncRef
  <1>6. refs' = RefsAfter(Calls + 1) /\ refs' \subseteq AllRefs
    <2>1. refs = RefsAfter(Calls)
      BY <1>1 DEF SwitchesAreTrue
    <2>2. CASE Calls = 0
      BY <1>5, <2>1, <2>2 DEF RefsAfter, AllRefs
    <2>3. CASE Calls = 1
      BY <1>5, <2>1, <2>3 DEF RefsAfter, AllRefs
    <2>4. CASE Calls = 2
      BY <1>5, <2>1, <2>4 DEF RefsAfter, AllRefs
    <2>5. CASE Calls = 3
      BY <1>5, <2>1, <2>5 DEF RefsAfter, AllRefs
    <2>6. CASE Calls = 4
      BY <1>5, <2>1, <2>6 DEF RefsAfter, AllRefs
    <2>7. CASE Calls = 5
      BY <1>5, <2>1, <2>7 DEF RefsAfter, AllRefs
    <2>8. CASE Calls = 6
      BY <1>5, <2>1, <2>8 DEF RefsAfter, AllRefs
    <2>9. CASE Calls = 7
      BY <1>5, <2>1, <2>9 DEF RefsAfter, AllRefs
    <2>10. QED
      BY <1>4, <2>2, <2>3, <2>4, <2>5, <2>6, <2>7, <2>8, <2>9
  <1>7. SwitchesAreTrue'
    BY <1>1, <1>4, <1>6 DEF SwitchesAreTrue
  <1>8. PseudoTypeOK'
    BY <1>1, <1>3, <1>4, <1>6 DEF PseudoTypeOK
  <1>9. active => KeptIsSound' /\ LinksAreSound'
    BY <1>1, <1>2, <1>3 DEF PseudoInv, ListIsSound, KeptIsSound, LinksAreSound, IsFree
  <1>10. active => Laid(Records, Len(Kept), fPacketQueue)'
    <2>1. active => Laid(Records', Len(Kept'), fPacketQueue')
      BY <1>1, <1>2, <1>3 DEF PseudoInv, ListIsSound
    <2>2. QED
      BY <2>1 DEF Laid, Inside, InTurn, Contiguous,
         LengthIsTrue, Follows, Place, End, NoneBetween, IsData
  <1>11. QED
    BY <1>1, <1>7, <1>8, <1>9, <1>10 DEF PseudoInv, ListIsSound, active

LEMMA deactivateKeeps ==
    ASSUME PseudoInv, deactivate
    PROVE  PseudoInv'
  <1> DEFINE last == CHOOSE h \in Allocated : next[h] = fLastWrittenHeader
  <1>1. active /\ PseudoTypeOK /\ SwitchesAreTrue /\ ListIsSound
    BY DEF deactivate, PseudoInv
  <1>2. last \in Allocated
    <2>1. fLastWrittenHeader \in Allocated
      BY <1>1 DEF PseudoTypeOK
    <2>2. \E h \in Allocated : next[h] = fLastWrittenHeader
      BY <1>1, <2>1, CircleHasAll DEF ListIsSound, LinksAreSound
    <2>3. QED
      BY <2>2
  <1>3. /\ hdr' = [h \in Headers |-> IF h = last THEN hdr[h] ELSE Empty("none")]
        /\ fLastWrittenHeader' = last
        /\ next' = [h \in Headers |-> h]
        /\ fLastReadHeader' = NoHeader /\ told' = NoHeader /\ untold' = <<>>
        /\ UNCHANGED <<fPacketQueue, refs, switches>>
    BY DEF deactivate
  <1> HIDE DEF last
  <1>4. last \in Allocated'
    BY <1>2, <1>3 DEF Allocated
  <1>5. hdr' \in [Headers -> HeaderRecords]
    BY <1>1, <1>3, TypesAreOther DEF PseudoTypeOK
  <1>6. PseudoTypeOK'
    BY <1>1, <1>3, <1>4, <1>5 DEF PseudoTypeOK
  <1>7. SwitchesAreTrue'
    BY <1>1, <1>3 DEF SwitchesAreTrue, Calls
  <1>8. QED
    BY <1>3, <1>6, <1>7 DEF PseudoInv, active

LEMMA PseudoInitSound ==
    ASSUME PseudoInit
    PROVE  PseudoInv
  <1> DEFINE first == CHOOSE h \in Headers : TRUE
  <1>1. first \in Headers /\ NoHeader \notin Headers
    BY Assumptions DEF HeadersAssumption
  <1>2. /\ hdr = [h \in Headers |-> IF h = first THEN Empty("kFree") ELSE Empty("none")]
        /\ next = [h \in Headers |-> h]
        /\ fLastWrittenHeader = first /\ fLastReadHeader = first
        /\ fPacketQueue = EmptyQueue /\ refs = {} /\ told = NoHeader /\ untold = <<>>
        /\ switches = MaxSwitches
    BY DEF PseudoInit
  <1> HIDE DEF first
  <1>3. Allocated = {first} /\ IsFree(first)
    BY <1>1, <1>2 DEF Allocated, IsFree, Empty
  <1>4. Kept = <<>> /\ Len(Kept) = 0
    BY <1>2 DEF Kept
  <1>5. PseudoTypeOK
    <2>1. hdr \in [Headers -> HeaderRecords]
      BY <1>2, TypesAreOther
    <2>2. fPacketQueue \in [front : 0..fBufferSize, length : 0..fBufferSize]
      BY <1>2, Assumptions DEF EmptyQueue, BufferAssumption
    <2>3. switches \in 0..MaxSwitches
      BY <1>2, Assumptions DEF HeadersAssumption
    <2>4. QED
      BY <1>1, <1>2, <1>3, <2>1, <2>2, <2>3 DEF PseudoTypeOK
  <1>6. SwitchesAreTrue
    <2>1. Calls = 0
      BY <1>2, Assumptions DEF Calls, HeadersAssumption
    <2>2. QED
      BY <1>2, <2>1 DEF SwitchesAreTrue, RefsAfter
  <1>7. KeptIsSound
    BY <1>3, <1>4 DEF KeptIsSound
  <1>8. LinksAreSound
    BY <1>1, <1>2, <1>3, <1>4 DEF LinksAreSound, Circle
  <1>9. Laid(Records, Len(Kept), fPacketQueue)
    BY <1>2, <1>4 DEF Laid, Inside, InTurn, Contiguous, LengthIsTrue, EmptyQueue
  <1>10. QED
    BY <1>1, <1>2, <1>5, <1>6, <1>7, <1>8, <1>9 DEF PseudoInv, ListIsSound, active
-----------------------------------------------------------------------------
(* What the invariant means.                                               *)

LEMMA RecordsAreTrue ==
    ASSUME PseudoInv, active
    PROVE  LET n == Len(Kept)
           IN  /\ n \in Nat /\ DOMAIN Kept = 1..n
               /\ Records \in Layouts(n)
               /\ \A i \in 1..n : Records[i] = hdr[Kept[i]]
               /\ Stored = {i \in 1..n : IsData(Records, i)}
               /\ fPacketQueue \in Queues
               /\ Laid(Records, n, fPacketQueue)
  <1> DEFINE n == Len(Kept)
  <1>1. Kept \in Seq(Headers) /\ n \in Nat /\ DOMAIN Kept = 1..n
    BY KeptIsASequence DEF PseudoInv
  <1>2. Records = [i \in 1..n |-> hdr[Kept[i]]]
    BY DEF Records
  <1>3. \A i \in 1..n : Kept[i] \in Headers /\ hdr[Kept[i]] \in HeaderRecords
    BY <1>1 DEF PseudoInv, PseudoTypeOK
  <1>4. Stored = {i \in 1..n : IsData(Records, i)}
    BY <1>1, <1>2 DEF Stored, IsData
  <1>5. QED
    BY <1>1, <1>2, <1>3, <1>4 DEF PseudoInv, PseudoTypeOK, ListIsSound, Layouts, Queues

LEMMA ApartInRing ==
    ASSUME NEW a \in Nat, NEW x \in Nat, NEW b \in Nat, NEW y \in Nat,
           NEW front \in Nat, NEW size \in Nat,
           x >= 1, y >= 1, a + x <= size, b + y <= size,
           a >= front \/ a + x <= front, b >= front \/ b + y <= front,
           (IF a >= front THEN a ELSE a + size) + x <= IF b >= front THEN b ELSE b + size
    PROVE  a + x <= b \/ b + y <= a
  <1>1. CASE a >= front /\ b >= front
    BY <1>1
  <1>2. CASE a >= front /\ ~(b >= front)
    BY <1>2
  <1>3. CASE ~(a >= front) /\ b >= front
    BY <1>3
  <1>4. CASE ~(a >= front) /\ ~(b >= front)
    BY <1>4
  <1>5. QED
    BY <1>1, <1>2, <1>3, <1>4

LEMMA KeptApart ==
    ASSUME PseudoInv
    PROVE  StoredApart
  <1>1. CASE ~active
    <2>1. Kept = <<>>
      BY <1>1 DEF PseudoInv, Kept
    <2>2. Stored = {}
      BY <2>1 DEF Stored
    <2>3. QED
      BY <2>2 DEF StoredApart
  <1>2. CASE active
    <2> DEFINE n == Len(Kept)
               e == Records
               q == fPacketQueue
    <2>1. /\ n \in Nat /\ e \in Layouts(n)
          /\ \A i \in 1..n : e[i] = hdr[Kept[i]]
          /\ Stored = {i \in 1..n : IsData(e, i)}
          /\ q \in Queues /\ Laid(e, n, q)
      BY <1>2, RecordsAreTrue
    <2> HIDE DEF n, e, q
    <2>2. \A i \in Stored : /\ i \in 1..n /\ IsData(e, i)
                            /\ Bytes(Kept[i]) = e[i].offset .. End(e, i) - 1
                            /\ e[i].offset \in 0..fBufferSize /\ e[i].size \in 0..fBufferSize
      BY <2>1 DEF Bytes, End, Layouts, HeaderRecords
    <2>3. /\ fBufferSize \in Nat /\ q.front \in 0..fBufferSize
      BY <2>1, Assumptions DEF Queues, BufferAssumption
    <2>4. ASSUME NEW i \in Stored
          PROVE  Bytes(Kept[i]) \subseteq 0 .. fBufferSize - 1
      <3>1. End(e, i) <= fBufferSize /\ End(e, i) = e[i].offset + e[i].size
        BY <2>1, <2>2 DEF Laid, Inside, End
      <3>2. QED
        BY <3>1, <2>2, <2>3
    <2>5. ASSUME NEW i \in Stored, NEW j \in Stored, i < j
          PROVE  Bytes(Kept[i]) \cap Bytes(Kept[j]) = {}
      <3>1. Place(e, i, q) + e[i].size <= Place(e, j, q)
        BY <2>1, <2>2, <2>5 DEF Laid, InTurn
      <3>2. /\ e[i].offset >= q.front \/ End(e, i) <= q.front
            /\ e[j].offset >= q.front \/ End(e, j) <= q.front
            /\ End(e, i) <= fBufferSize /\ End(e, j) <= fBufferSize
            /\ e[i].size >= 1 /\ e[j].size >= 1
        BY <2>1, <2>2 DEF Laid, Inside
      <3>3. /\ e[i].offset \in Nat /\ e[i].size \in Nat
            /\ e[j].offset \in Nat /\ e[j].size \in Nat
            /\ q.front \in Nat /\ fBufferSize \in Nat
            /\ Bytes(Kept[i]) = e[i].offset .. End(e, i) - 1
            /\ Bytes(Kept[j]) = e[j].offset .. End(e, j) - 1
        BY <2>2, <2>3
      <3>4. End(e, i) = e[i].offset + e[i].size /\ End(e, j) = e[j].offset + e[j].size
        BY DEF End
      <3>5. /\ Place(e, i, q) = IF e[i].offset >= q.front THEN e[i].offset
                                                         ELSE e[i].offset + fBufferSize
            /\ Place(e, j, q) = IF e[j].offset >= q.front THEN e[j].offset
                                                         ELSE e[j].offset + fBufferSize
        BY DEF Place
      <3>6. End(e, i) <= e[j].offset \/ End(e, j) <= e[i].offset
        <4> DEFINE a == e[i].offset
                   x == e[i].size
                   b == e[j].offset
                   y == e[j].size
                   front == q.front
        <4>1. /\ a \in Nat /\ x \in Nat /\ b \in Nat /\ y \in Nat
              /\ front \in Nat /\ fBufferSize \in Nat
          BY <3>3
        <4>2. /\ x >= 1 /\ y >= 1 /\ a + x <= fBufferSize /\ b + y <= fBufferSize
              /\ a >= front \/ a + x <= front
              /\ b >= front \/ b + y <= front
          BY <3>2, <3>4
        <4>3. (IF a >= front THEN a ELSE a + fBufferSize) + x
                  <= IF b >= front THEN b ELSE b + fBufferSize
          BY <3>1, <3>5
        <4>4. End(e, i) = a + x /\ End(e, j) = b + y
          BY <3>4
        <4> HIDE DEF a, x, b, y, front
        <4>5. a + x <= b \/ b + y <= a
          BY <4>1, <4>2, <4>3, ApartInRing
        <4>6. QED
          BY <4>4, <4>5 DEF a, b
      <3>7. QED
        BY <3>3, <3>4, <3>6
    <2>6. QED
      <3>1. \A i, j \in Stored : i # j => i < j \/ j < i
        BY <2>2
      <3>2. \A i, j \in Stored : i # j => Bytes(Kept[i]) \cap Bytes(Kept[j]) = {}
        BY <3>1, <2>5
      <3>3. QED
        BY <2>4, <3>2 DEF StoredApart
  <1>3. QED
    BY <1>1, <1>2

LEMMA InvIsEnough ==
    ASSUME PseudoInv
    PROVE  QueuedPacketsAreKept
  <1>1. PacketsAreTold
    <2>1. CASE ~active
      BY <2>1 DEF PseudoInv, PacketsAreTold
    <2>2. CASE active
      <3>1. PseudoTypeOK /\ KeptIsSound /\ untold \in Seq(Headers)
        BY <2>2 DEF PseudoInv, ListIsSound, PseudoTypeOK, Allocated
      <3>2. CASE told = NoHeader
        BY <3>1, <3>2 DEF PacketsAreTold, Kept, KeptIsSound
      <3>3. CASE told # NoHeader
        <4>1. Kept = <<told>> \o untold /\ told \in Headers
          BY <3>1, <3>3 DEF Kept, PseudoTypeOK, Allocated
        <4>2. \A i \in 1..Len(untold) : i + 1 \in 1..Len(Kept) /\ Kept[i + 1] = untold[i]
          BY <3>1, <4>1
        <4>3. QED
          BY <3>1, <4>2 DEF PacketsAreTold, KeptIsSound
      <3>4. QED
        BY <3>2, <3>3
    <2>3. QED
      BY <2>1, <2>2
  <1>2. FrontIsOldest
    <2> SUFFICES ASSUME active
                 PROVE  /\ Stored = {} => fPacketQueue.length = 0
                        /\ \A i \in Stored : (\A j \in Stored : i <= j) =>
                              FrontEntryOffset(fPacketQueue, hdr[Kept[i]].size)
                                  = hdr[Kept[i]].offset
      BY DEF FrontIsOldest
    <2> DEFINE n == Len(Kept)
               e == Records
    <2>1. /\ n \in Nat /\ e \in Layouts(n)
          /\ \A i \in 1..n : e[i] = hdr[Kept[i]]
          /\ Stored = {i \in 1..n : IsData(e, i)}
          /\ fPacketQueue \in Queues /\ Laid(e, n, fPacketQueue)
      BY RecordsAreTrue
    <2> HIDE DEF n, e
    <2>2. Stored = {} => fPacketQueue.length = 0
      BY <2>1 DEF Laid, LengthIsTrue
    <2>3. ASSUME NEW i \in Stored, \A j \in Stored : i <= j
          PROVE  FrontEntryOffset(fPacketQueue, e[i].size) = e[i].offset
      <3>1. i \in 1..n /\ IsData(e, i)
        BY <2>1
      <3>2. NoneBetween(e, 0, i)
        BY <2>1, <2>3, <3>1 DEF NoneBetween
      <3>3. QED
        BY <2>1, <3>1, <3>2, FrontIsFirst
    <2>4. QED
      BY <2>1, <2>2, <2>3
  <1>3. OneCircle
    BY DEF OneCircle, PseudoInv, ListIsSound, LinksAreSound, Circle
  <1>4. QED
    BY <1>1, <1>2, <1>3, KeptApart DEF QueuedPacketsAreKept, PseudoInv

LEMMA NextKeeps ==
    ASSUME PseudoInv, NotifiedOnce, PacketsAreSmall, [PseudoNext]_pseudoVars
    PROVE  PseudoInv'
  <1>1. CASE \E size \in Sizes : \E tag \in DataTypes : doPacket(tag, size)
    BY <1>1, doPacketKeeps
  <1>2. CASE doPacket("kReadPacket", 0)
    BY <1>2, doPacketKeeps
  <1>3. CASE clientCommandIsComplete
    BY <1>3, clientCommandIsCompleteKeeps
  <1>4. CASE setAsyncRef
    BY <1>4, setAsyncRefKeeps
  <1>5. CASE deactivate
    BY <1>5, deactivateKeeps
  <1>6. CASE UNCHANGED pseudoVars
    BY <1>6, StutteringKeeps
  <1>7. QED
    BY <1>1, <1>2, <1>3, <1>4, <1>5, <1>6 DEF PseudoNext

(* Whatever the size of the buffer and the sizes of packets of at most     *)
(* half of it, and however packets and acknowledgements come: no packet is *)
(* stored over another that is kept, the queue finds its oldest one though *)
(* it does not record its padding, no header is freed before its packet    *)
(* was told, and none is lost to the list                                  *)
(* (IOFWUserPseudoAddressSpace.cpp, IOFWRingBufferQ.cpp).                  *)
THEOREM PacketsKept ==
    NotifiedOnce /\ PacketsAreSmall => (PseudoSpec => []QueuedPacketsAreKept)
  <1> SUFFICES ASSUME NotifiedOnce, PacketsAreSmall
               PROVE  PseudoSpec => []QueuedPacketsAreKept
    OBVIOUS
  <1>1. PseudoInit => PseudoInv
    BY PseudoInitSound
  <1>2. PseudoInv /\ [PseudoNext]_pseudoVars => PseudoInv'
    BY NextKeeps
  <1>3. PseudoInv => QueuedPacketsAreKept
    BY InvIsEnough
  <1>4. QED
    BY <1>1, <1>2, <1>3, PTL DEF PseudoSpec
-----------------------------------------------------------------------------
(* The packets in the list make a PacketQueue.                             *)

(* Notification, once it is all on, stays on.                              *)
StaysOn == ~EarlyPackets /\ MaxSwitches <= 3

LEMMA FunctionIsSeq ==
    ASSUME NEW n \in Nat, NEW S, NEW f, f = [i \in 1..n |-> f[i]],
           \A i \in 1..n : f[i] \in S
    PROVE  f \in Seq(S) /\ Len(f) = n
  <1>1. f \in [1..n -> S]
    OBVIOUS
  <1>2. QED
    BY <1>1

LEMMA MappedTypes ==
    ASSUME PseudoInv
    PROVE  /\ untold \in Seq(Headers) /\ Len(untold) \in Nat /\ DOMAIN untold = 1..Len(untold)
           /\ WaitingPackets \in Seq([type : PacketTypes \cup {"kFree", "none"}, size : 0..fBufferSize])
           /\ Len(WaitingPackets) = Len(untold)
           /\ \A i \in 1..Len(untold) :
                 /\ WaitingPackets[i] = Contents(untold[i])
                 /\ WaitingPackets[i] \in [type : PacketTypes \cup {"kFree", "none"},
                                    size : 0..fBufferSize]
           /\ WaitingPackets = <<>> <=> untold = <<>>
           /\ told # NoHeader => ToldPacket = Contents(told) /\ ToldPacket # NoHeader
           /\ told = NoHeader <=> ToldPacket = NoHeader
  <1> DEFINE S == [type : PacketTypes \cup {"kFree", "none"}, size : 0..fBufferSize]
  <1>1. untold \in Seq(Headers) /\ Len(untold) \in Nat /\ DOMAIN untold = 1..Len(untold)
    BY DEF PseudoInv, PseudoTypeOK, Allocated
  <1>2. \A h \in Headers : hdr[h] \in HeaderRecords /\ Contents(h) \in S
    BY DEF PseudoInv, PseudoTypeOK, HeaderRecords, Contents
  <1>3. \A i \in 1..Len(untold) : Contents(untold[i]) \in S
    BY <1>1, <1>2
  <1>4. WaitingPackets = [i \in 1..Len(untold) |-> Contents(untold[i])]
    BY <1>1 DEF WaitingPackets
  <1>5. WaitingPackets \in Seq(S) /\ Len(WaitingPackets) = Len(untold)
    BY <1>1, <1>3, <1>4
  <1>6. told # NoHeader => Contents(told) # NoHeader
    <2> SUFFICES ASSUME told # NoHeader PROVE Contents(told) \in Packets
      BY Assumptions DEF HeadersAssumption
    <2>1. active /\ PseudoTypeOK /\ told \in Headers
      BY DEF PseudoInv, PseudoTypeOK, Allocated
    <2>2. Len(Kept) \in Nat /\ Len(Kept) >= 1 /\ Kept[1] = told
      BY <1>1, <2>1 DEF Kept
    <2>3. hdr[told].type # "kFree" /\ hdr[told].type # "none"
      BY <2>1, <2>2 DEF PseudoInv, ListIsSound, KeptIsSound, IsFree, Allocated
    <2>4. hdr[told] \in HeaderRecords
      BY <2>1 DEF PseudoTypeOK
    <2>5. QED
      BY <2>3, <2>4 DEF HeaderRecords, Contents, Packets
  <1>7. WaitingPackets = <<>> <=> untold = <<>>
    BY <1>1, <1>5
  <1>8. QED
    BY <1>1, <1>3, <1>4, <1>5, <1>6, <1>7 DEF ToldPacket

PacketOf(r) == [type |-> r.type, size |-> r.size]

LEMMA WaitingGrows ==
    ASSUME PseudoInv, NEW h \in Headers, untold' = Append(untold, h),
           \A i \in 1..Len(untold) : hdr'[untold[i]] = hdr[untold[i]],
           PacketOf(hdr'[h]) \in Packets
    PROVE  WaitingPackets' = Append(WaitingPackets, PacketOf(hdr'[h]))
  <1> DEFINE n == Len(untold)
             S == [type : PacketTypes \cup {"kFree", "none"}, size : 0..fBufferSize]
             p == PacketOf(hdr'[h])
  <1>1. /\ untold \in Seq(Headers) /\ n \in Nat
        /\ WaitingPackets \in Seq(S) /\ Len(WaitingPackets) = n
        /\ \A i \in 1..n : WaitingPackets[i] = Contents(untold[i]) /\ WaitingPackets[i] \in S
    BY MappedTypes
  <1>2. /\ DOMAIN untold' = 1 .. n + 1
        /\ untold'[n + 1] = h /\ \A i \in 1..n : untold'[i] = untold[i]
    BY <1>1
  <1>3. WaitingPackets' = [i \in 1 .. n + 1 |-> PacketOf(hdr'[untold'[i]])]
    BY <1>2 DEF WaitingPackets, Contents, PacketOf
  <1>4. /\ \A i \in 1..n : PacketOf(hdr'[untold'[i]]) = WaitingPackets[i] /\ WaitingPackets[i] \in S
        /\ PacketOf(hdr'[untold'[n + 1]]) = p
        /\ p \in S
    <2>1. \A i \in 1..n : PacketOf(hdr'[untold'[i]]) = WaitingPackets[i]
      BY <1>1, <1>2 DEF Contents, PacketOf
    <2>2. \A i \in 1..n : WaitingPackets[i] \in S
      BY <1>1
    <2>3. p \in S
      BY DEF Packets
    <2>4. QED
      BY <2>1, <2>2, <2>3, <1>2
  <1> HIDE DEF n, S, p
  <1>5. WaitingPackets' \in Seq(S) /\ Len(WaitingPackets') = n + 1
    <2>1. \A i \in 1 .. n + 1 : i \in 1..n \/ i = n + 1
      BY <1>1
    <2>2. \A i \in 1 .. n + 1 : PacketOf(hdr'[untold'[i]]) \in S
      BY <2>1, <1>4
    <2>3. n + 1 \in Nat
      BY <1>1
    <2>4. /\ \A i \in 1 .. n + 1 : WaitingPackets'[i] \in S
          /\ WaitingPackets' = [i \in 1 .. n + 1 |-> WaitingPackets'[i]]
      BY <1>3, <2>2
    <2>5. QED
      BY <2>3, <2>4, FunctionIsSeq
  <1>6. /\ Append(WaitingPackets, p) \in Seq(S) /\ Len(Append(WaitingPackets, p)) = n + 1
        /\ \A i \in 1..n : Append(WaitingPackets, p)[i] = WaitingPackets[i]
        /\ Append(WaitingPackets, p)[n + 1] = p
    BY <1>1, <1>4
  <1>7. \A i \in 1 .. n + 1 : WaitingPackets'[i] = Append(WaitingPackets, p)[i]
    <2>1. \A i \in 1 .. n + 1 : i \in 1..n \/ i = n + 1
      BY <1>1
    <2>2. \A i \in 1 .. n + 1 : WaitingPackets'[i] = PacketOf(hdr'[untold'[i]])
      BY <1>3
    <2>3. QED
      BY <2>1, <2>2, <1>4, <1>6
  <1>8. WaitingPackets' = Append(WaitingPackets, p)
    BY <1>5, <1>6, <1>7, SeqEqual
  <1>9. QED
    BY <1>8 DEF p

LEMMA WaitingShrinks ==
    ASSUME PseudoInv, untold # <<>>, untold' = Tail(untold),
           \A i \in 1..Len(untold) : hdr'[untold[i]] = hdr[untold[i]]
    PROVE  WaitingPackets' = Tail(WaitingPackets) /\ Head(WaitingPackets) = PacketOf(hdr'[untold[1]])
  <1> DEFINE n == Len(untold)
             S == [type : PacketTypes \cup {"kFree", "none"}, size : 0..fBufferSize]
             left == n - 1
  <1>1. /\ untold \in Seq(Headers) /\ n \in Nat /\ n >= 1
        /\ WaitingPackets \in Seq(S) /\ Len(WaitingPackets) = n
        /\ \A i \in 1..n : WaitingPackets[i] = Contents(untold[i]) /\ WaitingPackets[i] \in S
    BY MappedTypes
  <1>2. left \in Nat /\ n = left + 1 /\ 1 \in 1..n
    BY <1>1
  <1>3. DOMAIN untold' = 1..left /\ \A i \in 1..left : untold'[i] = untold[i + 1]
    BY <1>1
  <1>4. WaitingPackets' = [i \in 1..left |-> PacketOf(hdr'[untold'[i]])]
    BY <1>3 DEF WaitingPackets, Contents, PacketOf
  <1>5. /\ Tail(WaitingPackets) \in Seq(S) /\ Len(Tail(WaitingPackets)) = left
        /\ \A i \in 1..left : Tail(WaitingPackets)[i] = WaitingPackets[i + 1]
        /\ Head(WaitingPackets) = WaitingPackets[1]
    BY <1>1
  <1> HIDE DEF n, S, left
  <1>6. \A i \in 1..left : PacketOf(hdr'[untold'[i]]) = Tail(WaitingPackets)[i]
    <2> SUFFICES ASSUME NEW i \in 1..left
                 PROVE  PacketOf(hdr'[untold'[i]]) = Tail(WaitingPackets)[i]
      OBVIOUS
    <2>1. i + 1 \in 1..n
      BY <1>2
    <2>2. untold'[i] = untold[i + 1] /\ Tail(WaitingPackets)[i] = Contents(untold[i + 1])
      BY <2>1, <1>1, <1>3, <1>5
    <2>3. hdr'[untold[i + 1]] = hdr[untold[i + 1]]
      BY <2>1 DEF n
    <2>4. QED
      BY <2>2, <2>3 DEF Contents, PacketOf
  <1>7. \A i \in 1..left : Tail(WaitingPackets)[i] \in S
    <2> SUFFICES ASSUME NEW i \in 1..left PROVE Tail(WaitingPackets)[i] \in S
      OBVIOUS
    <2>1. i + 1 \in 1..n
      BY <1>2
    <2>2. QED
      BY <2>1, <1>1, <1>5
  <1>8. WaitingPackets' \in Seq(S) /\ Len(WaitingPackets') = left
    <2>1. /\ \A i \in 1..left : WaitingPackets'[i] \in S
          /\ WaitingPackets' = [i \in 1..left |-> WaitingPackets'[i]]
      BY <1>4, <1>6, <1>7
    <2>2. QED
      BY <1>2, <2>1, FunctionIsSeq
  <1>9. WaitingPackets' = Tail(WaitingPackets)
    BY <1>4, <1>5, <1>6, <1>8, SeqEqual
  <1>10. QED
    BY <1>1, <1>2, <1>5, <1>9 DEF Contents, PacketOf, n
(* A packet that arrives, queued or skipped.                               *)
LEMMA WritesArrive ==
    ASSUME PseudoInv, NotifiedOnce, active, refs = AllRefs,
           NeedsNew => Allocated # Headers,
           NEW r \in HeaderRecords, r.type \in PacketTypes,
           NEW q \in Queues, Write(NextHeader, Links, r, q),
           UNCHANGED <<fLastReadHeader, refs, switches>>
    PROVE  Queue!Next
  <1> DEFINE h == NextHeader
             p == PacketOf(r)
  <1>1. /\ PseudoTypeOK /\ h \in Headers /\ NoHeader \notin Headers
        /\ \A i \in 1..Len(Kept) : Kept[i] # h
    BY HeaderIsFresh, Assumptions DEF PseudoInv, HeadersAssumption
  <1>2. /\ hdr' = [hdr EXCEPT ![h] = r]
        /\ sendPacketNotification([hdr EXCEPT ![h] = r], h, told, Append(untold, h))
    BY DEF Write
  <1> HIDE DEF h
  <1>3. hdr'[h] = r /\ \A g \in Headers \ {h} : hdr'[g] = hdr[g]
    <2>1. hdr \in [Headers -> HeaderRecords]
      BY <1>1 DEF PseudoTypeOK
    <2>2. QED
      BY <2>1, <1>1, <1>2
  <1>4. IF told = NoHeader THEN told' = h /\ untold = <<>> /\ untold' = <<>>
                           ELSE told' = told /\ untold' = Append(untold, h)
    <2>1. [hdr EXCEPT ![h] = r][h].type \in PacketTypes
      BY <1>2, <1>3
    <2>2. QED
      BY <2>1, <1>1, <1>2, QueuedIsTold
  <1>5. p \in Packets
    BY DEF PacketOf, HeaderRecords, Packets
  <1>6. active' /\ active
    BY DEF active
  <1>7. /\ untold \in Seq(Headers) /\ Len(untold) \in Nat /\ told \in Headers \cup {NoHeader}
        /\ told = NoHeader <=> ToldPacket = NoHeader
        /\ DOMAIN untold = 1..Len(untold)
    BY <1>1, MappedTypes DEF PseudoTypeOK, Allocated
  <1>8. CASE told = NoHeader
    <2>1. ToldPacket' = p
      BY <1>1, <1>3, <1>4, <1>8 DEF ToldPacket, Contents, PacketOf
    <2>2. WaitingPackets' = WaitingPackets
      <3>1. untold = <<>> /\ untold' = <<>>
        BY <1>4, <1>8
      <3>2. WaitingPackets = <<>> /\ WaitingPackets' = <<>>
        BY <3>1 DEF WaitingPackets
      <3>3. QED
        BY <3>2
    <2>3. Queue!Arrive(p)
      BY <2>1, <2>2, <1>6, <1>7, <1>8 DEF Queue!Arrive
    <2>4. QED
      BY <2>3, <1>5 DEF Queue!Next
  <1>9. CASE told # NoHeader
    <2>1. told' = told /\ untold' = Append(untold, h) /\ Kept = <<told>> \o untold
      BY <1>4, <1>9 DEF Kept
    <2>2. /\ told # h
          /\ \A i \in 1..Len(untold) : untold[i] # h
      <3>1. told = Kept[1] /\ 1 \in 1..Len(Kept)
        BY <2>1, <1>7
      <3>2. \A i \in 1..Len(untold) : untold[i] = Kept[i + 1] /\ i + 1 \in 1..Len(Kept)
        BY <2>1, <1>7, <1>9
      <3>3. QED
        BY <3>1, <3>2, <1>1
    <2>3. ToldPacket' = ToldPacket
      BY <2>1, <2>2, <1>3, <1>7, <1>9 DEF ToldPacket, Contents
    <2>4. \A i \in 1..Len(untold) : hdr'[untold[i]] = hdr[untold[i]]
      BY <2>2, <1>3, <1>7
    <2>5. WaitingPackets' = Append(WaitingPackets, PacketOf(hdr'[h]))
      BY <2>1, <2>4, <1>1, <1>3, <1>5, WaitingGrows
    <2>6. Queue!Arrive(p)
      BY <2>3, <2>5, <1>3, <1>6, <1>7, <1>9 DEF Queue!Arrive
    <2>7. QED
      BY <2>6, <1>5 DEF Queue!Next
  <1>10. QED
    BY <1>8, <1>9
LEMMA MappedStutters ==
    ASSUME UNCHANGED <<hdr, fLastReadHeader, told, untold>>
    PROVE  UNCHANGED (Queue!vars)
  BY DEF Queue!vars, WaitingPackets, ToldPacket, Contents, active

LEMMA doPacketArrives ==
    ASSUME PseudoInv, StaysOn, PacketsAreSmall,
           NEW tag, NEW size,
           \/ tag = "kReadPacket" /\ size = 0
           \/ tag \in DataTypes /\ size \in Sizes,
           doPacket(tag, size)
    PROVE  [Queue!Next]_(Queue!vars)
  <1>1. /\ active /\ refs = AllRefs /\ NotifiedOnce
        /\ NeedsNew => Allocated # Headers
        /\ UNCHANGED <<fLastReadHeader, refs, switches>>
    BY Assumptions DEF doPacket, StaysOn, NotifiedOnce, HeadersAssumption
  <1>2. fPacketQueue \in Queues /\ PseudoTypeOK /\ ListIsSound
    BY <1>1 DEF PseudoInv, PseudoTypeOK, Queues
  <1>3. CASE tag = "kReadPacket"
    <2> DEFINE r == Empty(tag)
    <2>1. Write(NextHeader, Links, r, fPacketQueue)
      BY <1>3 DEF doPacket, QueuePacket, DataTypes
    <2>2. r \in HeaderRecords /\ r.type \in PacketTypes
      BY <1>3, TypesAreOther DEF PacketTypes, Empty
    <2> HIDE DEF r
    <2>3. QED
      BY <1>1, <1>2, <2>1, <2>2, WritesArrive
  <1>4. CASE tag \in DataTypes /\ Fits(fPacketQueue, size)
    <2> DEFINE r == [type |-> tag, size |-> size,
                     offset |-> InsertOffset(fPacketQueue, size)]
               q == Enqueued(fPacketQueue, size)
    <2>1. tag # "kReadPacket" /\ size \in 1..fBufferSize
      BY <1>4, Assumptions DEF DataTypes, HeadersAssumption
    <2>2. Write(NextHeader, Links, r, q)
      BY <1>4, <2>1 DEF doPacket, QueuePacket
    <2>3. q \in Queues /\ InsertOffset(fPacketQueue, size) \in 0..fBufferSize
      BY <1>2, <1>4, <2>1, InsertIs
    <2>4. r \in HeaderRecords /\ r.type \in PacketTypes
      BY <1>4, <2>1, <2>3, Assumptions DEF HeaderRecords, PacketTypes, BufferAssumption
    <2> HIDE DEF r, q
    <2>5. QED
      BY <1>1, <2>2, <2>3, <2>4, WritesArrive
  <1>5. CASE tag \in DataTypes /\ ~Fits(fPacketQueue, size)
    <2>1. SkipPacket /\ size \in Sizes
      BY <1>5 DEF doPacket, DataTypes
    <2>2. Len(Kept) # 0 /\ Len(Kept) \in Nat
      <3>1. ASSUME Len(Kept) = 0 PROVE fPacketQueue.length = 0
        BY <1>2, <3>1 DEF ListIsSound, Laid, LengthIsTrue
      <3>2. QED
        BY <2>1, <3>1, <1>2, <1>5, SmallFitsInEmpty, KeptIsASequence
    <2>3. ~IsFree(fLastWrittenHeader)
      BY <1>2, <2>2 DEF ListIsSound, KeptIsSound, LinksAreSound
    <2>4. told # NoHeader
      <3>1. told = NoHeader => untold = <<>>
        BY <1>1, AllAreOn DEF PseudoInv
      <3>2. told = NoHeader => Kept = <<>>
        BY <3>1 DEF Kept
      <3>3. QED
        BY <2>2, <3>2
    <2>5. CASE hdr[fLastWrittenHeader].type = "kSkippedPacket"
      <3>1. /\ sendPacketNotification(hdr, fLastWrittenHeader, told, untold)
            /\ hdr' = hdr
        BY <2>1, <2>3, <2>5 DEF SkipPacket
      <3>2. told' = told /\ untold' = untold
        BY <2>4, <3>1 DEF sendPacketNotification
      <3>3. QED
        BY <1>1, <3>1, <3>2, MappedStutters
    <2>6. CASE hdr[fLastWrittenHeader].type # "kSkippedPacket"
      <3> DEFINE r == Empty("kSkippedPacket")
      <3>1. Write(NextHeader, Links, r, fPacketQueue)
        BY <2>1, <2>3, <2>6 DEF SkipPacket
      <3>2. r \in HeaderRecords /\ r.type \in PacketTypes
        BY TypesAreOther DEF PacketTypes, Empty
      <3> HIDE DEF r
      <3>3. QED
        BY <1>1, <1>2, <3>1, <3>2, WritesArrive
    <2>7. QED
      BY <2>5, <2>6
  <1>6. QED
    BY <1>3, <1>4, <1>5

LEMMA clientCommandIsCompleteAcknowledges ==
    ASSUME PseudoInv, StaysOn, clientCommandIsComplete
    PROVE  Queue!Next
  <1> DEFINE old == fLastReadHeader
  <1>1. /\ active /\ PseudoTypeOK /\ ListIsSound
        /\ Kept \in Seq(Headers) /\ untold \in Seq(Headers) /\ Len(untold) \in Nat
        /\ Len(Kept) = Len(untold) + 1 /\ Kept[1] = old
        /\ \A i \in 1..Len(untold) : Kept[i + 1] = untold[i]
        /\ Kept' = untold /\ Calls >= 3
        /\ Calls = 3 /\ told' = NoHeader => untold' = <<>>
        /\ told' \in Allocated \cup {NoHeader} /\ untold' \in Seq(Allocated)
    BY FirstIsAcknowledged
  <1>2. /\ hdr' = [hdr EXCEPT ![old] = Empty("kFree")]
        /\ fLastReadHeader' = next[old] /\ told # NoHeader
    BY DEF clientCommandIsComplete
  <1>3. Calls = 3
    BY <1>1, Assumptions DEF Calls, PseudoTypeOK, HeadersAssumption, StaysOn
  <1>4. old \in Headers /\ NoHeader \notin Headers /\ Allocated \subseteq Headers
    BY <1>1, Assumptions DEF PseudoTypeOK, HeadersAssumption, Allocated, active
  <1>5. \A g \in Headers \ {old} : hdr'[g] = hdr[g]
    BY <1>1, <1>2, <1>4 DEF PseudoTypeOK
  <1>6. \A i \in 1..Len(untold) : untold[i] \in Headers \ {old}
    <2> SUFFICES ASSUME NEW i \in 1..Len(untold) PROVE untold[i] \in Headers \ {old}
      OBVIOUS
    <2>1. 1 \in 1..Len(Kept) /\ i + 1 \in 1..Len(Kept) /\ i + 1 # 1
      BY <1>1
    <2>2. QED
      BY <2>1, <1>1 DEF ListIsSound, KeptIsSound
  <1>7. next[old] \in Headers /\ (active' <=> TRUE)
    <2>1. next[old] \in Headers
      BY <1>1, <1>4 DEF PseudoTypeOK
    <2>2. QED
      BY <2>1, <1>2, <1>4 DEF active
  <1>8. ToldPacket # NoHeader /\ (WaitingPackets = <<>> <=> untold = <<>>)
    BY <1>2, MappedTypes
  <1> HIDE DEF old
  <1>9. active' = active
    BY <1>1, <1>7 DEF active
  <1>10. CASE untold = <<>>
    <2>1. told' = NoHeader
      <3>1. told' # NoHeader => Kept' = <<told'>> \o untold'
        BY DEF Kept
      <3>2. told' # NoHeader => Len(<<told'>> \o untold') >= 1
        BY <1>1
      <3>3. QED
        BY <3>1, <3>2, <1>1, <1>10
    <2>2. untold' = <<>>
      BY <2>1, <1>1, <1>3
    <2>3. ToldPacket' = NoHeader /\ WaitingPackets' = <<>> /\ WaitingPackets = <<>>
      BY <2>1, <2>2, <1>10 DEF ToldPacket, WaitingPackets
    <2>4. Queue!Acknowledge
      BY <2>3, <1>8, <1>9 DEF Queue!Acknowledge
    <2>5. QED
      BY <2>4 DEF Queue!Next
  <1>11. CASE untold # <<>>
    <2>1. told' # NoHeader
      <3>1. told' = NoHeader => Kept' = <<>>
        BY <1>1, <1>3 DEF Kept
      <3>2. QED
        BY <3>1, <1>1, <1>11
    <2>2. untold = <<told'>> \o untold' /\ told' \in Headers /\ untold' \in Seq(Headers)
      BY <2>1, <1>1, <1>4 DEF Kept
    <2>3. told' = untold[1] /\ untold' = Tail(untold)
      BY <2>2
    <2>4. \A i \in 1..Len(untold) : hdr'[untold[i]] = hdr[untold[i]]
      BY <1>5, <1>6
    <2>5. /\ WaitingPackets' = Tail(WaitingPackets)
          /\ Head(WaitingPackets) = PacketOf(hdr'[untold[1]])
      BY <2>3, <2>4, <1>11, WaitingShrinks
    <2>6. ToldPacket' = Head(WaitingPackets)
      BY <2>1, <2>3, <2>5 DEF ToldPacket, Contents, PacketOf
    <2>7. Queue!Acknowledge
      BY <2>5, <2>6, <1>8, <1>9, <1>11 DEF Queue!Acknowledge
    <2>8. QED
      BY <2>7 DEF Queue!Next
  <1>12. QED
    BY <1>10, <1>11

LEMMA MappedSteps ==
    ASSUME PseudoInv, StaysOn, PacketsAreSmall, [PseudoNext]_pseudoVars
    PROVE  [Queue!Next]_(Queue!vars)
  <1>1. CASE \E size \in Sizes : \E tag \in DataTypes : doPacket(tag, size)
    BY <1>1, doPacketArrives
  <1>2. CASE doPacket("kReadPacket", 0)
    BY <1>2, doPacketArrives
  <1>3. CASE clientCommandIsComplete
    BY <1>3, clientCommandIsCompleteAcknowledges
  <1>4. CASE setAsyncRef
    BY <1>4, MappedStutters DEF setAsyncRef, listVars
  <1>5. CASE deactivate
    <2>1. /\ active /\ fLastReadHeader' = NoHeader /\ told' = NoHeader /\ untold' = <<>>
      BY <1>5 DEF deactivate
    <2>2. WaitingPackets' = <<>> /\ ToldPacket' = NoHeader
      BY <2>1 DEF WaitingPackets, ToldPacket
    <2>3. active' = FALSE
      BY <2>1 DEF active
    <2>4. Queue!Close
      BY <2>1, <2>2, <2>3 DEF Queue!Close
    <2>5. QED
      BY <2>4 DEF Queue!Next
  <1>6. CASE UNCHANGED pseudoVars
    BY <1>6, MappedStutters DEF pseudoVars, listVars
  <1>7. QED
    BY <1>1, <1>2, <1>3, <1>4, <1>5, <1>6 DEF PseudoNext

LEMMA MappedInit ==
    ASSUME PseudoInit
    PROVE  Queue!Init
  <1>1. fLastReadHeader \in Headers /\ told = NoHeader /\ untold = <<>>
    BY Assumptions DEF PseudoInit, HeadersAssumption
  <1>2. WaitingPackets = <<>> /\ ToldPacket = NoHeader
    BY <1>1 DEF WaitingPackets, ToldPacket
  <1>3. active = TRUE
    BY <1>1, Assumptions DEF active, HeadersAssumption
  <1>4. QED
    BY <1>2, <1>3 DEF Queue!Init

(* The circular list of headers, its links and the offsets in the ring     *)
(* buffer come to a first-in first-out queue: each packet that is accepted *)
(* is told once, in the order of arrival, one at a time                    *)
(* (doPacket, clientCommandIsComplete).  That each is told in the end is   *)
(* model-checked.                                                          *)
THEOREM PacketsInOrder ==
    StaysOn /\ PacketsAreSmall => (PseudoSpec => QueueSteps)
  <1> SUFFICES ASSUME StaysOn, PacketsAreSmall
               PROVE  PseudoSpec => QueueSteps
    OBVIOUS
  <1>1. NotifiedOnce
    BY Assumptions DEF StaysOn, NotifiedOnce, HeadersAssumption
  <1>2. PseudoInit => PseudoInv /\ Queue!Init
    BY PseudoInitSound, MappedInit
  <1>3. PseudoInv /\ [PseudoNext]_pseudoVars => PseudoInv'
    BY <1>1, NextKeeps
  <1>4. PseudoInv /\ [PseudoNext]_pseudoVars => [Queue!Next]_(Queue!vars)
    BY MappedSteps
  <1>5. QED
    BY <1>2, <1>3, <1>4, PTL DEF PseudoSpec, QueueSteps

-----------------------------------------------------------------------------
(***************************************************************************)
(* The isochronous channel of the kernel                                   *)
(***************************************************************************)

(* What the theorem asks for: no races, transactions that fail without a   *)
(* reset only before anything is claimed and in a reallocation, and a      *)
(* channel that the other nodes never want                                 *)
Undisturbed ==
    /\ Races = {}
    /\ FailingSteps \subseteq {"read", "bandwidth", "reallocBandwidth", "reallocChannel"}
    /\ \E c \in inAllowedChans : c \notin OthersWant.channels
FreeChannel == CHOOSE c \in inAllowedChans : c \notin OthersWant.channels

Beginning == {"delay", "read", "bandwidth", "channel", "giveBack", "finish"}
Releasing == {"releaseGeneration", "releaseBandwidth", "releaseChannel"}
Reallocating == {"reallocBandwidth", "reallocChannel", "reallocated"}
Locking == Beginning \cup Releasing \cup Reallocating

ClientLabels == {"none", "release", "ports"} \cup Releasing \cup Beginning
ThreadLabels == {"none", "release", "realloc"} \cup Releasing \cup Reallocating
LabelsOf(p) == IF p = Client THEN ClientLabels ELSE ThreadLabels

ChannelTypes ==
    /\ TypeOK
    /\ fAllocatedChannels \in BOOLEAN /\ scanDue \in BOOLEAN /\ allocated \in BOOLEAN
    /\ scanDue => fBusGeneration \in Threads
    /\ pc \in [Procs -> ClientLabels \cup ThreadLabels]
    /\ \A p \in Procs : pc[p] \in LabelsOf(p)
    /\ oldIRM \in Registers /\ allowed \subseteq Channels

(* Each channel is available, this node's or another one's; of those the   *)
(* others want more than one may hold after a mishap                       *)
ChannelsConserved ==
    /\ reg.channels \cap held.channels \subseteq OthersWant.channels
    /\ mishaps = {} => /\ reg.channels \cap held.channels = {}
                       /\ reg.channels \cap others.channels = {}
                       /\ held.channels \cap others.channels = {}
    /\ reg.channels \cup held.channels \cup others.channels = Channels
    /\ others.channels \subseteq OthersWant.channels

OneHasTheLock == \A p \in Procs : pc[p] \in Locking => fLock = p

(* This much is held, or no more after a mishap                            *)
HoldsIt(units, channels) ==
    /\ held.bandwidth <= units
    /\ held.channels \ OthersWant.channels \subseteq channels
    /\ mishaps = {} => held.bandwidth = units /\ held.channels = channels

ChannelSet == IF fChannel = NoChannel THEN {} ELSE {fChannel}
HoldsNothing == HoldsIt(0, {})
HoldsBelieved == HoldsIt(fBandwidth, ChannelSet)
BelievesNothing == fBandwidth = 0 /\ fChannel = NoChannel

(* What allocateChannelBegin has claimed so far                            *)
BeginHolds ==
    /\ pc[Client] = "delay" => retries # 0
    /\ pc[Client] \in {"delay", "read", "bandwidth"} => BelievesNothing /\ HoldsNothing
    /\ pc[Client] \in {"delay", "read", "bandwidth", "channel"} => result[Client] = "Success"
    /\ pc[Client] = "channel" =>
          /\ fBandwidth = bandwidth /\ fChannel = NoChannel
          /\ IF InGeneration(generation[Client]) THEN HoldsBelieved ELSE HoldsNothing
    /\ pc[Client] = "giveBack" =>
          /\ ~InGeneration(generation[Client]) /\ HoldsNothing
          /\ result[Client] = "BusReset"
    /\ pc[Client] = "finish" =>
          CASE result[Client] = "Success" -> InGeneration(generation[Client]) /\ HoldsBelieved
            [] result[Client] = "BusReset" -> HoldsNothing
            [] OTHER -> BelievesNothing /\ HoldsNothing
    /\ pc[Client] \in Beginning => ~fAllocatedChannels
    /\ pc[Client] = "none" /\ ~allocated => ~fAllocatedChannels

(* It finds the channel that nobody else wants, in the register as it was  *)
(* read                                                                    *)
ChannelIsThere ==
    /\ pc[Client] \in {"delay", "read", "bandwidth", "channel", "giveBack", "finish"} =>
          FreeChannel \in allowed
    /\ pc[Client] \in {"bandwidth", "channel"} =>
          /\ FreeChannel \in oldIRM.channels
          /\ InGeneration(generation[Client]) => oldIRM.channels = reg.channels

(* What is left to release                                                 *)
ReleaseHolds(p) ==
    /\ pc[p] \in Releasing => ~fAllocatedChannels
    /\ pc[p] = "releaseGeneration" =>
          /\ result[p] = "Success"
          /\ IF InGeneration(fGeneration) THEN HoldsBelieved ELSE HoldsNothing
    /\ pc[p] = "releaseBandwidth" =>
          /\ result[p] = "Success"
          /\ IF InGeneration(generation[p]) THEN HoldsBelieved ELSE HoldsNothing
    /\ pc[p] = "releaseChannel" =>
          IF InGeneration(generation[p]) /\ result[p] = "Success"
          THEN HoldsIt(0, ChannelSet) ELSE HoldsNothing

(* What is claimed again in the generation of the thread                   *)
ReallocHolds(p) ==
    /\ pc[p] = "realloc" => p = fBusGeneration
    /\ pc[p] # "none" => p <= fBusGeneration /\ (p = fBusGeneration => ~scanDue)
    /\ pc[p] \in {"realloc"} \cup Reallocating => generation[p] = p
    /\ pc[p] \in Reallocating =>
          /\ fGeneration <= p
          /\ ~fAllocatedChannels => BelievesNothing
          /\ IF InGeneration(p)
             THEN /\ result[p] # "BusReset"
                  /\ CASE pc[p] = "reallocBandwidth" /\ result[p] = "Success" -> HoldsNothing
                       [] pc[p] = "reallocChannel" /\ result[p] = "Success" ->
                            HoldsIt(fBandwidth, {})
                       [] OTHER -> HoldsBelieved
             ELSE HoldsNothing

(* Between the calls                                                       *)
FreeHolds ==
    (\A p \in Procs : pc[p] \notin Locking) =>
        /\ IF InGeneration(fGeneration) THEN HoldsBelieved ELSE HoldsNothing
        /\ ~fAllocatedChannels => BelievesNothing

(* A registered channel that a reset has left without resources is about   *)
(* to claim them again                                                     *)
ResetIsAnswered ==
    fAllocatedChannels /\ ~InGeneration(fGeneration) =>
        \/ scanDue
        \/ fBusGeneration \in Threads
              /\ pc[fBusGeneration] \in {"realloc"} \cup Reallocating

ChannelInv ==
    /\ ChannelTypes /\ ChannelsConserved /\ OneHasTheLock
    /\ BeginHolds /\ ChannelIsThere
    /\ \A p \in Procs : ReleaseHolds(p)
    /\ \A p \in Threads : ReallocHolds(p)
    /\ FreeHolds /\ ResetIsAnswered

-----------------------------------------------------------------------------
LEMMA ChannelConstants ==
    /\ Nothing \in Registers /\ All \in Registers
    /\ bandwidth \in Nat /\ Bandwidth \in Nat /\ MaxGeneration \in Nat \ {0}
    /\ OthersWant \in Registers /\ DelayRetries \in Nat \ {0}
    /\ inAllowedChans \subseteq Channels
    /\ NoChannel \notin Channels /\ NoChannel \notin Procs
    /\ Client \in Procs /\ Client \notin Threads /\ Threads \subseteq Procs
    /\ Procs = Threads \cup {Client} /\ Threads \subseteq Nat
BY IRMAssumption, IsochAssumption
   DEF IRMAssumption, IsochAssumption, Registers, Nothing, All, Procs, Threads,
       Client

LEMMA FreeChannelIsAllowed ==
    ASSUME Undisturbed
    PROVE  /\ FreeChannel \in inAllowedChans /\ FreeChannel \in Channels
           /\ FreeChannel \notin OthersWant.channels
BY ChannelConstants DEF Undisturbed, FreeChannel

(* A process that goes somewhere.                                          *)
LEMMA GoTo ==
    ASSUME ChannelTypes, NEW p \in Procs, NEW label \in LabelsOf(p),
           NEW status \in AllStatuses, Go(p, label, status)
    PROVE  /\ pc' \in [Procs -> ClientLabels \cup ThreadLabels]
           /\ \A q \in Procs : pc'[q] \in LabelsOf(q)
           /\ result' \in [Procs -> AllStatuses]
           /\ pc'[p] = label /\ result'[p] = status
           /\ \A q \in Procs \ {p} : pc'[q] = pc[q] /\ result'[q] = result[q]
<1>1. label \in ClientLabels \cup ThreadLabels
    BY DEF LabelsOf
<1>2. /\ pc \in [Procs -> ClientLabels \cup ThreadLabels]
      /\ result \in [Procs -> AllStatuses]
      /\ \A q \in Procs : pc[q] \in LabelsOf(q)
    BY DEF ChannelTypes, TypeOK
<1>3. pc' = [pc EXCEPT ![p] = label] /\ result' = [result EXCEPT ![p] = status]
    BY DEF Go
<1> QED
    BY <1>1, <1>2, <1>3

LEMMA GenerationTaken ==
    ASSUME ChannelTypes, NEW p \in Procs, GetGeneration(p), UNCHANGED fBusGeneration
    PROVE  /\ generation' \in [Procs -> 0..fBusGeneration']
           /\ generation'[p] = fBusGeneration
           /\ \A q \in Procs \ {p} : generation'[q] = generation[q]
BY DEF GetGeneration, ChannelTypes, TypeOK

(* A swap of each kind of register: what leaves it is held.                *)
LEMMA BandwidthSwapped ==
    ASSUME reg \in Registers, held \in Registers, NEW new \in Int,
           Swap("bandwidth", new)
    PROVE  /\ reg' \in Registers /\ held' \in Registers
           /\ reg'.bandwidth = new /\ reg'.channels = reg.channels
           /\ held'.bandwidth = held.bandwidth + reg.bandwidth - new
           /\ held'.channels = held.channels
           /\ UNCHANGED <<fBusGeneration, others, moves>>
BY DEF Swap, Balance, Registers

LEMMA ChannelsSwapped ==
    ASSUME reg \in Registers, held \in Registers, NEW new \in SUBSET Channels,
           Swap("channels", new)
    PROVE  /\ reg' \in Registers /\ held' \in Registers
           /\ reg'.channels = new /\ reg'.bandwidth = reg.bandwidth
           /\ held'.channels = (held.channels \cup (reg.channels \ new))
                                  \ (new \ reg.channels)
           /\ held'.bandwidth = held.bandwidth
           /\ UNCHANGED <<fBusGeneration, others, moves>>
<1>1. held' = [held EXCEPT !["channels"] =
                  (held.channels \cup (reg.channels \ new)) \ (new \ reg.channels)]
    BY DEF Swap, Balance, Registers
<1> QED
    BY <1>1 DEF Swap, Registers

-----------------------------------------------------------------------------
(* What a step of process p leaves alone.                                  *)
StepOf(p) ==
    /\ \A q \in Procs \ {p} : /\ pc[q] \notin Locking
                              /\ pc'[q] = pc[q] /\ result'[q] = result[q]
                              /\ generation'[q] = generation[q]
    /\ UNCHANGED <<fBusGeneration, scanDue>>
    /\ fLock' = p \/ (fLock' = NoChannel /\ pc'[p] \notin Locking)

LEMMA OthersWait ==
    ASSUME ChannelInv, NEW p \in Procs, pc[p] \in Locking \/ fLock = NoChannel
    PROVE  \A q \in Procs \ {p} : pc[q] \notin Locking
<1>1. OneHasTheLock /\ NoChannel \notin Procs
    BY ChannelConstants DEF ChannelInv
<1> QED
    BY <1>1 DEF OneHasTheLock

LEMMA OthersStay ==
    ASSUME ChannelInv, NEW p \in Procs, StepOf(p)
    PROVE  /\ OneHasTheLock'
           /\ \A q \in Procs \ {p} : ReleaseHolds(q)'
           /\ \A q \in Threads \ {p} : ReallocHolds(q)'
<1>1. OneHasTheLock'
    BY DEF StepOf, OneHasTheLock
<1>2. ASSUME NEW q \in Procs \ {p} PROVE ReleaseHolds(q)'
  <2>1. pc'[q] \notin Releasing
      BY DEF StepOf, Locking
  <2> QED
      BY <2>1 DEF ReleaseHolds, Releasing
<1>3. ASSUME NEW q \in Threads \ {p} PROVE ReallocHolds(q)'
  <2>1. q \in Procs \ {p}
      BY ChannelConstants
  <2>2. pc'[q] \notin Reallocating
      BY <2>1 DEF StepOf, Locking
  <2>3. ReallocHolds(q)
      BY DEF ChannelInv
  <2> QED
      BY <2>1, <2>2, <2>3 DEF ReallocHolds, StepOf
<1> QED
    BY <1>1, <1>2, <1>3

(* The client has nothing to find after a step that begins nothing.        *)
LEMMA ClientWaits ==
    ASSUME ChannelInv, NEW p \in Procs, StepOf(p), pc'[p] \notin Beginning,
           UNCHANGED <<allocated, oldIRM, allowed>>,
           p = Client => ~fAllocatedChannels',
           fAllocatedChannels' => fAllocatedChannels
    PROVE  BeginHolds' /\ ChannelIsThere'
<1>1. pc'[Client] \notin Beginning
      /\ (pc'[Client] = "none" /\ ~allocated => ~fAllocatedChannels')
  <2>1. CASE p = Client
      BY <2>1
  <2>2. CASE p # Client
    <3>1. pc'[Client] = pc[Client] /\ pc'[Client] \notin Beginning
        BY <2>2, ChannelConstants DEF StepOf, Locking
    <3>2. pc[Client] = "none" /\ ~allocated => ~fAllocatedChannels
        BY DEF ChannelInv, BeginHolds
    <3> QED
        BY <3>1, <3>2
  <2> QED
      BY <2>1, <2>2
<1> QED
    BY <1>1 DEF BeginHolds, ChannelIsThere, Beginning

(* Nor is the client's to the thread that answers a reset.                 *)
LEMMA AnswerStays ==
    ASSUME ChannelInv, StepOf(Client), UNCHANGED fGeneration,
           fAllocatedChannels' => fAllocatedChannels
    PROVE  ResetIsAnswered'
<1>1. ResetIsAnswered
    BY DEF ChannelInv
<1>2. ASSUME fBusGeneration \in Threads
      PROVE  pc'[fBusGeneration] = pc[fBusGeneration]
    BY <1>2, ChannelConstants DEF StepOf
<1> QED
    BY <1>1, <1>2 DEF ResetIsAnswered, StepOf, InGeneration

(* All of it, for a step of the client that keeps the lock: what is left   *)
(* to show.                                                                *)
LEMMA ClientStep ==
    ASSUME ChannelInv, StepOf(Client), UNCHANGED fGeneration,
           fAllocatedChannels' => fAllocatedChannels, pc'[Client] \in Locking,
           ChannelTypes', ChannelsConserved', BeginHolds', ChannelIsThere',
           ReleaseHolds(Client)'
    PROVE  ChannelInv'
<1>1. OneHasTheLock' /\ ResetIsAnswered'
    BY OthersStay, AnswerStays, ChannelConstants
<1>2. \A p \in Procs : ReleaseHolds(p)'
    BY OthersStay, ChannelConstants
<1>3. \A p \in Threads : ReallocHolds(p)'
    BY OthersStay, ChannelConstants
<1>4. FreeHolds'
    BY ChannelConstants DEF FreeHolds
<1> QED
    BY <1>1, <1>2, <1>3, <1>4 DEF ChannelInv

-----------------------------------------------------------------------------
(* allocateChannelBegin.                                                   *)

LEMMA allocateChannelKeeps ==
    ASSUME Undisturbed, ChannelInv, allocateChannel PROVE ChannelInv'
<1>1. /\ ChannelTypes /\ pc[Client] = "none" /\ ~allocated /\ ~fAllocatedChannels
      /\ fLock = NoChannel /\ fLock' = Client
    BY DEF ChannelInv, allocateChannel, Lock, BeginHolds
<1>2. Client \in Procs /\ "delay" \in LabelsOf(Client) /\ "Success" \in AllStatuses
    BY ChannelConstants DEF LabelsOf, ClientLabels, Beginning, AllStatuses
<1>3. /\ pc' \in [Procs -> ClientLabels \cup ThreadLabels]
      /\ \A q \in Procs : pc'[q] \in LabelsOf(q)
      /\ result' \in [Procs -> AllStatuses]
      /\ pc'[Client] = "delay" /\ result'[Client] = "Success"
      /\ \A q \in Procs \ {Client} : pc'[q] = pc[q] /\ result'[q] = result[q]
  <2>1. Go(Client, "delay", "Success")
      BY DEF allocateChannel
  <2> QED
      BY ONLY <1>1, <1>2, <2>1, GoTo
<1>4. /\ generation' \in [Procs -> 0..fBusGeneration']
      /\ \A q \in Procs \ {Client} : generation'[q] = generation[q]
  <2>1. GetGeneration(Client) /\ UNCHANGED fBusGeneration
      BY DEF allocateChannel, irmVars
  <2> QED
      BY ONLY <1>1, <1>2, <2>1, GenerationTaken
<1>5. /\ UNCHANGED <<fBusGeneration, reg, held, others, mishaps, scanDue, fAllocatedChannels,
                     fGeneration, fBandwidth, fChannel, oldIRM, allocated>>
      /\ allowed' = inAllowedChans /\ retries' = DelayRetries
    BY DEF allocateChannel, irmVars, chanVars, envVars
<1>6. \A q \in Procs \ {Client} : pc[q] \notin Locking
    BY <1>1, <1>2, OthersWait
<1>7. StepOf(Client)
    BY <1>1, <1>3, <1>4, <1>5, <1>6 DEF StepOf
<1>8. BelievesNothing /\ HoldsNothing
  <2>1. \A p \in Procs : pc[p] \notin Locking
      BY <1>1, <1>6 DEF Locking, Beginning, Releasing, Reallocating
  <2>2. BelievesNothing
      BY <1>1, <2>1 DEF ChannelInv, FreeHolds
  <2> QED
      BY <2>1, <2>2 DEF ChannelInv, FreeHolds, HoldsBelieved, BelievesNothing,
                        ChannelSet, HoldsNothing
<1>9. ChannelTypes'
    BY <1>1, <1>2, <1>3, <1>4, <1>5, ChannelConstants DEF ChannelTypes, TypeOK
<1>10. ChannelsConserved'
    BY <1>5 DEF ChannelInv, ChannelsConserved
<1>11. BeginHolds'
    BY <1>1, <1>3, <1>5, <1>8, ChannelConstants
       DEF BeginHolds, BelievesNothing, HoldsNothing, HoldsIt
<1>12. ChannelIsThere'
    BY <1>3, <1>5, FreeChannelIsAllowed DEF ChannelIsThere
<1>13. ReleaseHolds(Client)'
    BY <1>3 DEF ReleaseHolds, Releasing
<1>14. pc'[Client] \in Locking
    BY <1>3 DEF Locking, Beginning
<1> QED
    BY <1>1, <1>5, <1>7, <1>9, <1>10, <1>11, <1>12, <1>13, <1>14, ClientStep

LEMMA DelayKeeps ==
    ASSUME Undisturbed, ChannelInv, Delay PROVE ChannelInv'
<1>1. /\ ChannelTypes /\ pc[Client] = "delay" /\ pc[Client] \in Locking
      /\ UNCHANGED <<fBusGeneration, reg, held, others, mishaps, scanDue, fAllocatedChannels,
                     fGeneration, fBandwidth, fChannel, oldIRM, allocated, allowed,
                     fLock>>
    BY DEF ChannelInv, Delay, irmVars, chanVars, envVars, Locking, Beginning
<1>2. /\ BelievesNothing /\ HoldsNothing /\ result[Client] = "Success"
      /\ ~fAllocatedChannels /\ FreeChannel \in allowed
    BY <1>1 DEF ChannelInv, BeginHolds, ChannelIsThere, Beginning
<1>3. Client \in Procs /\ Client \notin Threads /\ fLock = Client
    BY <1>1, ChannelConstants DEF ChannelInv, OneHasTheLock
<1>4. /\ {"delay", "read", "finish"} \subseteq LabelsOf(Client)
      /\ {"Success", "Timeout"} \subseteq AllStatuses
    BY DEF LabelsOf, ClientLabels, Beginning, AllStatuses
<1>5. /\ pc' \in [Procs -> ClientLabels \cup ThreadLabels]
      /\ \A q \in Procs : pc'[q] \in LabelsOf(q)
      /\ result' \in [Procs -> AllStatuses]
      /\ \A q \in Procs \ {Client} : pc'[q] = pc[q] /\ result'[q] = result[q]
      /\ \/ pc'[Client] = "read" /\ result'[Client] = "Success"
         \/ pc'[Client] = "delay" /\ result'[Client] = "Success" /\ retries' # 0
         \/ pc'[Client] = "finish" /\ result'[Client] = "Timeout"
  <2>1. \/ Go(Client, "read", "Success")
        \/ Go(Client, "delay", "Success") /\ retries' = retries - 1 /\ retries # 1
        \/ Go(Client, "finish", "Timeout")
      BY <1>2 DEF Delay, Jump
  <2>2. Go(Client, "delay", "Success") /\ retries' = retries - 1 /\ retries # 1
        => retries' # 0
      BY <1>1, ChannelConstants DEF ChannelTypes, TypeOK
  <2> QED
      BY ONLY <1>1, <1>3, <1>4, <2>1, <2>2, GoTo
<1>6. /\ generation' \in [Procs -> 0..fBusGeneration']
      /\ \A q \in Procs \ {Client} : generation'[q] = generation[q]
      /\ retries' \in 0..DelayRetries
  <2>1. retries \in 0..DelayRetries /\ generation \in [Procs -> 0..fBusGeneration]
      BY <1>1 DEF ChannelTypes, TypeOK
  <2>2. CASE InGeneration(generation[Client])
      BY <1>1, <2>1, <2>2 DEF Delay
  <2>3. CASE ~InGeneration(generation[Client])
    <3>1. GetGeneration(Client) /\ retries' = retries - 1
        BY <2>3 DEF Delay
    <3>2. retries # 0
        BY <1>1 DEF ChannelInv, BeginHolds
    <3> QED
        BY <1>1, <1>3, <2>1, <3>1, <3>2, GenerationTaken, ChannelConstants
  <2> QED
      BY <2>2, <2>3
<1>7. StepOf(Client)
  <2>1. \A q \in Procs \ {Client} : pc[q] \notin Locking
      BY <1>1, <1>3, OthersWait
  <2> QED
      BY <1>1, <1>3, <1>5, <1>6, <2>1 DEF StepOf
<1>9. ChannelTypes'
    BY <1>1, <1>5, <1>6 DEF ChannelTypes, TypeOK
<1>10. ChannelsConserved'
    BY <1>1 DEF ChannelInv, ChannelsConserved
<1>11. BeginHolds'
    BY <1>1, <1>2, <1>5
       DEF BeginHolds, BelievesNothing, HoldsNothing, HoldsIt
<1>12. ChannelIsThere'
    BY <1>1, <1>2, <1>5 DEF ChannelIsThere
<1>13. ReleaseHolds(Client)'
    BY <1>5 DEF ReleaseHolds, Releasing
<1>14. pc'[Client] \in Locking
    BY <1>5 DEF Locking, Beginning
<1> QED
    BY <1>1, <1>7, <1>9, <1>10, <1>11, <1>12, <1>13, <1>14, ClientStep

(* Where a step of the client that has the lock leaves it.                 *)
LEMMA ClientGoes ==
    ASSUME ChannelInv, pc[Client] \in Locking, UNCHANGED <<fBusGeneration, scanDue>>,
           UNCHANGED generation, UNCHANGED fLock,
           NEW label \in LabelsOf(Client) \cap Locking, NEW status \in AllStatuses,
           Go(Client, label, status)
    PROVE  /\ StepOf(Client) /\ pc'[Client] = label /\ result'[Client] = status
           /\ pc' \in [Procs -> ClientLabels \cup ThreadLabels]
           /\ \A q \in Procs : pc'[q] \in LabelsOf(q)
           /\ result' \in [Procs -> AllStatuses]
           /\ generation' \in [Procs -> 0..fBusGeneration']
<1>1. ChannelTypes /\ OneHasTheLock /\ Client \in Procs
    BY ChannelConstants DEF ChannelInv
<1>2. fLock = Client /\ \A q \in Procs \ {Client} : pc[q] \notin Locking
    BY <1>1, OthersWait DEF OneHasTheLock
<1>3. /\ pc' \in [Procs -> ClientLabels \cup ThreadLabels]
      /\ \A q \in Procs : pc'[q] \in LabelsOf(q)
      /\ result' \in [Procs -> AllStatuses]
      /\ pc'[Client] = label /\ result'[Client] = status
      /\ \A q \in Procs \ {Client} : pc'[q] = pc[q] /\ result'[q] = result[q]
    BY <1>1, GoTo
<1>4. generation' \in [Procs -> 0..fBusGeneration']
    BY <1>1 DEF ChannelTypes, TypeOK
<1> QED
    BY <1>2, <1>3, <1>4 DEF StepOf

LEMMA ClientLabelsAre ==
    /\ {"delay", "read", "bandwidth", "channel", "giveBack", "finish"}
         \subseteq LabelsOf(Client) \cap Locking
    /\ {"giveBackAgain"} \cap LabelsOf(Client) = {}
    /\ {"none", "release", "ports", "releaseGeneration"} \subseteq LabelsOf(Client)
    /\ {"none", "release", "ports", "realloc"} \cap Locking = {}
BY DEF LabelsOf, ClientLabels, Locking, Beginning, Releasing, Reallocating

LEMMA ReadIRMKeeps ==
    ASSUME Undisturbed, ChannelInv, ReadIRM PROVE ChannelInv'
<1>1. /\ ChannelTypes /\ pc[Client] = "read" /\ pc[Client] \in Locking
      /\ UNCHANGED <<fBusGeneration, reg, held, others, mishaps, scanDue, fAllocatedChannels,
                     fGeneration, fBandwidth, fChannel, allocated, allowed, retries,
                     generation, fLock>>
    BY DEF ChannelInv, ReadIRM, irmVars, chanVars, envVars, Locking, Beginning
<1>2. /\ BelievesNothing /\ HoldsNothing /\ result[Client] = "Success"
      /\ ~fAllocatedChannels /\ FreeChannel \in allowed
    BY <1>1 DEF ChannelInv, BeginHolds, ChannelIsThere, Beginning
<1>3. \/ /\ Go(Client, "bandwidth", "Success") /\ oldIRM' = reg
      \/ /\ Go(Client, "finish", "BusReset") \/ Go(Client, "finish", "Error")
         /\ oldIRM' = oldIRM
  <2>1. PICK status \in Statuses(Client) :
          IF status = "Success"
          THEN /\ oldIRM' = reg
               /\ Jump(Client, IF fBandwidth = 0 THEN "bandwidth" ELSE "channel")
          ELSE Go(Client, "finish", status) /\ UNCHANGED oldIRM
      BY DEF ReadIRM
  <2>2. status \in {"Success", "BusReset", "Error"}
      BY DEF Statuses
  <2> QED
      BY <1>2, <2>1, <2>2 DEF BelievesNothing, Jump
<1>4. /\ {"bandwidth", "finish"} \subseteq LabelsOf(Client) \cap Locking
      /\ {"Success", "BusReset", "Error"} \subseteq AllStatuses
    BY ClientLabelsAre DEF AllStatuses
<1>5. /\ StepOf(Client)
      /\ pc' \in [Procs -> ClientLabels \cup ThreadLabels]
      /\ \A q \in Procs : pc'[q] \in LabelsOf(q)
      /\ result' \in [Procs -> AllStatuses]
      /\ generation' \in [Procs -> 0..fBusGeneration']
      /\ \/ pc'[Client] = "bandwidth" /\ result'[Client] = "Success" /\ oldIRM' = reg
         \/ /\ pc'[Client] = "finish" /\ result'[Client] \in {"BusReset", "Error"}
            /\ oldIRM' = oldIRM
  <2>1. CASE Go(Client, "bandwidth", "Success") /\ oldIRM' = reg
      BY <1>1, <1>4, <2>1, ClientGoes
  <2>2. CASE Go(Client, "finish", "BusReset") /\ oldIRM' = oldIRM
      BY <1>1, <1>4, <2>2, ClientGoes
  <2>3. CASE Go(Client, "finish", "Error") /\ oldIRM' = oldIRM
      BY <1>1, <1>4, <2>3, ClientGoes
  <2> QED
      BY <1>3, <2>1, <2>2, <2>3
<1>9. ChannelTypes'
    BY <1>1, <1>5 DEF ChannelTypes, TypeOK
<1>10. ChannelsConserved'
    BY <1>1 DEF ChannelInv, ChannelsConserved
<1>11. BeginHolds'
    BY <1>1, <1>2, <1>5
       DEF BeginHolds, BelievesNothing, HoldsNothing, HoldsIt
<1>12. ChannelIsThere'
  <2>1. FreeChannel \in reg.channels
      BY <1>2, FreeChannelIsAllowed
         DEF ChannelInv, ChannelsConserved, HoldsNothing, HoldsIt
  <2> QED
      BY <1>1, <1>2, <1>5, <2>1 DEF ChannelIsThere
<1>13. ReleaseHolds(Client)'
    BY <1>5 DEF ReleaseHolds, Releasing
<1>14. pc'[Client] \in Locking
    BY <1>5 DEF Locking, Beginning
<1> QED
    BY <1>1, <1>5, <1>9, <1>10, <1>11, <1>12, <1>13, <1>14, ClientStep

LEMMA ClaimBandwidthKeeps ==
    ASSUME Undisturbed, ChannelInv, ClaimBandwidth PROVE ChannelInv'
<1>1. /\ ChannelTypes /\ pc[Client] = "bandwidth" /\ pc[Client] \in Locking
      /\ UNCHANGED <<mishaps, scanDue, fAllocatedChannels, fGeneration, fChannel, allocated,
                     allowed, retries, generation, fLock, oldIRM>>
    BY DEF ChannelInv, ClaimBandwidth, envVars, beginVars, Locking, Beginning
<1>2. /\ BelievesNothing /\ HoldsNothing /\ result[Client] = "Success"
      /\ ~fAllocatedChannels /\ FreeChannel \in allowed
      /\ FreeChannel \in oldIRM.channels
      /\ InGeneration(generation[Client]) => oldIRM.channels = reg.channels
    BY <1>1 DEF ChannelInv, BeginHolds, ChannelIsThere, Beginning
<1>3. /\ {"channel", "finish"} \subseteq LabelsOf(Client) \cap Locking
      /\ {"Success", "BusReset", "Error", "NoSpace", "CannotLock"} \subseteq AllStatuses
    BY ClientLabelsAre DEF AllStatuses
<1>4. /\ oldIRM.bandwidth \in Int /\ oldIRM.bandwidth - bandwidth \in Int
      /\ reg \in Registers /\ held \in Registers
      /\ bandwidth \in Int
    BY <1>1, ChannelConstants DEF ChannelTypes, TypeOK, Registers
<1>5. \/ /\ InGeneration(generation[Client]) /\ reg.bandwidth = oldIRM.bandwidth
         /\ Swap("bandwidth", oldIRM.bandwidth - bandwidth)
         /\ fBandwidth' = bandwidth
         /\ Go(Client, "channel", "Success")
      \/ /\ UNCHANGED <<irmVars, fBandwidth>>
         /\ \E status \in {"NoSpace", "CannotLock", "BusReset", "Error"} :
               Go(Client, "finish", status)
  <2>1. CASE oldIRM.bandwidth < bandwidth
      BY <2>1 DEF ClaimBandwidth
  <2>2. CASE ~(oldIRM.bandwidth < bandwidth)
    <3>1. PICK status \in Statuses(Client) :
               IF status = "Success" /\ reg.bandwidth = oldIRM.bandwidth
               THEN /\ Swap("bandwidth", oldIRM.bandwidth - bandwidth)
                    /\ fBandwidth' = bandwidth
                    /\ Jump(Client, "channel")
               ELSE /\ Go(Client, "finish", Locked(status))
                    /\ UNCHANGED <<irmVars, fBandwidth>>
        BY <2>2 DEF ClaimBandwidth
    <3>2. /\ status \in {"Success", "BusReset", "Error"}
          /\ status = "Success" => InGeneration(generation[Client])
        BY DEF Statuses
    <3> QED
        BY <1>2, <3>1, <3>2 DEF Locked, Jump
  <2> QED
      BY <2>1, <2>2
<1>6. CASE /\ UNCHANGED <<irmVars, fBandwidth>>
           /\ \E status \in {"NoSpace", "CannotLock", "BusReset", "Error"} :
                 Go(Client, "finish", status)
  <2>0. UNCHANGED <<fBusGeneration, reg, held, others, mishaps, fBandwidth>>
      BY <1>1, <1>6 DEF irmVars
  <2>1. PICK status \in {"NoSpace", "CannotLock", "BusReset", "Error"} :
                 Go(Client, "finish", status)
      BY <1>6
  <2>2. /\ StepOf(Client)
        /\ pc' \in [Procs -> ClientLabels \cup ThreadLabels]
        /\ \A q \in Procs : pc'[q] \in LabelsOf(q)
        /\ result' \in [Procs -> AllStatuses]
        /\ generation' \in [Procs -> 0..fBusGeneration']
        /\ pc'[Client] = "finish" /\ result'[Client] = status
      BY <1>1, <1>3, <2>0, <2>1, ClientGoes
  <2>3. ChannelTypes'
      BY <1>1, <2>0, <2>2 DEF ChannelTypes, TypeOK
  <2>4. ChannelsConserved'
      BY <2>0 DEF ChannelInv, ChannelsConserved
  <2>5. BeginHolds'
      BY <1>1, <1>2, <2>0, <2>2
         DEF BeginHolds, BelievesNothing, HoldsNothing, HoldsIt
  <2>6. ChannelIsThere' /\ ReleaseHolds(Client)' /\ pc'[Client] \in Locking
      BY <1>1, <1>2, <2>2
         DEF ChannelIsThere, ReleaseHolds, Releasing, Locking, Beginning
  <2> QED
      BY <1>1, <2>2, <2>3, <2>4, <2>5, <2>6, ClientStep
<1>7. CASE /\ InGeneration(generation[Client]) /\ reg.bandwidth = oldIRM.bandwidth
           /\ Swap("bandwidth", oldIRM.bandwidth - bandwidth)
           /\ fBandwidth' = bandwidth
           /\ Go(Client, "channel", "Success")
  <2>1. /\ reg' \in Registers /\ held' \in Registers
        /\ reg'.channels = reg.channels
        /\ held'.bandwidth = held.bandwidth + reg.bandwidth
                               - (oldIRM.bandwidth - bandwidth)
        /\ held'.channels = held.channels
        /\ UNCHANGED <<fBusGeneration, others, moves>>
      BY <1>4, <1>7, BandwidthSwapped
  <2>2. /\ StepOf(Client)
        /\ pc' \in [Procs -> ClientLabels \cup ThreadLabels]
        /\ \A q \in Procs : pc'[q] \in LabelsOf(q)
        /\ result' \in [Procs -> AllStatuses]
        /\ generation' \in [Procs -> 0..fBusGeneration']
        /\ pc'[Client] = "channel" /\ result'[Client] = "Success"
      BY <1>1, <1>3, <1>7, <2>1, ClientGoes
  <2>3. ChannelTypes'
      BY <1>1, <1>7, <2>1, <2>2 DEF ChannelTypes, TypeOK
  <2>4. ChannelsConserved'
      BY <1>1, <2>1 DEF ChannelInv, ChannelsConserved
  <2>5. HoldsBelieved'
    <3>1. held'.bandwidth = held.bandwidth + bandwidth
        BY <1>4, <1>7, <2>1
    <3>2. fBandwidth' = bandwidth /\ ChannelSet' = {}
        BY <1>1, <1>2, <1>7 DEF BelievesNothing, ChannelSet
    <3>3. held.bandwidth \in Int /\ held'.bandwidth \in Int
        BY <1>4, <2>1 DEF Registers
    <3> QED
        BY <1>1, <1>2, <1>4, <2>1, <3>1, <3>2, <3>3
           DEF HoldsBelieved, HoldsNothing, HoldsIt
  <2>6. BeginHolds'
      BY <1>1, <1>2, <1>7, <2>1, <2>2, <2>5
         DEF BeginHolds, BelievesNothing, InGeneration
  <2>7. ChannelIsThere' /\ ReleaseHolds(Client)' /\ pc'[Client] \in Locking
      BY <1>1, <1>2, <1>7, <2>1, <2>2
         DEF ChannelIsThere, ReleaseHolds, Releasing, Locking, Beginning,
             InGeneration
  <2> QED
      BY <1>1, <2>2, <2>3, <2>4, <2>6, <2>7, ClientStep
<1> QED
    BY <1>5, <1>6, <1>7

LEMMA ClaimChannelEnds ==
    ASSUME Undisturbed, ChannelInv, ClaimChannel
    PROVE  /\ allowed' = allowed \cap oldIRM.channels /\ oldIRM' = Nothing
           /\ FreeChannel \in allowed'
           /\ \/ /\ InGeneration(generation[Client])
                 /\ fChannel' \in allowed' /\ fChannel' \in reg.channels
                 /\ Swap("channels", reg.channels \ {fChannel'})
                 /\ Go(Client, "finish", "Success")
              \/ /\ ~InGeneration(generation[Client])
                 /\ UNCHANGED <<irmVars, fChannel>>
                 /\ \/ Go(Client, "giveBack", "BusReset")
                    \/ Go(Client, "finish", "BusReset")
<1>1. /\ pc[Client] = "channel" /\ pc[Client] \notin FailingSteps
      /\ allowed' = allowed \cap oldIRM.channels
      /\ fChannel = NoChannel /\ FreeChannel \in allowed'
      /\ oldIRM' = Nothing
      /\ InGeneration(generation[Client]) => oldIRM.channels = reg.channels
      /\ result[Client] = "Success"
    BY DEF ChannelInv, BeginHolds, ChannelIsThere, ClaimChannel, Undisturbed
<1>2. PICK status \in Statuses(Client) :
          CASE fChannel # NoChannel ->
                 Jump(Client, "finish") /\ UNCHANGED <<irmVars, fChannel>>
            [] fChannel = NoChannel /\ status = "Success"
                                    /\ reg.channels = oldIRM.channels ->
                 /\ fChannel' = CHOOSE c \in allowed' : TRUE
                 /\ Swap("channels", reg.channels \ {fChannel'})
                 /\ Jump(Client, "finish")
            [] OTHER ->
                 /\ Go(Client, IF fBandwidth # 0 THEN "giveBack" ELSE "finish",
                       Locked(status))
                 /\ UNCHANGED <<irmVars, fChannel>>
  <2>1. allowed' # {}
      BY <1>1
  <2> QED
      BY <1>1, <2>1 DEF ClaimChannel
<1>3. CASE InGeneration(generation[Client])
  <2>1. status = "Success" /\ reg.channels = oldIRM.channels
      BY <1>1, <1>3 DEF Statuses
  <2>2. /\ fChannel' = CHOOSE c \in allowed' : TRUE
        /\ Swap("channels", reg.channels \ {fChannel'})
        /\ Jump(Client, "finish")
      BY <1>1, <1>2, <2>1
  <2>3. fChannel' \in allowed'
      BY <1>1, <2>2
  <2> QED
      BY <1>1, <1>3, <2>1, <2>2, <2>3 DEF Jump
<1>4. CASE ~InGeneration(generation[Client])
  <2>1. status = "BusReset"
      BY <1>4 DEF Statuses
  <2>2. /\ Go(Client, IF fBandwidth # 0 THEN "giveBack" ELSE "finish", "BusReset")
        /\ UNCHANGED <<irmVars, fChannel>>
      BY <1>1, <1>2, <2>1 DEF Locked
  <2> QED
      BY <1>1, <1>4, <2>2
<1> QED
    BY <1>3, <1>4

LEMMA ClaimChannelKeeps ==
    ASSUME Undisturbed, ChannelInv, ClaimChannel PROVE ChannelInv'
<1>1. /\ ChannelTypes /\ pc[Client] = "channel" /\ pc[Client] \in Locking
      /\ UNCHANGED <<mishaps, scanDue, fAllocatedChannels, fGeneration, fBandwidth, allocated,
                     retries, generation, fLock>>
    BY DEF ChannelInv, ClaimChannel, envVars, Locking, Beginning
<1>2. /\ fBandwidth = bandwidth /\ fChannel = NoChannel
      /\ IF InGeneration(generation[Client]) THEN HoldsBelieved ELSE HoldsNothing
      /\ ~fAllocatedChannels
    BY <1>1 DEF ChannelInv, BeginHolds, Beginning
<1>3. /\ {"giveBack", "finish"} \subseteq LabelsOf(Client) \cap Locking
      /\ {"Success", "BusReset"} \subseteq AllStatuses
    BY ClientLabelsAre DEF AllStatuses
<1>4. /\ reg \in Registers /\ held \in Registers /\ allowed \subseteq Channels
      /\ allowed' = allowed \cap oldIRM.channels /\ oldIRM' = Nothing
      /\ FreeChannel \in allowed' /\ oldIRM' \in Registers
      /\ bandwidth \in Nat /\ NoChannel \notin Channels
    BY <1>1, ClaimChannelEnds, ChannelConstants DEF ChannelTypes, TypeOK
<1>5. CASE /\ ~InGeneration(generation[Client])
           /\ UNCHANGED <<irmVars, fChannel>>
           /\ \/ Go(Client, "giveBack", "BusReset")
              \/ Go(Client, "finish", "BusReset")
  <2>1. UNCHANGED <<fBusGeneration, reg, held, others, mishaps, fChannel>>
      BY <1>1, <1>5 DEF irmVars
  <2>2. /\ StepOf(Client)
        /\ pc' \in [Procs -> ClientLabels \cup ThreadLabels]
        /\ \A q \in Procs : pc'[q] \in LabelsOf(q)
        /\ result' \in [Procs -> AllStatuses]
        /\ generation' \in [Procs -> 0..fBusGeneration']
        /\ pc'[Client] \in {"giveBack", "finish"} /\ result'[Client] = "BusReset"
      BY <1>1, <1>3, <1>5, <2>1, ClientGoes
  <2>3. ChannelTypes'
      BY <1>1, <1>4, <2>1, <2>2 DEF ChannelTypes, TypeOK
  <2>4. ChannelsConserved'
      BY <2>1 DEF ChannelInv, ChannelsConserved
  <2>5. BeginHolds'
      BY <1>1, <1>2, <1>5, <2>1, <2>2
         DEF BeginHolds, HoldsNothing, HoldsIt, InGeneration
  <2>6. ChannelIsThere' /\ ReleaseHolds(Client)' /\ pc'[Client] \in Locking
      BY <1>3, <1>4, <2>2
         DEF ChannelIsThere, ReleaseHolds, Releasing
  <2> QED
      BY <1>1, <2>2, <2>3, <2>4, <2>5, <2>6, ClientStep
<1>6. CASE /\ InGeneration(generation[Client])
           /\ fChannel' \in allowed' /\ fChannel' \in reg.channels
           /\ Swap("channels", reg.channels \ {fChannel'})
           /\ Go(Client, "finish", "Success")
  <2>1. /\ reg' \in Registers /\ held' \in Registers
        /\ reg'.channels = reg.channels \ {fChannel'}
        /\ held'.channels = (held.channels \cup (reg.channels \ reg'.channels))
                               \ (reg'.channels \ reg.channels)
        /\ held'.bandwidth = held.bandwidth
        /\ UNCHANGED <<fBusGeneration, others, moves>>
    <3>1. reg.channels \ {fChannel'} \in SUBSET Channels
        BY <1>4 DEF Registers
    <3> QED
        BY <1>4, <1>6, <3>1, ChannelsSwapped
  <2>2. /\ StepOf(Client)
        /\ pc' \in [Procs -> ClientLabels \cup ThreadLabels]
        /\ \A q \in Procs : pc'[q] \in LabelsOf(q)
        /\ result' \in [Procs -> AllStatuses]
        /\ generation' \in [Procs -> 0..fBusGeneration']
        /\ pc'[Client] = "finish" /\ result'[Client] = "Success"
      BY <1>1, <1>3, <1>6, <2>1, ClientGoes
  <2>3. ChannelTypes'
      BY <1>1, <1>4, <1>6, <2>1, <2>2 DEF ChannelTypes, TypeOK
  <2>4. held'.channels = held.channels \cup {fChannel'}
      BY <1>6, <2>1
  <2>5. ChannelsConserved'
    <3>1. ChannelsConserved
        BY DEF ChannelInv
    <3> QED
        BY <1>1, <1>4, <1>6, <2>1, <2>4, <3>1 DEF ChannelsConserved
  <2>6. BeginHolds'
    <3>0. HoldsIt(fBandwidth, {}) /\ fChannel' # NoChannel
        BY <1>2, <1>4, <1>6 DEF HoldsBelieved, ChannelSet
    <3>1. HoldsBelieved' /\ InGeneration(generation[Client])'
        BY <1>1, <1>6, <2>1, <2>4, <3>0
           DEF HoldsBelieved, HoldsIt, ChannelSet, InGeneration
    <3> QED
        BY <1>1, <1>2, <2>2, <3>1 DEF BeginHolds
  <2>7. ChannelIsThere' /\ ReleaseHolds(Client)' /\ pc'[Client] \in Locking
      BY <1>3, <1>4, <2>2
         DEF ChannelIsThere, ReleaseHolds, Releasing
  <2> QED
      BY <1>1, <2>2, <2>3, <2>5, <2>6, <2>7, ClientStep
<1> QED
    BY <1>5, <1>6, ClaimChannelEnds

LEMMA GiveBackKeeps ==
    ASSUME Undisturbed, ChannelInv, GiveBack PROVE ChannelInv'
<1>1. ChannelTypes /\ pc[Client] = "giveBack" /\ pc[Client] \in Locking
  <2>1. ChannelTypes /\ Client \in Procs
      BY ChannelConstants DEF ChannelInv
  <2>2. pc[Client] \in LabelsOf(Client) /\ pc[Client] \in {"giveBack", "giveBackAgain"}
      BY <2>1 DEF ChannelTypes, GiveBack
  <2> QED
      BY <2>1, <2>2, ClientLabelsAre
<1>2. /\ UNCHANGED <<mishaps, scanDue, fAllocatedChannels, fGeneration, fBandwidth, fChannel,
                     allocated, allowed, retries, generation, fLock>>
    BY DEF GiveBack, envVars, chanVars
<1>3. /\ ~InGeneration(generation[Client]) /\ HoldsNothing
      /\ result[Client] = "BusReset" /\ ~fAllocatedChannels /\ FreeChannel \in allowed
    BY <1>1 DEF ChannelInv, BeginHolds, Beginning, ChannelIsThere
<1>4. /\ UNCHANGED irmVars /\ Go(Client, "finish", "BusReset")
      /\ oldIRM' \in {reg, Nothing}
  <2>1. Statuses(Client) = {"BusReset"}
      BY <1>3 DEF Statuses
  <2> QED
      BY <1>3, <2>1 DEF GiveBack, Jump
<1>5. /\ UNCHANGED <<fBusGeneration, reg, held, others, mishaps>>
      /\ oldIRM' \in Registers
    BY <1>1, <1>2, <1>4, ChannelConstants DEF irmVars, ChannelTypes, TypeOK
<1>6. /\ "finish" \in LabelsOf(Client) \cap Locking
      /\ "BusReset" \in AllStatuses
    BY ClientLabelsAre DEF AllStatuses
<1>7. /\ StepOf(Client)
      /\ pc' \in [Procs -> ClientLabels \cup ThreadLabels]
      /\ \A q \in Procs : pc'[q] \in LabelsOf(q)
      /\ result' \in [Procs -> AllStatuses]
      /\ generation' \in [Procs -> 0..fBusGeneration']
      /\ pc'[Client] = "finish" /\ result'[Client] = "BusReset"
    BY <1>1, <1>2, <1>4, <1>5, <1>6, ClientGoes
<1>8. ChannelTypes'
    BY <1>1, <1>2, <1>5, <1>7 DEF ChannelTypes, TypeOK
<1>9. ChannelsConserved'
    BY <1>5 DEF ChannelInv, ChannelsConserved
<1>10. BeginHolds'
    BY <1>2, <1>3, <1>5, <1>7 DEF BeginHolds, HoldsNothing, HoldsIt
<1>11. ChannelIsThere' /\ ReleaseHolds(Client)' /\ pc'[Client] \in Locking
    BY <1>2, <1>3, <1>6, <1>7
       DEF ChannelIsThere, ReleaseHolds, Releasing
<1> QED
    BY <1>1, <1>2, <1>7, <1>8, <1>9, <1>10, <1>11, ClientStep

LEMMA FinishBeginKeeps ==
    ASSUME Undisturbed, ChannelInv, FinishBegin PROVE ChannelInv'
<1>1. /\ ChannelTypes /\ pc[Client] = "finish" /\ pc[Client] \in Locking
      /\ UNCHANGED <<fBusGeneration, reg, held, others, mishaps, scanDue, allowed, allocated>>
      /\ oldIRM' = Nothing /\ oldIRM' \in Registers
    BY ChannelConstants
       DEF ChannelInv, FinishBegin, irmVars, Locking, Beginning
<1>2. /\ Client \in Procs /\ fLock = Client /\ NoChannel \notin Procs
      /\ \A q \in Procs \ {Client} : pc[q] \notin Locking
    BY <1>1, ChannelConstants, OthersWait DEF ChannelInv, OneHasTheLock
<1>3. /\ {"delay", "ports", "release"} \subseteq LabelsOf(Client)
      /\ "delay" \in Locking /\ {"ports", "release"} \cap Locking = {}
      /\ result[Client] \in AllStatuses /\ "Success" \in AllStatuses
    BY <1>1, <1>2, ClientLabelsAre DEF AllStatuses, ChannelTypes, TypeOK
<1>4. /\ ~fAllocatedChannels /\ FreeChannel \in allowed
      /\ CASE result[Client] = "Success" -> InGeneration(generation[Client]) /\ HoldsBelieved
           [] result[Client] = "BusReset" -> HoldsNothing
           [] OTHER -> BelievesNothing /\ HoldsNothing
    BY <1>1 DEF ChannelInv, BeginHolds, ChannelIsThere, Beginning
<1>5. ChannelsConserved'
    BY <1>1 DEF ChannelInv, ChannelsConserved
<1>6. CASE result[Client] = "Success"
  <2>1. /\ fGeneration' = generation[Client] /\ fAllocatedChannels' = TRUE
        /\ fLock' = NoChannel /\ Go(Client, "ports", "Success")
        /\ UNCHANGED <<fBandwidth, fChannel, generation, retries>>
      BY <1>6 DEF FinishBegin, Unlock, Jump
  <2>2. /\ pc' \in [Procs -> ClientLabels \cup ThreadLabels]
        /\ \A q \in Procs : pc'[q] \in LabelsOf(q)
        /\ result' \in [Procs -> AllStatuses]
        /\ pc'[Client] = "ports"
        /\ \A q \in Procs \ {Client} : pc'[q] = pc[q] /\ result'[q] = result[q]
      BY <1>1, <1>2, <1>3, <2>1, GoTo
  <2>3. StepOf(Client)
      BY <1>1, <1>2, <1>3, <2>1, <2>2 DEF StepOf
  <2>4. HoldsBelieved' /\ InGeneration(fGeneration)'
      BY <1>1, <1>4, <1>6, <2>1
         DEF HoldsBelieved, HoldsIt, ChannelSet, InGeneration
  <2>5. ChannelTypes'
    <3>1. generation[Client] \in 0..fBusGeneration
        BY <1>1, <1>2 DEF ChannelTypes, TypeOK
    <3> QED
        BY <1>1, <1>2, <2>1, <2>2, <3>1, ChannelConstants DEF ChannelTypes, TypeOK
  <2>6. BeginHolds' /\ ChannelIsThere' /\ ReleaseHolds(Client)'
      BY <2>2 DEF BeginHolds, ChannelIsThere, ReleaseHolds, Releasing, Beginning
  <2>7. FreeHolds' /\ ResetIsAnswered'
      BY <2>1, <2>4 DEF FreeHolds, ResetIsAnswered
  <2> QED
      BY <1>2, <1>5, <2>3, <2>5, <2>6, <2>7, OthersStay, ChannelConstants
         DEF ChannelInv
<1>7. CASE result[Client] \in {"BusReset", "CannotLock"}
  <2>1. /\ fBandwidth' = 0 /\ fChannel' = NoChannel
        /\ GetGeneration(Client) /\ retries' = DelayRetries
        /\ Go(Client, "delay", "Success")
        /\ UNCHANGED <<fGeneration, fLock, fAllocatedChannels>>
      BY <1>4, <1>7 DEF FinishBegin, BelievesNothing
  <2>2. /\ pc' \in [Procs -> ClientLabels \cup ThreadLabels]
        /\ \A q \in Procs : pc'[q] \in LabelsOf(q)
        /\ result' \in [Procs -> AllStatuses]
        /\ pc'[Client] = "delay" /\ result'[Client] = "Success"
        /\ \A q \in Procs \ {Client} : pc'[q] = pc[q] /\ result'[q] = result[q]
      BY <1>1, <1>2, <1>3, <2>1, GoTo
  <2>3. /\ generation' \in [Procs -> 0..fBusGeneration']
        /\ \A q \in Procs \ {Client} : generation'[q] = generation[q]
      BY <1>1, <1>2, <2>1, GenerationTaken
  <2>4. StepOf(Client)
      BY <1>1, <1>2, <2>1, <2>2, <2>3 DEF StepOf
  <2>5. ChannelTypes'
      BY <1>1, <2>1, <2>2, <2>3, ChannelConstants DEF ChannelTypes, TypeOK
  <2>6. BeginHolds'
    <3>1. HoldsNothing'
        BY <1>1, <1>4, <1>7 DEF HoldsNothing, HoldsIt
    <3> QED
        BY <1>4, <2>1, <2>2, <3>1, ChannelConstants DEF BeginHolds, BelievesNothing
  <2>7. ChannelIsThere' /\ ReleaseHolds(Client)' /\ pc'[Client] \in Locking
      BY <1>1, <1>3, <1>4, <2>2 DEF ChannelIsThere, ReleaseHolds, Releasing
  <2> QED
      BY <1>1, <1>5, <2>1, <2>4, <2>5, <2>6, <2>7, ClientStep
<1>8. CASE result[Client] \notin {"Success", "BusReset", "CannotLock"}
  <2>1. /\ fLock' = NoChannel /\ Go(Client, "release", result[Client])
        /\ UNCHANGED <<fBandwidth, fChannel, fGeneration, fAllocatedChannels,
                       generation, retries>>
      BY <1>8 DEF FinishBegin, Unlock, Jump, chanVars
  <2>2. /\ pc' \in [Procs -> ClientLabels \cup ThreadLabels]
        /\ \A q \in Procs : pc'[q] \in LabelsOf(q)
        /\ result' \in [Procs -> AllStatuses]
        /\ pc'[Client] = "release"
        /\ \A q \in Procs \ {Client} : pc'[q] = pc[q] /\ result'[q] = result[q]
      BY <1>1, <1>2, <1>3, <2>1, GoTo
  <2>3. StepOf(Client)
      BY <1>1, <1>2, <1>3, <2>1, <2>2 DEF StepOf
  <2>4. BelievesNothing' /\ HoldsNothing'
      BY <1>1, <1>4, <1>8, <2>1 DEF BelievesNothing, HoldsNothing, HoldsIt
  <2>5. ChannelTypes'
      BY <1>1, <1>2, <2>1, <2>2, ChannelConstants DEF ChannelTypes, TypeOK
  <2>6. BeginHolds' /\ ChannelIsThere' /\ ReleaseHolds(Client)'
      BY <2>2 DEF BeginHolds, ChannelIsThere, ReleaseHolds, Releasing, Beginning
  <2>7. FreeHolds' /\ ResetIsAnswered'
      BY <1>4, <2>1, <2>4
         DEF FreeHolds, ResetIsAnswered, BelievesNothing, HoldsNothing,
             HoldsBelieved, ChannelSet
  <2> QED
      BY <1>2, <1>5, <2>3, <2>5, <2>6, <2>7, OthersStay, ChannelConstants
         DEF ChannelInv
<1> QED
    BY <1>6, <1>7, <1>8

(* Steps of the client outside the lock.                                   *)
LEMMA ClientIsFree ==
    ASSUME ChannelInv, pc[Client] \in {"none", "ports"},
           NEW label \in {"none", "release"}, NEW status \in AllStatuses,
           Go(Client, label, status),
           UNCHANGED <<irmVars, chanVars, fLock, envVars, generation, beginVars, mishaps>>,
           allocated' \in BOOLEAN, label = "none" => allocated'
    PROVE  ChannelInv'
<1>1. /\ ChannelTypes /\ Client \in Procs /\ label \in LabelsOf(Client)
      /\ UNCHANGED <<fBusGeneration, reg, held, others, mishaps, scanDue, fAllocatedChannels,
                     fGeneration, fBandwidth, fChannel, oldIRM, allowed, retries,
                     generation, fLock>>
    BY ChannelConstants, ClientLabelsAre
       DEF ChannelInv, irmVars, chanVars, envVars, beginVars
<1>2. /\ pc' \in [Procs -> ClientLabels \cup ThreadLabels]
      /\ \A q \in Procs : pc'[q] \in LabelsOf(q)
      /\ result' \in [Procs -> AllStatuses]
      /\ pc'[Client] = label
      /\ \A q \in Procs \ {Client} : pc'[q] = pc[q] /\ result'[q] = result[q]
    BY <1>1, GoTo
<1>3. pc[Client] \notin Locking /\ pc'[Client] \notin Locking
    BY <1>2, ClientLabelsAre
<1>4. ChannelTypes'
    BY <1>1, <1>2 DEF ChannelTypes, TypeOK
<1>5. ChannelsConserved' /\ OneHasTheLock'
    BY <1>1, <1>2, <1>3 DEF ChannelInv, ChannelsConserved, OneHasTheLock
<1>6. BeginHolds' /\ ChannelIsThere'
    BY <1>2 DEF BeginHolds, ChannelIsThere, Beginning
<1>7. \A p \in Procs : ReleaseHolds(p)'
  <2>1. ReleaseHolds(Client)'
      BY <1>2 DEF ReleaseHolds, Releasing
  <2>2. ASSUME NEW p \in Procs \ {Client} PROVE ReleaseHolds(p)'
      BY <1>1, <1>2
         DEF ChannelInv, ReleaseHolds, HoldsBelieved, HoldsNothing, HoldsIt,
             ChannelSet, InGeneration
  <2> QED
      BY <2>1, <2>2
<1>8. ASSUME NEW p \in Threads PROVE ReallocHolds(p)'
  <2>1. p \in Procs \ {Client}
      BY ChannelConstants
  <2>2. ReallocHolds(p) /\ pc'[p] = pc[p] /\ result'[p] = result[p]
      BY <1>2, <2>1 DEF ChannelInv
  <2> QED
      BY <1>1, <2>2
         DEF ReallocHolds, HoldsBelieved, HoldsNothing, HoldsIt, BelievesNothing,
             ChannelSet, InGeneration
<1>9. FreeHolds'
  <2>1. (\A p \in Procs : pc'[p] \notin Locking) => \A p \in Procs : pc[p] \notin Locking
      BY <1>2, <1>3
  <2> QED
      BY <1>1, <2>1
         DEF ChannelInv, FreeHolds, HoldsBelieved, HoldsNothing, HoldsIt,
             BelievesNothing, ChannelSet, InGeneration
<1>10. ResetIsAnswered'
  <2>1. fBusGeneration \in Threads => pc'[fBusGeneration] = pc[fBusGeneration]
      BY <1>2, ChannelConstants
  <2> QED
      BY <1>1, <2>1 DEF ChannelInv, ResetIsAnswered, InGeneration
<1> QED
    BY <1>4, <1>5, <1>6, <1>7, <1>8, <1>9, <1>10 DEF ChannelInv

LEMMA AllocatePortsKeeps ==
    ASSUME ChannelInv, AllocatePorts PROVE ChannelInv'
<1>1. {"Success", "Error"} \subseteq AllStatuses /\ allocated \in BOOLEAN
    BY DEF AllStatuses, ChannelInv, ChannelTypes
<1>2. /\ pc[Client] = "ports"
      /\ UNCHANGED <<irmVars, chanVars, fLock, envVars, generation, beginVars, mishaps>>
      /\ \/ Go(Client, "none", "Success") /\ allocated' = TRUE
         \/ Go(Client, "release", "Error") /\ allocated' = allocated
    BY DEF AllocatePorts
<1> QED
    BY <1>1, <1>2, ClientIsFree

LEMMA releaseChannelKeeps ==
    ASSUME ChannelInv, releaseChannel PROVE ChannelInv'
<1>1. result[Client] \in AllStatuses
    BY ChannelConstants DEF ChannelInv, ChannelTypes, TypeOK
<1>2. /\ pc[Client] = "none" /\ Go(Client, "release", result[Client])
      /\ allocated' = FALSE
      /\ UNCHANGED <<irmVars, chanVars, fLock, envVars, generation, beginVars, mishaps>>
    BY DEF releaseChannel, Jump
<1> QED
    BY <1>1, <1>2, ClientIsFree

-----------------------------------------------------------------------------
(* releaseChannelComplete.                                                 *)

LEMMA ReleaseStep ==
    ASSUME ChannelInv, NEW p \in Procs, StepOf(p), pc[p] # "none",
           pc'[p] \in Releasing \cup {"none"}, ~fAllocatedChannels',
           UNCHANGED <<allocated, oldIRM, allowed>>,
           ChannelTypes', ChannelsConserved', ReleaseHolds(p)',
           pc'[p] = "none" => FreeHolds'
    PROVE  ChannelInv'
<1>1. OneHasTheLock' /\ ResetIsAnswered'
    BY OthersStay DEF ResetIsAnswered
<1>2. \A q \in Procs : ReleaseHolds(q)'
    BY OthersStay
<1>3. ASSUME NEW q \in Threads PROVE ReallocHolds(q)'
  <2>1. CASE q # p
      BY <2>1, OthersStay
  <2>2. CASE q = p
      BY <2>2 DEF ChannelInv, ReallocHolds, StepOf, Releasing, Reallocating
  <2> QED
      BY <2>1, <2>2
<1>4. FreeHolds'
    BY DEF FreeHolds, Locking
<1>5. BeginHolds' /\ ChannelIsThere'
    BY ClientWaits DEF Releasing, Beginning
<1> QED
    BY <1>1, <1>2, <1>3, <1>4, <1>5 DEF ChannelInv

LEMMA ReleaseLabels ==
    ASSUME NEW p \in Procs
    PROVE  /\ Releasing \cup {"none"} \subseteq LabelsOf(p)
           /\ Releasing \subseteq Locking /\ "none" \notin Locking
           /\ {"Success", "BusReset"} \subseteq AllStatuses
BY DEF LabelsOf, ClientLabels, ThreadLabels, Releasing, Locking, AllStatuses,
       Beginning, Reallocating

LEMMA UnregisterKeeps ==
    ASSUME ChannelInv, NEW p \in Procs, Unregister(p) PROVE ChannelInv'
<1>1. /\ ChannelTypes /\ pc[p] = "release" /\ pc[p] \notin Locking
      /\ fLock = NoChannel /\ fLock' = p /\ fAllocatedChannels' = FALSE
      /\ Go(p, "releaseGeneration", "Success")
      /\ UNCHANGED <<fBusGeneration, reg, held, others, mishaps, scanDue, fGeneration,
                     fBandwidth, fChannel, oldIRM, allowed, retries, generation,
                     allocated>>
    BY DEF ChannelInv, Unregister, Lock, irmVars, chanVars, beginVars, Locking,
           Beginning, Releasing, Reallocating
<1>2. \A q \in Procs : pc[q] \notin Locking
    BY <1>1, OthersWait
<1>3. "releaseGeneration" \in LabelsOf(p) /\ "Success" \in AllStatuses
    BY ReleaseLabels DEF Releasing
<1>4. /\ pc' \in [Procs -> ClientLabels \cup ThreadLabels]
      /\ \A q \in Procs : pc'[q] \in LabelsOf(q)
      /\ result' \in [Procs -> AllStatuses]
      /\ pc'[p] = "releaseGeneration" /\ result'[p] = "Success"
      /\ \A q \in Procs \ {p} : pc'[q] = pc[q] /\ result'[q] = result[q]
    BY <1>1, <1>3, GoTo
<1>5. StepOf(p)
    BY <1>1, <1>2, <1>4 DEF StepOf
<1>6. ChannelTypes'
    BY <1>1, <1>4 DEF ChannelTypes, TypeOK
<1>7. ChannelsConserved'
    BY <1>1 DEF ChannelInv, ChannelsConserved
<1>8. ReleaseHolds(p)'
  <2>1. IF InGeneration(fGeneration) THEN HoldsBelieved ELSE HoldsNothing
      BY <1>2 DEF ChannelInv, FreeHolds
  <2> QED
      BY <1>1, <1>4, <2>1
         DEF ReleaseHolds, InGeneration, HoldsBelieved, HoldsNothing, HoldsIt,
             ChannelSet
<1> QED
    BY <1>1, <1>4, <1>5, <1>6, <1>7, <1>8, ReleaseStep DEF Releasing

LEMMA CheckGenerationKeeps ==
    ASSUME ChannelInv, NEW p \in Procs, CheckGeneration(p) PROVE ChannelInv'
<1>1. /\ ChannelTypes /\ pc[p] = "releaseGeneration" /\ pc[p] \in Locking
      /\ GetGeneration(p)
      /\ UNCHANGED <<fBusGeneration, reg, held, others, mishaps, scanDue, fGeneration, fLock,
                     fAllocatedChannels, oldIRM, allowed, retries, allocated>>
    BY DEF ChannelInv, CheckGeneration, irmVars, envVars, beginVars, Locking,
           Releasing
<1>2. /\ ~fAllocatedChannels /\ result[p] = "Success"
      /\ IF InGeneration(fGeneration) THEN HoldsBelieved ELSE HoldsNothing
    BY <1>1 DEF ChannelInv, ReleaseHolds, Releasing
<1>3. fLock = p /\ \A q \in Procs \ {p} : pc[q] \notin Locking
    BY <1>1, OthersWait DEF ChannelInv, OneHasTheLock
<1>4. /\ {"releaseChannel", "releaseBandwidth"} \subseteq LabelsOf(p)
      /\ {"releaseChannel", "releaseBandwidth"} \subseteq Releasing
      /\ {"Success", "BusReset"} \subseteq AllStatuses
    BY ReleaseLabels DEF Releasing
<1>5. \/ /\ ~InGeneration(fGeneration) /\ fBandwidth' = 0 /\ fChannel' = NoChannel
         /\ Go(p, "releaseChannel", "BusReset")
      \/ /\ InGeneration(fGeneration) /\ UNCHANGED <<fBandwidth, fChannel>>
         /\ Go(p, "releaseBandwidth", "Success")
    BY <1>2 DEF CheckGeneration, Jump, InGeneration
<1>6. /\ pc' \in [Procs -> ClientLabels \cup ThreadLabels]
      /\ \A q \in Procs : pc'[q] \in LabelsOf(q)
      /\ result' \in [Procs -> AllStatuses]
      /\ \A q \in Procs \ {p} : pc'[q] = pc[q] /\ result'[q] = result[q]
      /\ \/ /\ pc'[p] = "releaseChannel" /\ result'[p] = "BusReset"
            /\ fBandwidth' = 0 /\ fChannel' = NoChannel
            /\ ~InGeneration(fGeneration)
         \/ /\ pc'[p] = "releaseBandwidth" /\ result'[p] = "Success"
            /\ UNCHANGED <<fBandwidth, fChannel>>
            /\ InGeneration(fGeneration)
    BY <1>1, <1>4, <1>5, GoTo
<1>7. /\ generation' \in [Procs -> 0..fBusGeneration'] /\ generation'[p] = fBusGeneration
      /\ \A q \in Procs \ {p} : generation'[q] = generation[q]
    BY <1>1, GenerationTaken
<1>8. StepOf(p)
    BY <1>1, <1>3, <1>6, <1>7 DEF StepOf
<1>9. ChannelTypes'
    BY <1>1, <1>6, <1>7 DEF ChannelTypes, TypeOK
<1>10. ChannelsConserved'
    BY <1>1 DEF ChannelInv, ChannelsConserved
<1>11. ReleaseHolds(p)'
    BY <1>1, <1>2, <1>6, <1>7
       DEF ReleaseHolds, InGeneration, HoldsBelieved, HoldsNothing, HoldsIt,
           ChannelSet
<1> QED
    BY <1>1, <1>2, <1>4, <1>6, <1>8, <1>9, <1>10, <1>11, ReleaseStep DEF Releasing

LEMMA ReleaseBandwidthKeeps ==
    ASSUME Undisturbed, ChannelInv, NEW p \in Procs, ReleaseBandwidth(p)
    PROVE  ChannelInv'
<1>1. /\ ChannelTypes /\ pc[p] = "releaseBandwidth" /\ pc[p] \in Locking
      /\ pc[p] \notin FailingSteps /\ fBandwidth' = 0
      /\ UNCHANGED <<scanDue, fGeneration, fLock, generation, fChannel,
                     fAllocatedChannels, oldIRM, allowed, retries, allocated>>
    BY DEF ChannelInv, ReleaseBandwidth, envVars, beginVars, Locking,
           Releasing, Undisturbed
<1>2. /\ ~fAllocatedChannels /\ result[p] = "Success"
      /\ IF InGeneration(generation[p]) THEN HoldsBelieved ELSE HoldsNothing
    BY <1>1 DEF ChannelInv, ReleaseHolds, Releasing
<1>3. fLock = p /\ \A q \in Procs \ {p} : pc[q] \notin Locking
    BY <1>1, OthersWait DEF ChannelInv, OneHasTheLock
<1>4. /\ "releaseChannel" \in LabelsOf(p) /\ "releaseChannel" \in Releasing
      /\ {"Success", "BusReset"} \subseteq AllStatuses
      /\ reg \in Registers /\ held \in Registers
      /\ fBandwidth \in Int /\ reg.bandwidth \in Int /\ held.bandwidth \in Int
    BY <1>1, ReleaseLabels, ChannelConstants
       DEF Releasing, ChannelTypes, TypeOK, Registers
<1>5. \/ /\ Go(p, "releaseChannel", "Success")
         /\ Swap("bandwidth", reg.bandwidth + fBandwidth)
         /\ fBandwidth = 0 \/ InGeneration(generation[p])
         /\ mishaps' = mishaps
      \/ /\ Go(p, "releaseChannel", "BusReset") /\ UNCHANGED irmVars
         /\ ~InGeneration(generation[p])
         /\ mishaps' = mishaps
  <2>1. PICK status \in IF fBandwidth = 0 THEN {"Success"} ELSE Statuses(p) :
          /\ IF status = "Success"
             THEN Swap("bandwidth", reg.bandwidth + fBandwidth)
             ELSE UNCHANGED irmVars
          /\ Mishap("giveBack", status = "Error")
          /\ Go(p, "releaseChannel", IF status = "BusReset" THEN status ELSE "Success")
      BY DEF ReleaseBandwidth
  <2>2. \/ status = "Success" /\ (fBandwidth = 0 \/ InGeneration(generation[p]))
        \/ status = "BusReset" /\ ~InGeneration(generation[p])
      BY <1>1 DEF Statuses
  <2> QED
      BY <2>1, <2>2 DEF Mishap
<1>6. /\ reg' \in Registers /\ held' \in Registers
      /\ UNCHANGED <<fBusGeneration, others, mishaps>>
      /\ reg'.channels = reg.channels /\ held'.channels = held.channels
  <2>1. CASE Swap("bandwidth", reg.bandwidth + fBandwidth) /\ mishaps' = mishaps
    <3>1. reg.bandwidth + fBandwidth \in Int
        BY <1>4
    <3> QED
        BY <1>4, <2>1, <3>1, BandwidthSwapped
  <2>2. CASE UNCHANGED irmVars /\ mishaps' = mishaps
      BY <1>4, <2>2 DEF irmVars
  <2> QED
      BY <1>5, <2>1, <2>2
<1>7. /\ pc' \in [Procs -> ClientLabels \cup ThreadLabels]
      /\ \A q \in Procs : pc'[q] \in LabelsOf(q)
      /\ result' \in [Procs -> AllStatuses]
      /\ \A q \in Procs \ {p} : pc'[q] = pc[q] /\ result'[q] = result[q]
      /\ pc'[p] = "releaseChannel"
      /\ \/ /\ result'[p] = "Success"
            /\ Swap("bandwidth", reg.bandwidth + fBandwidth)
            /\ fBandwidth = 0 \/ InGeneration(generation[p])
         \/ /\ result'[p] = "BusReset" /\ UNCHANGED irmVars
            /\ ~InGeneration(generation[p])
    BY <1>1, <1>4, <1>5, GoTo
<1>8. StepOf(p)
    BY <1>1, <1>3, <1>6, <1>7 DEF StepOf
<1>9. ChannelTypes'
    BY <1>1, <1>6, <1>7 DEF ChannelTypes, TypeOK
<1>10. ChannelsConserved'
    BY <1>6 DEF ChannelInv, ChannelsConserved
<1>11. ReleaseHolds(p)'
  <2>1. CASE Swap("bandwidth", reg.bandwidth + fBandwidth) /\ result'[p] = "Success"
             /\ (fBandwidth = 0 \/ InGeneration(generation[p]))
    <3>1. held'.bandwidth = held.bandwidth - fBandwidth
      <4>1. reg.bandwidth + fBandwidth \in Int
          BY <1>4
      <4>2. held'.bandwidth = held.bandwidth + reg.bandwidth - (reg.bandwidth + fBandwidth)
          BY <1>4, <2>1, <4>1, BandwidthSwapped
      <4> QED
          BY <1>4, <4>2
    <3>2. /\ held'.bandwidth <= 0 /\ (mishaps = {} => held'.bandwidth = 0)
          /\ InGeneration(generation[p]) \/ HoldsNothing
      <4>1. CASE InGeneration(generation[p])
        <5>1. HoldsIt(fBandwidth, ChannelSet)
            BY <1>2, <4>1 DEF HoldsBelieved
        <5> QED
            BY <1>4, <3>1, <4>1, <5>1 DEF HoldsIt
      <4>2. CASE ~InGeneration(generation[p])
        <5>1. HoldsNothing /\ fBandwidth = 0
            BY <1>2, <2>1, <4>2
        <5> QED
            BY <1>4, <3>1, <5>1 DEF HoldsNothing, HoldsIt
      <4> QED
          BY <4>1, <4>2
    <3> QED
        BY <1>1, <1>2, <1>6, <1>7, <3>2
           DEF ReleaseHolds, InGeneration, HoldsBelieved, HoldsNothing, HoldsIt,
               ChannelSet
  <2>2. CASE UNCHANGED irmVars /\ ~InGeneration(generation[p])
    <3>1. UNCHANGED <<held, fBusGeneration, mishaps>>
        BY <1>6, <2>2 DEF irmVars
    <3> QED
        BY <1>1, <1>2, <1>7, <2>2, <3>1
           DEF ReleaseHolds, InGeneration, HoldsNothing, HoldsIt
  <2> QED
      BY <1>7, <2>1, <2>2
<1> QED
    BY <1>1, <1>2, <1>4, <1>7, <1>8, <1>9, <1>10, <1>11, ReleaseStep DEF Releasing

LEMMA ReleaseChannelKeeps ==
    ASSUME Undisturbed, ChannelInv, NEW p \in Procs, ReleaseChannel(p)
    PROVE  ChannelInv'
<1>1. /\ ChannelTypes /\ pc[p] = "releaseChannel" /\ pc[p] \in Locking
      /\ pc[p] \notin FailingSteps /\ fBandwidth' = 0 /\ fChannel' = NoChannel
      /\ fGeneration' = generation[p] /\ fLock' = NoChannel
      /\ Go(p, "none", "Success")
      /\ UNCHANGED <<scanDue, generation, fAllocatedChannels, oldIRM, allowed,
                     retries, allocated>>
    BY DEF ChannelInv, ReleaseChannel, envVars, beginVars, Locking,
           Releasing, Undisturbed, Unlock
<1>2. /\ ~fAllocatedChannels
      /\ IF InGeneration(generation[p]) /\ result[p] = "Success"
         THEN HoldsIt(0, ChannelSet) ELSE HoldsNothing
    BY <1>1 DEF ChannelInv, ReleaseHolds, Releasing
<1>3. \A q \in Procs \ {p} : pc[q] \notin Locking
    BY <1>1, OthersWait
<1>4. /\ "none" \in LabelsOf(p) /\ "none" \notin Locking /\ "Success" \in AllStatuses
      /\ reg \in Registers /\ held \in Registers /\ NoChannel \notin Procs
      /\ fChannel \in Channels \cup {NoChannel}
      /\ generation[p] \in 0..fBusGeneration
    BY <1>1, ReleaseLabels, ChannelConstants
       DEF ChannelTypes, TypeOK
<1>5. /\ pc' \in [Procs -> ClientLabels \cup ThreadLabels]
      /\ \A q \in Procs : pc'[q] \in LabelsOf(q)
      /\ result' \in [Procs -> AllStatuses]
      /\ \A q \in Procs \ {p} : pc'[q] = pc[q] /\ result'[q] = result[q]
      /\ pc'[p] = "none"
    BY <1>1, <1>4, GoTo
<1>6. \/ /\ fChannel # NoChannel /\ InGeneration(generation[p])
         /\ result[p] = "Success"
         /\ Swap("channels", reg.channels \cup {fChannel})
         /\ mishaps' = mishaps
      \/ /\ UNCHANGED irmVars /\ mishaps' = mishaps
         /\ ~(InGeneration(generation[p]) /\ result[p] = "Success")
               \/ fChannel = NoChannel
  <2>1. PICK status \in IF fChannel = NoChannel \/ result[p] # "Success" THEN {"BusReset"}
                        ELSE Statuses(p) :
          /\ IF status = "Success"
             THEN Swap("channels", reg.channels \cup {fChannel})
             ELSE UNCHANGED irmVars
          /\ Mishap("giveBack", status = "Error")
      BY DEF ReleaseChannel
  <2>2. status # "Error" /\ (status = "Success" => InGeneration(generation[p]))
      BY <1>1 DEF Statuses
  <2>3. status # "Success" =>
          ~InGeneration(generation[p]) \/ fChannel = NoChannel \/ result[p] # "Success"
      BY <1>1 DEF Statuses
  <2> QED
      BY <2>1, <2>2, <2>3 DEF Mishap
<1>7. /\ reg' \in Registers /\ held' \in Registers
      /\ UNCHANGED <<fBusGeneration, others, mishaps>> /\ HoldsNothing' /\ ChannelsConserved'
  <2>0. ChannelsConserved
      BY DEF ChannelInv
  <2>1. CASE /\ fChannel # NoChannel /\ InGeneration(generation[p])
             /\ result[p] = "Success"
             /\ Swap("channels", reg.channels \cup {fChannel})
             /\ mishaps' = mishaps
    <3>1. reg.channels \cup {fChannel} \in SUBSET Channels
        BY <1>4, <2>1 DEF Registers
    <3>2. /\ reg' \in Registers /\ held' \in Registers
          /\ reg'.channels = reg.channels \cup {fChannel}
          /\ held'.channels = (held.channels \cup (reg.channels \ reg'.channels))
                                 \ (reg'.channels \ reg.channels)
          /\ held'.bandwidth = held.bandwidth
          /\ UNCHANGED <<fBusGeneration, others, moves>>
        BY <1>4, <2>1, <3>1, ChannelsSwapped
    <3>3. HoldsIt(0, {fChannel})
        BY <1>2, <2>1 DEF ChannelSet
    <3>4. HoldsNothing'
        BY <2>0, <2>1, <3>2, <3>3 DEF ChannelsConserved, HoldsNothing, HoldsIt
    <3>5. ChannelsConserved'
        BY <2>0, <2>1, <3>1, <3>2, <3>3 DEF ChannelsConserved, HoldsIt
    <3> QED
        BY <2>1, <3>2, <3>4, <3>5
  <2>2. CASE /\ UNCHANGED irmVars /\ mishaps' = mishaps
             /\ ~(InGeneration(generation[p]) /\ result[p] = "Success")
                   \/ fChannel = NoChannel
      BY <1>2, <1>4, <2>0, <2>2
         DEF irmVars, ChannelsConserved, HoldsNothing, HoldsIt, ChannelSet
  <2> QED
      BY <1>6, <2>1, <2>2
<1>8. StepOf(p)
    BY <1>1, <1>3, <1>4, <1>5, <1>7 DEF StepOf
<1>9. ChannelTypes'
    BY <1>1, <1>4, <1>5, <1>7 DEF ChannelTypes, TypeOK
<1>10. ReleaseHolds(p)'
    BY <1>5 DEF ReleaseHolds, Releasing
<1>11. FreeHolds'
    BY <1>1, <1>7
       DEF FreeHolds, HoldsBelieved, HoldsNothing, HoldsIt, ChannelSet,
           BelievesNothing
<1> QED
    BY <1>1, <1>2, <1>5, <1>7, <1>8, <1>9, <1>10, <1>11, ReleaseStep

-----------------------------------------------------------------------------
(* reallocBandwidth, in the thread of generation p.                        *)

LEMMA ReallocStep ==
    ASSUME ChannelInv, NEW p \in Threads, StepOf(p),
           pc'[p] \in Reallocating \cup {"none", "release"},
           UNCHANGED <<allocated, oldIRM, allowed, fAllocatedChannels>>,
           ChannelTypes', ChannelsConserved', ReallocHolds(p)',
           pc'[p] \notin Reallocating => FreeHolds', ResetIsAnswered'
    PROVE  ChannelInv'
<1>0. p \in Procs /\ p # Client
    BY ChannelConstants
<1>1. OneHasTheLock' /\ \A q \in Threads : ReallocHolds(q)'
    BY <1>0, OthersStay
<1>2. \A q \in Procs : ReleaseHolds(q)'
  <2>1. ReleaseHolds(p)'
      BY DEF ReleaseHolds, Releasing, Reallocating
  <2> QED
      BY <1>0, <2>1, OthersStay
<1>3. FreeHolds'
    BY <1>0 DEF FreeHolds, Locking
<1>4. BeginHolds' /\ ChannelIsThere'
    BY <1>0, ClientWaits DEF Reallocating, Beginning
<1> QED
    BY <1>1, <1>2, <1>3, <1>4 DEF ChannelInv

LEMMA ReallocLabels ==
    ASSUME NEW p \in Threads
    PROVE  /\ p \in Procs /\ p \in Nat /\ p # Client
           /\ Reallocating \cup {"none", "release"} \subseteq LabelsOf(p)
           /\ Reallocating \subseteq Locking
           /\ {"none", "release"} \cap Locking = {}
           /\ "realloc" \notin Locking /\ "realloc" # "none"
           /\ {"Success", "BusReset", "Error", "NoSpace", "ChannelNotAvailable"}
                 \subseteq AllStatuses
BY ChannelConstants
   DEF LabelsOf, ThreadLabels, Releasing, Locking, AllStatuses, Beginning,
       Reallocating

LEMMA reallocBandwidthKeeps ==
    ASSUME ChannelInv, NEW p \in Threads, reallocBandwidth(p) PROVE ChannelInv'
<1>1. /\ ChannelTypes /\ pc[p] = "realloc"
      /\ fLock = NoChannel /\ fLock' = p
      /\ UNCHANGED <<fBusGeneration, reg, held, others, mishaps, scanDue, fGeneration,
                     fBandwidth, fChannel, oldIRM, allowed, retries, generation,
                     allocated, fAllocatedChannels>>
    BY DEF ChannelInv, reallocBandwidth, Lock, irmVars, chanVars, beginVars, envVars
<1>2. /\ p = fBusGeneration /\ ~scanDue /\ generation[p] = p
      /\ p \in Procs /\ p \in Nat /\ pc[p] \notin Locking
    BY <1>1, ReallocLabels DEF ChannelInv, ReallocHolds
<1>3. \A q \in Procs : pc[q] \notin Locking
    BY <1>1, <1>2, OthersWait
<1>4. /\ IF InGeneration(fGeneration) THEN HoldsBelieved ELSE HoldsNothing
      /\ ~fAllocatedChannels => BelievesNothing
    BY <1>3 DEF ChannelInv, FreeHolds
<1>5. \/ Go(p, "reallocBandwidth", "Error") /\ InGeneration(fGeneration)
      \/ Go(p, "reallocBandwidth", "Success") /\ ~InGeneration(fGeneration)
    BY <1>2 DEF reallocBandwidth, InGeneration
<1>6. /\ pc' \in [Procs -> ClientLabels \cup ThreadLabels]
      /\ \A q \in Procs : pc'[q] \in LabelsOf(q)
      /\ result' \in [Procs -> AllStatuses]
      /\ \A q \in Procs \ {p} : pc'[q] = pc[q] /\ result'[q] = result[q]
      /\ pc'[p] = "reallocBandwidth"
      /\ \/ result'[p] = "Error" /\ InGeneration(fGeneration)
         \/ result'[p] = "Success" /\ ~InGeneration(fGeneration)
  <2>1. /\ "reallocBandwidth" \in LabelsOf(p)
        /\ {"Success", "Error"} \subseteq AllStatuses
      BY ReallocLabels DEF Reallocating
  <2> QED
      BY <1>1, <1>2, <1>5, <2>1, GoTo
<1>7. StepOf(p)
    BY <1>1, <1>3, <1>6 DEF StepOf
<1>8. ChannelTypes'
    BY <1>1, <1>2, <1>6 DEF ChannelTypes, TypeOK
<1>9. ChannelsConserved'
    BY <1>1 DEF ChannelInv, ChannelsConserved
<1>10. ReallocHolds(p)'
  <2>1. fGeneration <= p
      BY <1>1, <1>2 DEF ChannelTypes, TypeOK
  <2> QED
      BY <1>1, <1>2, <1>4, <1>6, <2>1
         DEF ReallocHolds, InGeneration, HoldsBelieved, HoldsNothing, HoldsIt,
             ChannelSet, BelievesNothing
<1>11. ResetIsAnswered'
    BY <1>1, <1>2, <1>6 DEF ResetIsAnswered, Reallocating
<1> QED
    BY <1>1, <1>6, <1>7, <1>8, <1>9, <1>10, <1>11, ReallocStep DEF Reallocating

(* While it is at it the thread is what answers the reset.                 *)
LEMMA StillAnswered ==
    ASSUME ChannelInv, NEW p \in Threads, StepOf(p), pc[p] \in Reallocating,
           pc'[p] \in Reallocating, UNCHANGED <<fGeneration, fAllocatedChannels>>
    PROVE  ResetIsAnswered'
<1>1. ResetIsAnswered
    BY DEF ChannelInv
<1>2. \A q \in Threads \ {p} : pc'[q] = pc[q]
    BY ReallocLabels, ChannelConstants DEF StepOf
<1> QED
    BY <1>1, <1>2 DEF ResetIsAnswered, StepOf, InGeneration

LEMMA ReallocBandwidthKeeps ==
    ASSUME Undisturbed, ChannelInv, NEW p \in Threads, ReallocBandwidth(p)
    PROVE  ChannelInv'
<1>1. /\ ChannelTypes /\ pc[p] = "reallocBandwidth" /\ pc[p] \in Locking
      /\ pc[p] \in Reallocating
      /\ UNCHANGED <<scanDue, fGeneration, oldIRM, allowed, retries, generation,
                     allocated, fAllocatedChannels, fLock>>
    BY DEF ChannelInv, ReallocBandwidth, beginVars, envVars, Locking, Reallocating
<1>2. /\ generation[p] = p /\ fGeneration <= p /\ p <= fBusGeneration
      /\ p = fBusGeneration => ~scanDue
      /\ ~fAllocatedChannels => BelievesNothing
      /\ IF InGeneration(p)
         THEN /\ result[p] # "BusReset"
              /\ IF result[p] = "Success" THEN HoldsNothing ELSE HoldsBelieved
         ELSE HoldsNothing
    BY <1>1 DEF ChannelInv, ReallocHolds
<1>3. /\ p \in Procs /\ fLock = p /\ \A q \in Procs \ {p} : pc[q] \notin Locking
    BY <1>1, ReallocLabels, OthersWait DEF ChannelInv, OneHasTheLock
<1>4. /\ reg \in Registers /\ held \in Registers /\ result[p] \in AllStatuses
      /\ fBandwidth \in Int /\ reg.bandwidth \in Int /\ held.bandwidth \in Int
      /\ reg.bandwidth - fBandwidth \in Int
      /\ fBandwidth \in {0, bandwidth}
    BY <1>1, <1>3, ChannelConstants DEF ChannelTypes, TypeOK, Registers
<1>5. \/ /\ result[p] = "Success" /\ (fBandwidth = 0 \/ InGeneration(p))
         /\ fBandwidth' = 0 /\ fChannel' = NoChannel /\ mishaps' = mishaps
         /\ Go(p, "reallocChannel", "NoSpace") /\ UNCHANGED irmVars
      \/ /\ result[p] = "Success" /\ (fBandwidth = 0 \/ InGeneration(p))
         /\ Swap("bandwidth", reg.bandwidth - fBandwidth) /\ mishaps' = mishaps
         /\ Go(p, "reallocChannel", "Success") /\ UNCHANGED <<fBandwidth, fChannel>>
      \/ /\ result[p] = "Success" /\ ~InGeneration(p)
         /\ UNCHANGED irmVars /\ mishaps' = mishaps
         /\ Go(p, "reallocChannel", "BusReset") /\ UNCHANGED <<fBandwidth, fChannel>>
      \/ /\ result[p] = "Success" /\ InGeneration(p)
         /\ UNCHANGED irmVars /\ mishaps' = mishaps \cup {"realloc"}
         /\ Go(p, "reallocChannel", "Error") /\ UNCHANGED <<fBandwidth, fChannel>>
      \/ /\ result[p] # "Success" /\ UNCHANGED irmVars /\ mishaps' = mishaps
         /\ Go(p, "reallocChannel", result[p]) /\ UNCHANGED <<fBandwidth, fChannel>>
  <2>1. CASE result[p] # "Success"
      BY <2>1 DEF ReallocBandwidth, Mishap
  <2>2. CASE result[p] = "Success"
    <3>1. PICK status \in IF fBandwidth = 0 THEN {"Success"} ELSE Statuses(p) :
          /\ IF status = "Success" /\ reg.bandwidth < fBandwidth
             THEN /\ fBandwidth' = 0 /\ fChannel' = NoChannel
                  /\ Go(p, "reallocChannel", "NoSpace")
                  /\ UNCHANGED irmVars
             ELSE /\ IF status = "Success"
                     THEN Swap("bandwidth", reg.bandwidth - fBandwidth)
                     ELSE UNCHANGED irmVars
                  /\ Go(p, "reallocChannel", status)
                  /\ UNCHANGED <<fBandwidth, fChannel>>
          /\ Mishap("realloc", result[p] = "Success" /\ status = "Error")
        BY <2>2 DEF ReallocBandwidth
    <3>2. \/ status = "Success" /\ (fBandwidth = 0 \/ InGeneration(p))
          \/ status = "BusReset" /\ ~InGeneration(p)
          \/ status = "Error" /\ InGeneration(p)
        BY <1>1, <1>2 DEF Statuses
    <3> QED
        BY <2>2, <3>1, <3>2 DEF Mishap
  <2> QED
      BY <2>1, <2>2
<1>6. /\ "reallocChannel" \in LabelsOf(p) /\ "reallocChannel" \in Reallocating
      /\ {"Success", "BusReset", "NoSpace", "Error"} \subseteq AllStatuses
    BY ReallocLabels DEF Reallocating
<1>7. /\ reg' \in Registers /\ held' \in Registers
      /\ UNCHANGED <<fBusGeneration, others>>
      /\ reg'.channels = reg.channels /\ held'.channels = held.channels
      /\ \/ UNCHANGED held
         \/ /\ Swap("bandwidth", reg.bandwidth - fBandwidth)
            /\ held'.bandwidth = held.bandwidth + fBandwidth
  <2>1. CASE Swap("bandwidth", reg.bandwidth - fBandwidth)
    <3>1. /\ reg' \in Registers /\ held' \in Registers
          /\ reg'.channels = reg.channels
          /\ held'.bandwidth = held.bandwidth + reg.bandwidth
                                  - (reg.bandwidth - fBandwidth)
          /\ held'.channels = held.channels
          /\ UNCHANGED <<fBusGeneration, others, moves>>
        BY <1>4, <2>1, BandwidthSwapped
    <3> QED
        BY <1>4, <2>1, <3>1
  <2>2. CASE UNCHANGED irmVars
      BY <1>4, <2>2 DEF irmVars
  <2> QED
      BY <1>5, <2>1, <2>2
<1>8. /\ pc' \in [Procs -> ClientLabels \cup ThreadLabels]
      /\ \A q \in Procs : pc'[q] \in LabelsOf(q)
      /\ result' \in [Procs -> AllStatuses]
      /\ \A q \in Procs \ {p} : pc'[q] = pc[q] /\ result'[q] = result[q]
      /\ pc'[p] = "reallocChannel"
      /\ fBandwidth' \in {0, bandwidth} /\ fChannel' \in {fChannel, NoChannel}
      /\ \/ /\ result[p] = "Success" /\ (fBandwidth = 0 \/ InGeneration(p))
            /\ fBandwidth' = 0 /\ fChannel' = NoChannel /\ mishaps' = mishaps
            /\ result'[p] = "NoSpace" /\ UNCHANGED irmVars
         \/ /\ result[p] = "Success" /\ (fBandwidth = 0 \/ InGeneration(p))
            /\ Swap("bandwidth", reg.bandwidth - fBandwidth) /\ mishaps' = mishaps
            /\ result'[p] = "Success" /\ UNCHANGED <<fBandwidth, fChannel>>
         \/ /\ result[p] = "Success" /\ ~InGeneration(p)
            /\ UNCHANGED irmVars /\ mishaps' = mishaps
            /\ result'[p] = "BusReset" /\ UNCHANGED <<fBandwidth, fChannel>>
         \/ /\ result[p] = "Success" /\ InGeneration(p)
            /\ UNCHANGED irmVars /\ mishaps' = mishaps \cup {"realloc"}
            /\ result'[p] = "Error" /\ UNCHANGED <<fBandwidth, fChannel>>
         \/ /\ result[p] # "Success" /\ UNCHANGED irmVars /\ mishaps' = mishaps
            /\ result'[p] = result[p] /\ UNCHANGED <<fBandwidth, fChannel>>
  <2>1. CASE Go(p, "reallocChannel", "NoSpace")
      BY <1>1, <1>3, <1>4, <1>5, <1>6, <2>1, GoTo
  <2>2. CASE Go(p, "reallocChannel", "Success")
      BY <1>1, <1>3, <1>4, <1>5, <1>6, <2>2, GoTo
  <2>3. CASE Go(p, "reallocChannel", "BusReset")
      BY <1>1, <1>3, <1>4, <1>5, <1>6, <2>3, GoTo
  <2>4. CASE Go(p, "reallocChannel", result[p])
      BY <1>1, <1>3, <1>4, <1>5, <1>6, <2>4, GoTo
  <2>5. CASE Go(p, "reallocChannel", "Error")
      BY <1>1, <1>3, <1>4, <1>5, <1>6, <2>5, GoTo
  <2> QED
      BY <1>5, <2>1, <2>2, <2>3, <2>4, <2>5
<1>9. StepOf(p)
    BY <1>1, <1>3, <1>7, <1>8 DEF StepOf
<1>10. ChannelTypes'
    BY <1>1, <1>7, <1>8 DEF ChannelTypes, TypeOK, Mishaps
<1>11. ChannelsConserved'
    BY <1>7, <1>8 DEF ChannelInv, ChannelsConserved
<1>12. ReallocHolds(p)'
  <2>1. /\ generation'[p] = p /\ fGeneration' <= p
        /\ p <= fBusGeneration' /\ (p = fBusGeneration' => ~scanDue')
        /\ ~fAllocatedChannels' => BelievesNothing'
      BY <1>1, <1>2, <1>4, <1>7, <1>8 DEF BelievesNothing
  <2>2. CASE ~InGeneration(p)
    <3>1. HoldsNothing'
        BY <1>2, <1>4, <1>7, <1>8, <2>2 DEF irmVars, HoldsNothing, HoldsIt
    <3> QED
        BY <1>7, <1>8, <2>1, <2>2, <3>1 DEF ReallocHolds, InGeneration
  <2>3. CASE InGeneration(p) /\ result[p] # "Success"
      BY <1>2, <1>7, <1>8, <2>1, <2>3
         DEF ReallocHolds, InGeneration, HoldsBelieved, HoldsIt, ChannelSet, irmVars
  <2>4. CASE InGeneration(p) /\ result[p] = "Success"
    <3>1. HoldsNothing
        BY <1>2, <2>4
    <3>2. CASE /\ UNCHANGED irmVars /\ result'[p] = "NoSpace" /\ mishaps' = mishaps
               /\ fBandwidth' = 0 /\ fChannel' = NoChannel
        BY <1>7, <1>8, <2>1, <2>4, <3>1, <3>2
           DEF ReallocHolds, InGeneration, HoldsBelieved, HoldsIt, ChannelSet,
               HoldsNothing, irmVars
    <3>3. CASE Swap("bandwidth", reg.bandwidth - fBandwidth) /\ mishaps' = mishaps
               /\ result'[p] = "Success" /\ UNCHANGED <<fBandwidth, fChannel>>
      <4>1. held'.bandwidth = held.bandwidth + fBandwidth /\ held'.channels = held.channels
        <5>1. held'.bandwidth = held.bandwidth + reg.bandwidth
                                   - (reg.bandwidth - fBandwidth)
            BY <1>4, <3>3, BandwidthSwapped
        <5> QED
            BY <1>4, <1>7, <5>1
      <4>2. HoldsIt(fBandwidth, {})'
          BY <1>4, <3>1, <3>3, <4>1 DEF HoldsNothing, HoldsIt
      <4> QED
          BY <1>7, <1>8, <2>1, <2>4, <3>3, <4>2 DEF ReallocHolds, InGeneration
    <3>4. CASE /\ UNCHANGED irmVars /\ mishaps' = mishaps \cup {"realloc"}
               /\ result'[p] = "Error" /\ UNCHANGED <<fBandwidth, fChannel>>
      <4>1. UNCHANGED held /\ fBandwidth >= 0 /\ mishaps' # {}
          BY <1>4, <3>4, ChannelConstants DEF irmVars
      <4>2. HoldsBelieved'
          BY <1>4, <3>1, <3>4, <4>1 DEF HoldsBelieved, HoldsNothing, HoldsIt
      <4> QED
          BY <1>7, <1>8, <2>1, <2>4, <3>4, <4>2 DEF ReallocHolds, InGeneration
    <3> QED
        BY <1>8, <2>4, <3>2, <3>3, <3>4
  <2> QED
      BY <2>2, <2>3, <2>4
<1>13. ResetIsAnswered'
    BY <1>1, <1>6, <1>8, <1>9, StillAnswered
<1> QED
    BY <1>1, <1>6, <1>8, <1>9, <1>10, <1>11, <1>12, <1>13, ReallocStep

LEMMA ReallocChannelKeeps ==
    ASSUME Undisturbed, ChannelInv, NEW p \in Threads, ReallocChannel(p)
    PROVE  ChannelInv'
<1>1. /\ ChannelTypes /\ pc[p] = "reallocChannel" /\ pc[p] \in Locking
      /\ pc[p] \in Reallocating
      /\ UNCHANGED <<scanDue, fGeneration, fBandwidth, oldIRM, allowed, retries,
                     generation, allocated, fAllocatedChannels, fLock>>
    BY DEF ChannelInv, ReallocChannel, beginVars, envVars, Locking, Reallocating
<1>2. /\ generation[p] = p /\ fGeneration <= p /\ p <= fBusGeneration
      /\ p = fBusGeneration => ~scanDue
      /\ ~fAllocatedChannels => BelievesNothing
      /\ IF InGeneration(p)
         THEN /\ result[p] # "BusReset"
              /\ IF result[p] = "Success" THEN HoldsIt(fBandwidth, {})
                                          ELSE HoldsBelieved
         ELSE HoldsNothing
    BY <1>1 DEF ChannelInv, ReallocHolds
<1>3. /\ p \in Procs /\ fLock = p /\ \A q \in Procs \ {p} : pc[q] \notin Locking
    BY <1>1, ReallocLabels, OthersWait DEF ChannelInv, OneHasTheLock
<1>4. /\ reg \in Registers /\ held \in Registers /\ result[p] \in AllStatuses
      /\ fChannel \in Channels \cup {NoChannel} /\ NoChannel \notin Channels
      /\ reg.channels \subseteq Channels
      /\ reg.channels \ {fChannel} \in SUBSET Channels
    BY <1>1, <1>3, ChannelConstants DEF ChannelTypes, TypeOK, Registers
<1>5. PICK status \in {"Success", "BusReset", "ChannelNotAvailable", "Error", result[p]} :
        /\ Go(p, "reallocated", status)
        /\ \/ /\ result[p] = "Success" /\ fChannel # NoChannel /\ InGeneration(p)
              /\ fChannel' = NoChannel /\ status = "ChannelNotAvailable"
              /\ UNCHANGED <<irmVars, mishaps>>
           \/ /\ result[p] = "Success"
              /\ fChannel = NoChannel \/ (InGeneration(p) /\ fChannel \in reg.channels)
              /\ Swap("channels", reg.channels \ {fChannel})
              /\ status = "Success" /\ UNCHANGED <<fChannel, mishaps>>
           \/ /\ result[p] = "Success" /\ ~InGeneration(p) /\ status = "BusReset"
              /\ UNCHANGED <<irmVars, fChannel, mishaps>>
           \/ /\ result[p] = "Success" /\ InGeneration(p) /\ status = "Error"
              /\ mishaps' = mishaps \cup {"realloc"} /\ UNCHANGED <<irmVars, fChannel>>
           \/ /\ result[p] # "Success" /\ status = result[p]
              /\ UNCHANGED <<irmVars, fChannel, mishaps>>
  <2>1. CASE result[p] # "Success"
      BY <2>1 DEF ReallocChannel, Mishap
  <2>2. CASE result[p] = "Success"
    <3>1. PICK status \in IF fChannel = NoChannel THEN {"Success"} ELSE Statuses(p) :
          /\ IF /\ status = "Success" /\ fChannel # NoChannel
                /\ fChannel \notin reg.channels
             THEN /\ fChannel' = NoChannel
                  /\ Go(p, "reallocated", "ChannelNotAvailable")
                  /\ UNCHANGED irmVars
             ELSE /\ IF status = "Success"
                     THEN Swap("channels", reg.channels \ {fChannel})
                     ELSE UNCHANGED irmVars
                  /\ Go(p, "reallocated", status)
                  /\ UNCHANGED fChannel
          /\ Mishap("realloc", result[p] = "Success" /\ status = "Error")
        BY <2>2 DEF ReallocChannel
    <3>2. \/ status = "Success" /\ (fChannel = NoChannel \/ InGeneration(p))
          \/ status = "BusReset" /\ ~InGeneration(p)
          \/ status = "Error" /\ InGeneration(p)
        BY <1>1, <1>2 DEF Statuses
    <3> QED
        BY <2>2, <3>1, <3>2 DEF Mishap
  <2> QED
      BY <2>1, <2>2
<1>6. /\ "reallocated" \in LabelsOf(p) /\ "reallocated" \in Reallocating
      /\ status \in AllStatuses
    BY <1>4, ReallocLabels DEF Reallocating
<1>7. /\ reg' \in Registers /\ held' \in Registers
      /\ UNCHANGED <<fBusGeneration, others>>
      /\ held'.bandwidth = held.bandwidth
      /\ held'.channels = IF /\ result[p] = "Success" /\ status = "Success"
                             /\ fChannel # NoChannel
                          THEN held.channels \cup {fChannel} ELSE held.channels
      /\ mishaps' = {} => mishaps = {}
      /\ ChannelsConserved'
  <2>0. ChannelsConserved
      BY DEF ChannelInv
  <2>1. CASE /\ result[p] = "Success"
             /\ fChannel = NoChannel \/ (InGeneration(p) /\ fChannel \in reg.channels)
             /\ Swap("channels", reg.channels \ {fChannel})
             /\ status = "Success" /\ UNCHANGED <<fChannel, mishaps>>
    <3>1. /\ reg' \in Registers /\ held' \in Registers
          /\ reg'.channels = reg.channels \ {fChannel}
          /\ held'.channels = (held.channels \cup (reg.channels \ reg'.channels))
                                 \ (reg'.channels \ reg.channels)
          /\ held'.bandwidth = held.bandwidth
          /\ UNCHANGED <<fBusGeneration, others, moves>>
        BY <1>4, <2>1, ChannelsSwapped
    <3>2. CASE fChannel = NoChannel
      <4>1. reg.channels \ {fChannel} = reg.channels
          BY <1>4, <3>2
      <4>2. held'.channels = held.channels /\ reg'.channels = reg.channels
          BY <3>1, <4>1
      <4> QED
          BY <2>0, <2>1, <3>1, <3>2, <4>2 DEF ChannelsConserved
    <3>3. CASE fChannel # NoChannel
      <4>1. held'.channels = held.channels \cup {fChannel}
          BY <2>1, <3>1, <3>3
      <4> QED
          BY <2>0, <2>1, <3>1, <3>3, <4>1 DEF ChannelsConserved
    <3> QED
        BY <3>2, <3>3
  <2>2. CASE /\ UNCHANGED irmVars /\ ~(result[p] = "Success" /\ status = "Success")
             /\ mishaps' = {} => mishaps = {}
      BY <1>4, <2>0, <2>2 DEF irmVars, ChannelsConserved
  <2>3. mishaps \cup {"realloc"} # {}
      OBVIOUS
  <2> QED
      BY <1>5, <2>1, <2>2, <2>3
<1>8. /\ pc' \in [Procs -> ClientLabels \cup ThreadLabels]
      /\ \A q \in Procs : pc'[q] \in LabelsOf(q)
      /\ result' \in [Procs -> AllStatuses]
      /\ \A q \in Procs \ {p} : pc'[q] = pc[q] /\ result'[q] = result[q]
      /\ pc'[p] = "reallocated" /\ result'[p] = status
    BY <1>1, <1>3, <1>5, <1>6, GoTo
<1>9. StepOf(p)
    BY <1>1, <1>3, <1>7, <1>8 DEF StepOf
<1>10. ChannelTypes'
    BY <1>1, <1>4, <1>5, <1>7, <1>8 DEF ChannelTypes, TypeOK, Mishaps
<1>12. ReallocHolds(p)'
  <2>1. /\ generation'[p] = p /\ fGeneration' <= p
        /\ p <= fBusGeneration' /\ (p = fBusGeneration' => ~scanDue')
        /\ ~fAllocatedChannels' => BelievesNothing'
      BY <1>1, <1>2, <1>5, <1>7, <1>8 DEF BelievesNothing
  <2>2. CASE ~InGeneration(p)
    <3>1. HoldsNothing'
        BY <1>2, <1>5, <1>7, <2>2 DEF HoldsNothing, HoldsIt
    <3> QED
        BY <1>7, <1>8, <2>1, <2>2, <3>1 DEF ReallocHolds, InGeneration
  <2>3. CASE InGeneration(p)
    <3>1. HoldsBelieved' /\ status # "BusReset"
      <4>1. CASE result[p] = "Success" /\ status = "Success" /\ fChannel # NoChannel
          BY <1>1, <1>2, <1>5, <1>7, <2>3, <4>1 DEF HoldsBelieved, HoldsIt, ChannelSet
      <4>2. CASE result[p] = "Success" /\ status = "Success" /\ fChannel = NoChannel
          BY <1>1, <1>2, <1>5, <1>7, <2>3, <4>2 DEF HoldsBelieved, HoldsIt, ChannelSet
      <4>3. CASE result[p] = "Success" /\ status = "ChannelNotAvailable"
          BY <1>1, <1>2, <1>5, <1>7, <2>3, <4>3 DEF HoldsBelieved, HoldsIt, ChannelSet
      <4>4. CASE result[p] = "Success" /\ status = "Error"
          BY <1>1, <1>2, <1>5, <1>7, <2>3, <4>4 DEF HoldsBelieved, HoldsIt, ChannelSet
      <4>5. CASE result[p] # "Success"
          BY <1>1, <1>2, <1>5, <1>7, <2>3, <4>5 DEF HoldsBelieved, HoldsIt, ChannelSet
      <4> QED
          BY <1>5, <2>3, <4>1, <4>2, <4>3, <4>4, <4>5
    <3> QED
        BY <1>7, <1>8, <2>1, <2>3, <3>1 DEF ReallocHolds, InGeneration
  <2> QED
      BY <2>2, <2>3
<1>13. ResetIsAnswered'
    BY <1>1, <1>6, <1>8, <1>9, StillAnswered
<1> QED
    BY <1>1, <1>6, <1>7, <1>8, <1>9, <1>10, <1>12, <1>13, ReallocStep

LEMMA ReallocatedKeeps ==
    ASSUME ChannelInv, NEW p \in Threads, Reallocated(p) PROVE ChannelInv'
<1>1. /\ ChannelTypes /\ pc[p] = "reallocated" /\ pc[p] \in Locking
      /\ pc[p] \in Reallocating /\ fGeneration' = p /\ fLock' = NoChannel
      /\ UNCHANGED <<fBusGeneration, reg, held, others, mishaps, scanDue, fBandwidth, fChannel,
                     oldIRM, allowed, retries, generation, allocated,
                     fAllocatedChannels>>
  <2>1. fGeneration <= p /\ fGeneration \in Int /\ p \in Int
      BY ChannelConstants DEF ChannelInv, ReallocHolds, Reallocated, Reallocating,
                              ChannelTypes, TypeOK
  <2>2. ~(fGeneration > p)
      BY <2>1
  <2> QED
      BY <2>2 DEF ChannelInv, Reallocated, beginVars, envVars, Locking, Reallocating,
                  Unlock, irmVars, Mishap
<1>2. /\ fGeneration <= p /\ p <= fBusGeneration /\ generation[p] = p
      /\ p = fBusGeneration => ~scanDue
      /\ ~fAllocatedChannels => BelievesNothing
      /\ IF InGeneration(p) THEN HoldsBelieved ELSE HoldsNothing
    BY <1>1 DEF ChannelInv, ReallocHolds
<1>3. /\ p \in Procs /\ p \in Nat /\ NoChannel \notin Procs
      /\ \A q \in Procs \ {p} : pc[q] \notin Locking
    BY <1>1, ReallocLabels, OthersWait, ChannelConstants
<1>4. /\ {"none", "release"} \subseteq LabelsOf(p)
      /\ {"none", "release"} \cap Locking = {}
      /\ {"Success", result[p]} \subseteq AllStatuses
    BY <1>1, <1>3, ReallocLabels DEF ChannelTypes, TypeOK
<1>5. Go(p, "release", result[p]) \/ Go(p, "none", "Success")
    BY DEF Reallocated, Jump
<1>6. /\ pc' \in [Procs -> ClientLabels \cup ThreadLabels]
      /\ \A q \in Procs : pc'[q] \in LabelsOf(q)
      /\ result' \in [Procs -> AllStatuses]
      /\ \A q \in Procs \ {p} : pc'[q] = pc[q] /\ result'[q] = result[q]
      /\ pc'[p] \in {"none", "release"}
    BY <1>1, <1>3, <1>4, <1>5, GoTo
<1>7. StepOf(p)
    BY <1>1, <1>3, <1>4, <1>6 DEF StepOf
<1>8. ChannelTypes'
    BY <1>1, <1>2, <1>3, <1>6 DEF ChannelTypes, TypeOK
<1>9. ChannelsConserved'
    BY <1>1 DEF ChannelInv, ChannelsConserved
<1>10. ReallocHolds(p)'
    BY <1>1, <1>2, <1>6 DEF ReallocHolds, Reallocating
<1>11. FreeHolds'
    BY <1>1, <1>2
       DEF FreeHolds, HoldsBelieved, HoldsNothing, HoldsIt, ChannelSet,
           BelievesNothing, InGeneration
<1>12. ResetIsAnswered'
  <2>1. ASSUME fAllocatedChannels, p # fBusGeneration
        PROVE  \/ scanDue'
               \/ /\ fBusGeneration' \in Threads
                  /\ pc'[fBusGeneration'] \in {"realloc"} \cup Reallocating
    <3>1. ~InGeneration(fGeneration) /\ fBusGeneration \in Nat
        BY <1>1, <1>2, <1>3, <2>1, ChannelConstants
           DEF InGeneration, ChannelTypes, TypeOK
    <3> QED
        BY <1>1, <1>6, <2>1, <3>1, ChannelConstants DEF ChannelInv, ResetIsAnswered
  <2> QED
      BY <1>1, <2>1 DEF ResetIsAnswered, InGeneration
<1> QED
    BY <1>1, <1>6, <1>7, <1>8, <1>9, <1>10, <1>11, <1>12, ReallocStep

-----------------------------------------------------------------------------
(* The bus.                                                                *)

LEMMA ChannelBusResetKeeps ==
    ASSUME Undisturbed, ChannelInv, BusReset PROVE ChannelInv'
<1>1. /\ ChannelTypes
      /\ \A p \in Threads : pc[p] # "realloc"
      /\ ~(pc[Client] = "finish" /\ result[Client] = "Success")
      /\ fBusGeneration < MaxGeneration /\ fBusGeneration' = fBusGeneration + 1
      /\ reg' = All /\ held' = Nothing /\ others' = Nothing /\ scanDue' = TRUE
      /\ mishaps' = {}
      /\ UNCHANGED <<fBandwidth, fChannel, fGeneration, fLock, fAllocatedChannels, pc,
                     generation, result, oldIRM, allowed, retries, allocated>>
    BY DEF ChannelInv, BusReset, ResetRegisters, Undisturbed, chanVars, procVars,
           beginVars
<1>2. /\ fBusGeneration \in Nat /\ fBusGeneration >= 1 /\ MaxGeneration \in Nat
      /\ fBusGeneration' \in 1..MaxGeneration /\ fBusGeneration' \in Threads
    BY <1>1, ChannelConstants DEF ChannelTypes, TypeOK, Threads
<1>3. /\ \A p \in Procs : generation[p] \in Nat /\ ~InGeneration(generation[p])'
      /\ fGeneration \in Nat /\ ~InGeneration(fGeneration)'
      /\ generation \in [Procs -> 0..fBusGeneration']
  <2>1. generation \in [Procs -> 0..fBusGeneration] /\ fGeneration \in 0..fBusGeneration
      BY <1>1 DEF ChannelTypes, TypeOK
  <2>2. /\ \A p \in Procs : generation[p] \in 0..fBusGeneration
        /\ 0..fBusGeneration \subseteq 0..fBusGeneration'
      BY <1>1, <1>2, <2>1
  <2> QED
      BY <1>1, <1>2, <2>1, <2>2 DEF InGeneration
<1>4. HoldsNothing'
    BY <1>1 DEF HoldsNothing, HoldsIt, Nothing
<1>5. ChannelTypes'
    BY <1>1, <1>2, <1>3, ChannelConstants DEF ChannelTypes, TypeOK
<1>6. ChannelsConserved'
    BY <1>1, ChannelConstants DEF ChannelsConserved, All, Nothing
<1>7. OneHasTheLock'
    BY <1>1 DEF ChannelInv, OneHasTheLock
<1>8. BeginHolds'
  <2>1. BeginHolds /\ Client \in Procs
      BY ChannelConstants DEF ChannelInv
  <2> QED
      BY <1>1, <1>3, <1>4, <2>1 DEF BeginHolds, BelievesNothing
<1>9. ChannelIsThere'
    BY <1>1, <1>3, ChannelConstants DEF ChannelInv, ChannelIsThere
<1>10. \A p \in Procs : ReleaseHolds(p)'
    BY <1>1, <1>3, <1>4 DEF ChannelInv, ReleaseHolds
<1>11. ASSUME NEW p \in Threads PROVE ReallocHolds(p)'
  <2>1. ReallocHolds(p) /\ p \in Nat /\ p \in Procs
      BY ChannelConstants DEF ChannelInv
  <2>2. pc[p] # "none" => p <= fBusGeneration' /\ p # fBusGeneration'
      BY <1>1, <1>2, <2>1 DEF ReallocHolds
  <2>3. pc[p] \in Reallocating => ~InGeneration(p)'
      BY <1>1, <1>3, <2>1 DEF ReallocHolds, InGeneration
  <2> QED
      BY <1>1, <1>4, <2>1, <2>2, <2>3 DEF ReallocHolds, BelievesNothing
<1>12. FreeHolds'
    BY <1>1, <1>3, <1>4 DEF ChannelInv, FreeHolds, BelievesNothing
<1>13. ResetIsAnswered'
    BY <1>1 DEF ResetIsAnswered
<1> QED
    BY <1>5, <1>6, <1>7, <1>8, <1>9, <1>10, <1>11, <1>12, <1>13 DEF ChannelInv

LEMMA startBusScanKeeps ==
    ASSUME ChannelInv, startBusScan PROVE ChannelInv'
<1>1. /\ ChannelTypes /\ scanDue /\ scanDue' = FALSE
      /\ UNCHANGED <<fBusGeneration, reg, held, others, mishaps, fBandwidth, fChannel,
                     fGeneration, fLock, fAllocatedChannels, result, oldIRM, allowed,
                     retries, allocated>>
    BY DEF ChannelInv, startBusScan, irmVars, chanVars, beginVars
<1> DEFINE g == fBusGeneration
<1>2. /\ g \in Threads /\ g \in Procs /\ g # Client /\ g \in Nat
      /\ pc[g] = "none" /\ fBusGeneration \in 1..MaxGeneration
  <2>1. g \in Threads /\ fBusGeneration \in 1..MaxGeneration
      BY <1>1 DEF ChannelTypes, TypeOK
  <2>2. ReallocHolds(g)
      BY <2>1 DEF ChannelInv
  <2> QED
      BY <1>1, <2>1, <2>2, ReallocLabels DEF ReallocHolds
<1>3. /\ generation' \in [Procs -> 0..fBusGeneration']
      /\ generation'[g] = g
      /\ \A q \in Procs \ {g} : generation'[q] = generation[q]
  <2>1. generation \in [Procs -> 0..fBusGeneration]
      BY <1>1 DEF ChannelTypes, TypeOK
  <2> QED
      BY <1>1, <1>2, <2>1 DEF startBusScan
<1>4. /\ pc' \in [Procs -> ClientLabels \cup ThreadLabels]
      /\ \A q \in Procs : pc'[q] \in LabelsOf(q)
      /\ pc'[g] = IF fAllocatedChannels THEN "realloc" ELSE "none"
      /\ \A q \in Procs \ {g} : pc'[q] = pc[q]
  <2>1. /\ pc \in [Procs -> ClientLabels \cup ThreadLabels]
        /\ \A p \in Procs : pc[p] \in LabelsOf(p)
      BY <1>1 DEF ChannelTypes
  <2>2. "realloc" \in ThreadLabels /\ "realloc" \in LabelsOf(g)
      BY <1>2 DEF ThreadLabels, LabelsOf
  <2> QED
      BY <1>2, <2>1, <2>2 DEF startBusScan
<1>5. pc'[g] \notin Locking
    BY <1>2, <1>4, ReallocLabels
<1>6. ChannelTypes'
    BY <1>1, <1>3, <1>4 DEF ChannelTypes, TypeOK
<1>7. ChannelsConserved'
    BY <1>1 DEF ChannelInv, ChannelsConserved
<1>8. OneHasTheLock'
    BY <1>1, <1>4, <1>5 DEF ChannelInv, OneHasTheLock
<1>9. /\ pc'[Client] = pc[Client] /\ generation'[Client] = generation[Client]
    BY <1>2, <1>3, <1>4, ChannelConstants
<1>10. BeginHolds'
    BY <1>1, <1>9
       DEF ChannelInv, BeginHolds, InGeneration, HoldsBelieved, HoldsNothing,
           HoldsIt, BelievesNothing, ChannelSet
<1>11. ChannelIsThere'
    BY <1>1, <1>9 DEF ChannelInv, ChannelIsThere, InGeneration
<1>12. ASSUME NEW p \in Procs PROVE ReleaseHolds(p)'
  <2>1. CASE p = g
      BY <1>5, <2>1 DEF ReleaseHolds, Releasing, Locking
  <2>2. CASE p # g
      BY <1>1, <1>3, <1>4, <2>2
         DEF ChannelInv, ReleaseHolds, InGeneration, HoldsBelieved, HoldsNothing,
             HoldsIt, ChannelSet
  <2> QED
      BY <2>1, <2>2
<1>13. ASSUME NEW p \in Threads PROVE ReallocHolds(p)'
  <2>1. CASE p = g
      BY <1>1, <1>2, <1>3, <1>4, <2>1 DEF ReallocHolds, Reallocating
  <2>2. CASE p # g
    <3>1. pc'[p] = pc[p] /\ generation'[p] = generation[p] /\ ReallocHolds(p)
        BY <1>3, <1>4, <2>2, ReallocLabels DEF ChannelInv
    <3> QED
        BY <1>1, <2>2, <3>1
           DEF ReallocHolds, InGeneration, HoldsBelieved, HoldsNothing, HoldsIt,
               BelievesNothing, ChannelSet
  <2> QED
      BY <2>1, <2>2
<1>14. FreeHolds'
  <2>1. (\A p \in Procs : pc'[p] \notin Locking) => \A p \in Procs : pc[p] \notin Locking
      BY <1>2, <1>4, ReallocLabels
  <2> QED
      BY <1>1, <2>1
         DEF ChannelInv, FreeHolds, HoldsBelieved, HoldsNothing, HoldsIt,
             BelievesNothing, ChannelSet, InGeneration
<1>15. ResetIsAnswered'
    BY <1>1, <1>2, <1>4 DEF ResetIsAnswered
<1> QED
    BY <1>6, <1>7, <1>8, <1>10, <1>11, <1>12, <1>13, <1>14, <1>15 DEF ChannelInv

(* The other nodes change only what is available and what they have.       *)
LEMMA OtherNodesMove ==
    ASSUME reg \in Registers, others \in Registers, ChannelsConserved,
           OtherNodesClaim \/ OtherNodesRelease, UNCHANGED mishaps
    PROVE  /\ reg' \in Registers /\ others' \in Registers
           /\ UNCHANGED <<fBusGeneration, held>>
           /\ ChannelsConserved'
<1>0. /\ OthersWant.channels \subseteq Channels /\ OthersWant.bandwidth \in Int
      /\ reg.bandwidth \in Int /\ others.bandwidth \in Int
      /\ reg.channels \subseteq Channels /\ others.channels \subseteq Channels
    BY ChannelConstants DEF Registers
<1>1. ASSUME NEW new \in Int, OtherSwaps("bandwidth", new)
      PROVE  /\ reg' \in Registers /\ others' \in Registers
             /\ UNCHANGED <<fBusGeneration, held>>
             /\ ChannelsConserved'
  <2>1. /\ reg' = [reg EXCEPT !["bandwidth"] = new]
        /\ others' = [others EXCEPT !["bandwidth"] =
                         others.bandwidth + reg.bandwidth - new]
        /\ UNCHANGED <<fBusGeneration, held>>
      BY <1>1 DEF OtherSwaps, Balance, Registers
  <2>2. /\ reg' \in Registers /\ others' \in Registers
        /\ reg'.channels = reg.channels /\ others'.channels = others.channels
      BY <1>0, <1>1, <2>1 DEF Registers
  <2> QED
      BY <2>1, <2>2 DEF ChannelsConserved
<1>2. ASSUME NEW new \in SUBSET Channels, OtherSwaps("channels", new)
      PROVE  /\ reg' \in Registers /\ others' \in Registers
             /\ UNCHANGED <<fBusGeneration, held>>
             /\ reg'.channels = new
             /\ others'.channels = (others.channels \cup (reg.channels \ new))
                                      \ (new \ reg.channels)
  <2>1. /\ reg' = [reg EXCEPT !["channels"] = new]
        /\ others' = [others EXCEPT !["channels"] =
                         (others.channels \cup (reg.channels \ new))
                            \ (new \ reg.channels)]
        /\ UNCHANGED <<fBusGeneration, held>>
      BY <1>2 DEF OtherSwaps, Balance, Registers
  <2> QED
      BY <1>0, <1>2, <2>1 DEF Registers
<1>3. CASE OtherNodesClaim
  <2>1. CASE OtherSwaps("bandwidth", reg.bandwidth - OthersWant.bandwidth)
      BY <1>0, <1>1, <2>1
  <2>2. ASSUME NEW c \in OthersWant.channels \cap reg.channels,
               OtherSwaps("channels", reg.channels \ {c})
        PROVE  /\ reg' \in Registers /\ others' \in Registers
               /\ UNCHANGED <<fBusGeneration, held>>
               /\ ChannelsConserved'
    <3>1. reg.channels \ {c} \in SUBSET Channels
        BY <1>0
    <3>2. /\ reg' \in Registers /\ others' \in Registers
          /\ UNCHANGED <<fBusGeneration, held>>
          /\ reg'.channels = reg.channels \ {c}
          /\ others'.channels = others.channels \cup {c}
        BY <1>0, <1>2, <2>2, <3>1
    <3> QED
        BY <2>2, <3>2 DEF ChannelsConserved
  <2> QED
      BY <1>3, <2>1, <2>2 DEF OtherNodesClaim
<1>4. CASE OtherNodesRelease
  <2>1. CASE OtherSwaps("bandwidth", reg.bandwidth + others.bandwidth)
      BY <1>0, <1>1, <2>1
  <2>2. ASSUME NEW c \in others.channels,
               OtherSwaps("channels", reg.channels \cup {c})
        PROVE  /\ reg' \in Registers /\ others' \in Registers
               /\ UNCHANGED <<fBusGeneration, held>>
               /\ ChannelsConserved'
    <3>1. reg.channels \cup {c} \in SUBSET Channels
        BY <1>0, <2>2
    <3>2. /\ reg' \in Registers /\ others' \in Registers
          /\ UNCHANGED <<fBusGeneration, held>>
          /\ reg'.channels = reg.channels \cup {c}
          /\ others'.channels = others.channels \ ({c} \ reg.channels)
        BY <1>0, <1>2, <2>2, <3>1
    <3> QED
        BY <2>2, <3>2 DEF ChannelsConserved
  <2> QED
      BY <1>4, <2>1, <2>2 DEF OtherNodesRelease
<1> QED
    BY <1>3, <1>4

LEMMA ChannelOtherNodesKeeps ==
    ASSUME Undisturbed, ChannelInv, OtherNodes PROVE ChannelInv'
<1>1. /\ ChannelTypes
      /\ OtherNodesClaim \/ OtherNodesRelease
      /\ pc[Client] \in {"bandwidth", "channel"} => reg'.channels = reg.channels
      /\ UNCHANGED <<mishaps, fBandwidth, fChannel, fGeneration, fLock, fAllocatedChannels,
                     scanDue, pc, generation, result, oldIRM, allowed, retries,
                     allocated>>
    BY DEF ChannelInv, OtherNodes, Undisturbed, chanVars, procVars, beginVars, envVars
<1>2. /\ reg' \in Registers /\ others' \in Registers
      /\ UNCHANGED <<fBusGeneration, held>>
      /\ ChannelsConserved'
    BY <1>1, OtherNodesMove DEF ChannelTypes, TypeOK, ChannelInv
<1>3. ChannelTypes' /\ OneHasTheLock'
    BY <1>1, <1>2 DEF ChannelInv, ChannelTypes, TypeOK, OneHasTheLock
<1>4. BeginHolds'
    BY <1>1, <1>2
       DEF ChannelInv, BeginHolds, InGeneration, HoldsBelieved, HoldsNothing,
           HoldsIt, BelievesNothing, ChannelSet
<1>5. ChannelIsThere'
    BY <1>1, <1>2 DEF ChannelInv, ChannelIsThere, InGeneration
<1>6. \A p \in Procs : ReleaseHolds(p)'
    BY <1>1, <1>2
       DEF ChannelInv, ReleaseHolds, InGeneration, HoldsBelieved, HoldsNothing,
           HoldsIt, ChannelSet
<1>7. ASSUME NEW p \in Threads PROVE ReallocHolds(p)'
  <2>1. ReallocHolds(p)
      BY DEF ChannelInv
  <2> QED
      BY <1>1, <1>2, <2>1
         DEF ReallocHolds, InGeneration, HoldsBelieved, HoldsNothing,
             HoldsIt, BelievesNothing, ChannelSet
<1>8. FreeHolds' /\ ResetIsAnswered'
    BY <1>1, <1>2
       DEF ChannelInv, FreeHolds, ResetIsAnswered, InGeneration, HoldsBelieved,
           HoldsNothing, HoldsIt, BelievesNothing, ChannelSet
<1> QED
    BY <1>2, <1>3, <1>4, <1>5, <1>6, <1>7, <1>8 DEF ChannelInv

-----------------------------------------------------------------------------
LEMMA ChannelInvInit == ASSUME Init PROVE ChannelInv
<1>1. /\ fBusGeneration = 1 /\ reg = All /\ held = Nothing /\ others = Nothing
      /\ fBandwidth = 0 /\ fChannel = NoChannel /\ fGeneration = 0
      /\ fLock = NoChannel /\ fAllocatedChannels = FALSE /\ scanDue = FALSE
      /\ pc = [p \in Procs |-> "none"] /\ generation = [p \in Procs |-> 0]
      /\ result = [p \in Procs |-> "Success"]
      /\ oldIRM = Nothing /\ allowed = {} /\ retries = 0 /\ allocated = FALSE
      /\ mishaps = {}
    BY DEF Init, IRMInit
<1>2. /\ \A p \in Procs : pc[p] = "none" /\ pc[p] \notin Locking
      /\ Client \in Procs /\ Threads \subseteq Procs
      /\ \A p \in Procs : "none" \in LabelsOf(p)
    BY <1>1, ReleaseLabels, ChannelConstants
<1>3. ChannelTypes
  <2>1. /\ fBusGeneration \in 1..MaxGeneration /\ fGeneration \in 0..fBusGeneration
        /\ reg \in Registers /\ held \in Registers /\ others \in Registers
        /\ oldIRM \in Registers /\ retries \in 0..DelayRetries
      BY <1>1, ChannelConstants
  <2>2. /\ generation \in [Procs -> 0..fBusGeneration]
        /\ result \in [Procs -> AllStatuses]
        /\ pc \in [Procs -> ClientLabels \cup ThreadLabels]
      BY <1>1, <2>1 DEF ClientLabels, AllStatuses
  <2> QED
      BY <1>1, <1>2, <2>1, <2>2 DEF ChannelTypes, TypeOK
<1>4. ChannelsConserved /\ HoldsNothing /\ BelievesNothing
    BY <1>1, ChannelConstants
       DEF ChannelsConserved, HoldsNothing, HoldsIt, BelievesNothing, All, Nothing
<1>5. OneHasTheLock /\ BeginHolds /\ ChannelIsThere
    BY <1>1, <1>2 DEF OneHasTheLock, BeginHolds, ChannelIsThere, Beginning
<1>6. \A p \in Procs : ReleaseHolds(p)
    BY <1>2 DEF ReleaseHolds, Releasing
<1>7. \A p \in Threads : ReallocHolds(p)
    BY <1>2 DEF ReallocHolds, Reallocating
<1>8. FreeHolds /\ ResetIsAnswered
    BY <1>1, <1>4 DEF FreeHolds, ResetIsAnswered, InGeneration
<1> QED
    BY <1>3, <1>4, <1>5, <1>6, <1>7, <1>8 DEF ChannelInv

LEMMA ChannelInvStep ==
    ASSUME Undisturbed, ChannelInv, [Next]_vars PROVE ChannelInv'
<1>1. CASE allocateChannel BY <1>1, allocateChannelKeeps
<1>2. CASE releaseChannel BY <1>2, releaseChannelKeeps
<1>3. CASE Begin
    BY <1>3, DelayKeeps, ReadIRMKeeps, ClaimBandwidthKeeps, ClaimChannelKeeps,
       GiveBackKeeps, FinishBeginKeeps, AllocatePortsKeeps DEF Begin
<1>4. ASSUME NEW p \in Procs, Release(p) PROVE ChannelInv'
    BY <1>4, UnregisterKeeps, CheckGenerationKeeps, ReleaseBandwidthKeeps,
       ReleaseChannelKeeps DEF Release
<1>5. ASSUME NEW p \in Threads, Realloc(p) PROVE ChannelInv'
    BY <1>5, reallocBandwidthKeeps, ReallocBandwidthKeeps, ReallocChannelKeeps,
       ReallocatedKeeps DEF Realloc
<1>6. CASE BusReset BY <1>6, ChannelBusResetKeeps
<1>7. CASE startBusScan BY <1>7, startBusScanKeeps
<1>8. CASE OtherNodes BY <1>8, ChannelOtherNodesKeeps
<1>9. CASE UNCHANGED vars
  <2>1. UNCHANGED <<fBusGeneration, reg, held, others, mishaps, fBandwidth, fChannel, fGeneration,
                    fLock, fAllocatedChannels, scanDue, pc, generation, result, oldIRM,
                    allowed, retries, allocated>>
      BY <1>9 DEF vars, irmVars, chanVars, envVars, procVars, beginVars
  <2>2. ChannelTypes' /\ ChannelsConserved' /\ OneHasTheLock' /\ ChannelIsThere'
      BY <2>1 DEF ChannelInv, ChannelTypes, TypeOK, ChannelsConserved, OneHasTheLock,
                  ChannelIsThere, InGeneration
  <2>3. BeginHolds' /\ \A p \in Procs : ReleaseHolds(p)'
      BY <2>1
         DEF ChannelInv, BeginHolds, ReleaseHolds, InGeneration, HoldsBelieved,
             HoldsNothing, HoldsIt, BelievesNothing, ChannelSet
  <2>4. ASSUME NEW p \in Threads PROVE ReallocHolds(p)'
    <3>1. ReallocHolds(p)
        BY DEF ChannelInv
    <3> QED
        BY <2>1, <3>1
           DEF ReallocHolds, InGeneration, HoldsBelieved, HoldsNothing,
               HoldsIt, BelievesNothing, ChannelSet
  <2>5. FreeHolds' /\ ResetIsAnswered'
      BY <2>1
         DEF ChannelInv, FreeHolds, ResetIsAnswered, InGeneration, HoldsBelieved,
             HoldsNothing, HoldsIt, BelievesNothing, ChannelSet
  <2> QED
      BY <2>2, <2>3, <2>4, <2>5 DEF ChannelInv
<1> QED
    BY <1>1, <1>2, <1>3, <1>4, <1>5, <1>6, <1>7, <1>8, <1>9 DEF Next

(* What is held in each state, and when all is quiet.                      *)
LEMMA ChannelInvImplies ==
    ASSUME ChannelInv PROVE HoldsWhatItBelieves
<1>1. TypeOK /\ (mishaps = {} => reg.channels \cap others.channels = {})
    BY DEF ChannelInv, ChannelTypes, ChannelsConserved
<1>2. ASSUME mishaps = {} PROVE held.bandwidth >= 0
  <2>0. /\ bandwidth \in Nat /\ fBandwidth \in {0, bandwidth} /\ Client \in Procs
        /\ fBandwidth >= 0
      BY <1>1, ChannelConstants DEF TypeOK
  <2>1. CASE \A p \in Procs : pc[p] \notin Locking
      BY <1>2, <2>0, <2>1
         DEF ChannelInv, FreeHolds, HoldsBelieved, HoldsNothing, HoldsIt
  <2>2. CASE pc[Client] \in Beginning
      BY <1>2, <2>0, <2>2
         DEF ChannelInv, BeginHolds, Beginning, HoldsBelieved, HoldsNothing, HoldsIt
  <2>3. ASSUME NEW p \in Procs, pc[p] \in Releasing PROVE held.bandwidth >= 0
      BY <1>2, <2>0, <2>3
         DEF ChannelInv, ReleaseHolds, Releasing, HoldsBelieved, HoldsNothing, HoldsIt
  <2>4. ASSUME NEW p \in Threads, pc[p] \in Reallocating PROVE held.bandwidth >= 0
    <3>1. ReallocHolds(p)
        BY DEF ChannelInv
    <3>2. HoldsNothing \/ HoldsIt(fBandwidth, {}) \/ HoldsBelieved
        BY <2>4, <3>1 DEF ReallocHolds
    <3> QED
        BY <1>2, <2>0, <3>2 DEF HoldsBelieved, HoldsNothing, HoldsIt
  <2>5. ASSUME NEW p \in Procs, pc[p] \in Locking
        PROVE  \/ p = Client /\ pc[p] \in Beginning
               \/ pc[p] \in Releasing
               \/ p \in Threads /\ pc[p] \in Reallocating
    <3>1. pc[p] \in LabelsOf(p) /\ (p = Client \/ p \in Threads) /\ Client \notin Threads
        BY ChannelConstants DEF ChannelInv, ChannelTypes
    <3> QED
        BY <2>5, <3>1
           DEF LabelsOf, ClientLabels, ThreadLabels, Locking, Beginning, Releasing,
               Reallocating
  <2> QED
      BY <2>1, <2>2, <2>3, <2>4, <2>5
<1>3. BelievesWhatItHolds
  <2>1. SUFFICES ASSUME Quiet
                 PROVE  /\ held.bandwidth <= fBandwidth
                        /\ mishaps = {} => held = Believed
      BY DEF BelievesWhatItHolds
  <2>2. /\ ~scanDue /\ \A p \in Procs : pc[p] = "none" /\ pc[p] \notin Locking
      BY <2>1, ReleaseLabels DEF Quiet
  <2>3. HoldsBelieved
    <3>1. CASE InGeneration(fGeneration)
        BY <2>2, <3>1 DEF ChannelInv, FreeHolds
    <3>2. CASE ~InGeneration(fGeneration)
      <4>1. fBusGeneration \in Threads => pc[fBusGeneration] = "none"
          BY <2>2, ChannelConstants
      <4>2. ~fAllocatedChannels
          BY <2>2, <3>2, <4>1 DEF ChannelInv, ResetIsAnswered, Reallocating
      <4> QED
          BY <2>2, <3>2, <4>2
             DEF ChannelInv, FreeHolds, BelievesNothing, HoldsNothing, HoldsBelieved,
                 ChannelSet
    <3> QED
        BY <3>1, <3>2
  <2>4. held = [bandwidth |-> held.bandwidth, channels |-> held.channels]
      BY <1>1 DEF TypeOK, Registers
  <2> QED
      BY <2>3, <2>4 DEF Believed, HoldsBelieved, HoldsIt, ChannelSet
<1> QED
    BY <1>1, <1>2, <1>3 DEF HoldsWhatItBelieves, OthersKeepTheirs

(* The channel in the kernel, through every bus reset, failed claim and    *)
(* move of the other nodes, gives back only what it has taken, and when-   *)
(* ever nothing is under way it holds in the IRM what it believes to hold. *)
(* A transaction of a reallocation that ends in an error leaves it with    *)
(* less, and what it then gives back may be another node's; the next reset *)
(* mends both. For any number of resets, any bandwidth and any channels,   *)
(* as long as one channel its ports allow is left alone by the other       *)
(* nodes, a thread takes the lock before the next reset, and no reset      *)
(* comes between a claim and its registration.                             *)
THEOREM ChannelHoldsWhatItBelieves ==
    ASSUME Undisturbed PROVE Spec => []HoldsWhatItBelieves
<1>1. Init => ChannelInv
    BY ChannelInvInit
<1>2. ChannelInv /\ [Next]_vars => ChannelInv'
    BY ChannelInvStep
<1>3. ChannelInv => HoldsWhatItBelieves
    BY ChannelInvImplies
<1> QED
    BY <1>1, <1>2, <1>3, PTL DEF Spec
=============================================================================
