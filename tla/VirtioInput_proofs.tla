------------------------- MODULE VirtioInput_proofs -------------------------
(***************************************************************************)
(* Proofs about the input queues for every queue size, every width of the  *)
(* ring indices that the queue sizes divide, every size of the key ring    *)
(* and whatever the devices send.                                          *)
(***************************************************************************)
EXTENDS VirtioInput, FiniteSetTheorems, SequenceTheorems, TLAPS

-----------------------------------------------------------------------------
(* The inductive invariant.                                                  *)

Desc == [addr : Int, next : Int]
Elem(n) == [id : 0 .. n - 1, full : BOOLEAN]

Queue(n) ==
    [num : {n}, desc : [0 .. n - 1 -> Desc], free_head : Int,
     avail : [idx : 0 .. IndexModulus - 1, ring : [0 .. n - 1 -> 0 .. n - 1]],
     used : [idx : 0 .. IndexModulus - 1, ring : [0 .. n - 1 -> Elem(n)]],
     last_used : 0 .. IndexModulus - 1, taken : 0 .. IndexModulus - 1]

IsSeq(s) == \E S : s \in Seq(S)

PcTyped ==
    \/ pc.at = "refill" /\ pc.dev \in Devs /\ pc.n \in Nat
    \/ pc.at \in {"drain", "push"} /\ pc.dev \in Devs
    \/ pc.at \in {"pop", "uart"}

Typed ==
    /\ q = [d \in Devs |-> q[d]]
    /\ \A d \in Devs : q[d] = NoQueue \/ q[d] \in Queue(q[d].num)
    /\ bufs = [d \in Devs |-> bufs[d]] /\ \A d \in Devs : DOMAIN bufs[d] = 0 .. EVENT_BUF_COUNT - 1
    /\ sent = [d \in Devs |-> sent[d]] /\ \A d \in Devs : IsSeq(sent[d])
    /\ PcTyped

\* How many buffers refill_event_queue has given to d so far.
Given(d) ==
    IF pc.at # "refill" THEN q[d].num
    ELSE IF pc.dev = d THEN IF pc.n < q[d].num THEN pc.n ELSE q[d].num
    ELSE IF d = "kbd" THEN q[d].num ELSE 0

\* Descriptors lo and up are free, in this order.
FreeFrom(r, lo) ==
    /\ r.free_head = IF lo < r.num THEN lo ELSE NoDesc
    /\ \A i \in lo .. r.num - 1 : r.desc[i].next = IF i = r.num - 1 THEN NoDesc ELSE i + 1

Outstanding(r) == Distance(r.last_used, r.avail.idx)
Completed(r) == Distance(r.last_used, r.used.idx)

\* The rings go round in step with the descriptors: entry i of either holds i.
RingsInStep(r, given) ==
    /\ r.taken = r.used.idx
    /\ Completed(r) <= Outstanding(r) /\ Outstanding(r) <= r.num
    /\ \A i \in 0 .. given - 1 : r.avail.ring[i] = i /\ r.desc[i].addr = i
    /\ \A k \in 0 .. Completed(r) - 1 :
          r.used.ring[(r.last_used + k) % r.num].id = (r.last_used + k) % r.num

\* Where the buffers are that are not outstanding.
Held(d) ==
    IF pc.at = "refill"
    THEN /\ q[d].last_used = 0 /\ q[d].avail.idx = Given(d) /\ FreeFrom(q[d], Given(d))
    ELSE IF pc.at = "push" /\ pc.dev = d
    THEN /\ Outstanding(q[d]) = q[d].num - 1
         /\ pc.n = q[d].avail.idx % q[d].num
         /\ q[d].free_head = pc.n /\ q[d].desc[pc.n].next = NoDesc
    ELSE Outstanding(q[d]) = q[d].num /\ q[d].free_head = NoDesc

\* The buffers still to be handled hold the events that were sent.
Kept(d) ==
    /\ Len(sent[d]) = Completed(q[d])
    /\ \A k \in 0 .. Completed(q[d]) - 1 :
          bufs[d][(q[d].last_used + k) % q[d].num] = sent[d][k + 1]

QueueInv(d) ==
    /\ q[d].num \in 1 .. VIRTQ_SIZE /\ IndexModulus % q[d].num = 0
    /\ RingsInStep(q[d], Given(d))
    /\ Held(d)
    /\ Kept(d)

\* A device that is drained or handled is there.
PushActive == pc.at = "push" => Active(pc.dev)

KeyInv ==
    /\ key_ring_head \in 0 .. KEY_RING_SIZE - 1 /\ key_ring_tail \in 0 .. KEY_RING_SIZE - 1
    /\ DOMAIN key_ring = 0 .. KEY_RING_SIZE - 1
    /\ IsSeq(typed)
    /\ RingIsFifo

InputInv ==
    /\ Typed
    /\ PushActive
    /\ \A d \in Devs : Active(d) => QueueInv(d)

-----------------------------------------------------------------------------
(* Arithmetic of ring indices.                                               *)

(* The remainder is a position of the ring. *)
LEMMA ModRange ==
    ASSUME NEW s \in Nat \ {0}, NEW x \in Int
    PROVE  x % s \in 0 .. s - 1 /\ x \div s \in Int /\ x = s * (x \div s) + (x % s)
OBVIOUS

(* It is the only one that fits. *)
LEMMA ModUnique ==
    ASSUME NEW s \in Nat \ {0}, NEW r \in 0 .. s - 1, NEW c \in Int
    PROVE  (c * s + r) % s = r
OBVIOUS

(* Positions repeat after a round. *)
LEMMA ModRound ==
    ASSUME NEW s \in Nat \ {0}, NEW x \in Int, NEW c \in Int
    PROVE  (x + c * s) % s = x % s
<1> DEFINE r == x % s
           d == x \div s
<1>1. r \in 0 .. s - 1 /\ d \in Int /\ x = s * d + r
  BY ModRange
<1> HIDE DEF r, d
<1>2. x + c * s = (d + c) * s + r /\ d + c \in Int
  BY <1>1
<1>3. ((d + c) * s + r) % s = r
  BY <1>1, <1>2, ModUnique
<1> QED
  BY <1>2, <1>3 DEF r

(* Within a round they do not. *)
LEMMA ModInj ==
    ASSUME NEW s \in Nat \ {0}, NEW a \in Int, NEW j \in 0 .. s - 1, NEW k \in 0 .. s - 1,
           (a + j) % s = (a + k) % s
    PROVE  j = k
<1> DEFINE x == (a + j) \div s
           y == (a + k) \div s
           r == (a + j) % s
<1>1. a + j \in Int /\ a + k \in Int
  OBVIOUS
<1>2. x \in Int /\ a + j = s * x + r /\ y \in Int /\ a + k = s * y + r /\ r \in 0 .. s - 1
  BY <1>1, ModRange
<1> HIDE DEF x, y, r
<1>3. j - k = s * (x - y)
  BY <1>2
<1>4. j - k < s /\ j - k > -s
  OBVIOUS
<1>5. x - y = 0
  <2>1. CASE x - y >= 1
    <3>1. s * (x - y) >= s
      BY <1>2, <2>1
    <3> QED
      BY <1>3, <1>4, <3>1
  <2>2. CASE x - y <= -1
    <3>1. s * (x - y) <= -s
      BY <1>2, <2>2
    <3> QED
      BY <1>3, <1>4, <3>1
  <2> QED
    BY <1>2, <2>1, <2>2
<1> QED
  BY <1>3, <1>5

(* A round reaches all positions. *)
LEMMA ModCover ==
    ASSUME NEW s \in Nat \ {0}, NEW a \in Int, NEW r \in 0 .. s - 1
    PROVE  \E k \in 0 .. s - 1 : (a + k) % s = r
<1> DEFINE k == (r - a) % s
           c == (r - a) \div s
<1>1. r - a \in Int
  OBVIOUS
<1>2. k \in 0 .. s - 1 /\ c \in Int /\ r - a = s * c + k
  BY <1>1, ModRange
<1> HIDE DEF k, c
<1>3. a + k = (-c) * s + r /\ -c \in Int
  BY <1>2
<1>4. ((-c) * s + r) % s = r
  BY <1>3, ModUnique
<1> QED
  BY <1>2, <1>3, <1>4

(* A counter modulo m goes up by one, or from the last value to zero. *)
LEMMA StepMod ==
    ASSUME NEW m \in Nat \ {0}, NEW a \in 0 .. m - 1
    PROVE  (a + 1) % m = IF a + 1 = m THEN 0 ELSE a + 1
<1>1. CASE a + 1 = m
  <2>1. a + 1 = 1 * m + 0 /\ (1 * m + 0) % m = 0
    BY <1>1, ModUnique
  <2> QED
    BY <1>1, <2>1
<1>2. CASE a + 1 # m
  <2>1. a + 1 \in 0 .. m - 1
    BY <1>2
  <2>2. (a + 1) % m = a + 1
    BY <2>1
  <2> QED
    BY <1>2, <2>2
<1> QED
  BY <1>1, <1>2

(* The gap between two such counters. *)
LEMMA GapMod ==
    ASSUME NEW m \in Nat \ {0}, NEW a \in 0 .. m - 1, NEW b \in 0 .. m - 1
    PROVE  (b - a + m) % m = IF b >= a THEN b - a ELSE b - a + m
<1>1. CASE b >= a
  <2>1. b - a \in 0 .. m - 1
    BY <1>1
  <2>2. b - a + m = 1 * m + (b - a)
    BY <2>1
  <2>3. (1 * m + (b - a)) % m = b - a
    BY <2>1, <2>2, ModUnique
  <2> QED
    BY <1>1, <2>2, <2>3
<1>2. CASE ~ (b >= a)
  <2>1. b - a + m \in 0 .. m - 1
    BY <1>2
  <2>2. (b - a + m) % m = b - a + m
    BY <2>1
  <2> QED
    BY <1>2, <2>2
<1> QED
  BY <1>1, <1>2

Index16 == 0 .. IndexModulus - 1

(* An index of the rings advances. *)
LEMMA AdvanceFacts ==
    ASSUME NEW a \in Index16
    PROVE  Advance(a) \in Index16 /\ Advance(a) = IF a + 1 = IndexModulus THEN 0 ELSE a + 1
<1>1. IndexModulus \in Nat \ {0} /\ a \in 0 .. IndexModulus - 1
  BY VirtqAssumption DEF Index16
<1>2. (a + 1) % IndexModulus = IF a + 1 = IndexModulus THEN 0 ELSE a + 1
  BY <1>1, StepMod
<1> QED
  BY <1>1, <1>2 DEF Advance, Index16

(* The distance of two indices, across the end of the range if need be. *)
LEMMA DistanceFacts ==
    ASSUME NEW a \in Index16, NEW b \in Index16
    PROVE  /\ Distance(a, b) \in Index16
           /\ Distance(a, b) = IF b >= a THEN b - a ELSE b - a + IndexModulus
<1>1. /\ IndexModulus \in Nat \ {0} /\ a \in 0 .. IndexModulus - 1
      /\ b \in 0 .. IndexModulus - 1
  BY VirtqAssumption DEF Index16
<1>2. (b - a + IndexModulus) % IndexModulus = IF b >= a THEN b - a ELSE b - a + IndexModulus
  BY <1>1, GapMod
<1> QED
  BY <1>1, <1>2 DEF Distance, Index16

(* The distance from the first index. *)
LEMMA DistanceFromZero ==
    ASSUME NEW a \in Index16, NEW b \in Index16, a = 0
    PROVE  Distance(a, b) = b
<1>1. Distance(a, b) = IF b >= a THEN b - a ELSE b - a + IndexModulus
  BY DistanceFacts
<1>2. b \in Int /\ b >= 0
  BY VirtqAssumption DEF Index16
<1> QED
  BY <1>1, <1>2

(* Advancing the front or the back of a stretch of the ring. *)
LEMMA DistanceAdvance ==
    ASSUME NEW a \in Index16, NEW b \in Index16
    PROVE  /\ Distance(a, b) + 1 < IndexModulus => Distance(a, Advance(b)) = Distance(a, b) + 1
           /\ a # b => Distance(a, b) > 0 /\ Distance(Advance(a), b) = Distance(a, b) - 1
           /\ a = b => Distance(a, b) = 0
<1>1. IndexModulus \in Nat \ {0}
  BY VirtqAssumption
<1>2. /\ Advance(a) \in Index16 /\ Advance(a) = IF a + 1 = IndexModulus THEN 0 ELSE a + 1
      /\ Advance(b) \in Index16 /\ Advance(b) = IF b + 1 = IndexModulus THEN 0 ELSE b + 1
  BY AdvanceFacts
<1>3. Distance(a, b) = IF b >= a THEN b - a ELSE b - a + IndexModulus
  BY DistanceFacts
<1>4. Distance(a, Advance(b)) = IF Advance(b) >= a THEN Advance(b) - a ELSE Advance(b) - a + IndexModulus
  BY <1>2, DistanceFacts
<1>5. Distance(Advance(a), b) = IF b >= Advance(a) THEN b - Advance(a) ELSE b - Advance(a) + IndexModulus
  BY <1>2, DistanceFacts
<1>6. a \in Int /\ b \in Int /\ a >= 0 /\ a < IndexModulus /\ b >= 0 /\ b < IndexModulus
  BY <1>1 DEF Index16
<1>7. Distance(a, b) + 1 < IndexModulus => Distance(a, Advance(b)) = Distance(a, b) + 1
  BY <1>1, <1>2, <1>3, <1>4, <1>6
<1>8. a # b => Distance(a, b) > 0 /\ Distance(Advance(a), b) = Distance(a, b) - 1
  BY <1>1, <1>2, <1>3, <1>5, <1>6
<1>9. a = b => Distance(a, b) = 0
  BY <1>3, <1>6
<1> QED
  BY <1>7, <1>8, <1>9

(* Positions in a ring whose size divides the range of the indices: wrapping *)
(* an index does not change where it points.                                 *)
LEMMA WrapKeepsPlace ==
    ASSUME NEW s \in Nat \ {0}, IndexModulus % s = 0, NEW a \in Index16, NEW b \in Index16
    PROVE  /\ \A k \in Nat : (Advance(a) + k) % s = (a + (k + 1)) % s
           /\ (a + Distance(a, b)) % s = b % s
           /\ \A k \in Nat : (b + k) % s = (a + (Distance(a, b) + k)) % s
<1> DEFINE M == IndexModulus
           c == M \div s
<1>1. M \in Nat \ {0} /\ a \in Int /\ b \in Int
  BY VirtqAssumption DEF Index16
<1>2. c \in Int /\ M = c * s
  BY <1>1, ModRange
<1> HIDE DEF c
<1>3. ASSUME NEW k \in Nat PROVE (Advance(a) + k) % s = (a + (k + 1)) % s
  <2>1. CASE a + 1 = M
    <3>1. Advance(a) = 0
      BY <2>1, AdvanceFacts
    <3>2. a + (k + 1) = k + c * s
      BY <1>1, <1>2, <2>1
    <3>3. (k + c * s) % s = k % s
      <4>1. k \in Int
        OBVIOUS
      <4> QED
        BY <1>2, <4>1, ModRound, Zenon
    <3>4. 0 + k = k
      OBVIOUS
    <3> HIDE DEF M
    <3> QED
      BY <3>1, <3>2, <3>3, <3>4, Zenon
  <2>2. CASE a + 1 # M
    <3>1. Advance(a) = a + 1
      BY <2>2, AdvanceFacts
    <3>2. Advance(a) + k = a + (k + 1)
      BY <1>1, <3>1
    <3> QED
      BY <3>2
  <2> QED
    BY <2>1, <2>2
<1>4. ASSUME NEW k \in Nat PROVE (b + k) % s = (a + (Distance(a, b) + k)) % s
  <2>1. Distance(a, b) = IF b >= a THEN b - a ELSE b - a + M
    BY DistanceFacts
  <2>2. CASE b >= a
    <3>1. a + (Distance(a, b) + k) = b + k
      BY <1>1, <2>1, <2>2
    <3> QED
      BY <3>1
  <2>3. CASE ~ (b >= a)
    <3>1. a + (Distance(a, b) + k) = (b + k) + c * s
      BY <1>1, <1>2, <2>1, <2>3
    <3>2. ((b + k) + c * s) % s = (b + k) % s
      <4>1. b + k \in Int
        BY <1>1
      <4> QED
        BY <1>2, <4>1, ModRound, Zenon
    <3> QED
      BY <3>1, <3>2, Zenon
  <2> QED
    BY <2>2, <2>3
<1>5. (a + Distance(a, b)) % s = b % s
  <2>1. Distance(a, b) \in Int
    BY <1>1, DistanceFacts DEF Index16
  <2>2. b + 0 = b /\ Distance(a, b) + 0 = Distance(a, b)
    BY <1>1, <2>1
  <2>3. (b + 0) % s = (a + (Distance(a, b) + 0)) % s
    BY <1>4
  <2> QED
    BY <2>2, <2>3
<1> QED
  BY <1>3, <1>4, <1>5

-----------------------------------------------------------------------------
(* The key ring.                                                             *)

(* Appending to a sequence and dropping its first element. *)
LEMMA SeqSteps ==
    ASSUME NEW t, IsSeq(t)
    PROVE  /\ Len(t) \in Nat
           /\ \A x : /\ IsSeq(Append(t, x)) /\ Len(Append(t, x)) = Len(t) + 1
                     /\ \A i \in 1 .. Len(t) : Append(t, x)[i] = t[i]
                     /\ Append(t, x)[Len(t) + 1] = x
           /\ Len(t) > 0 => /\ IsSeq(Tail(t)) /\ Len(Tail(t)) = Len(t) - 1
                            /\ \A i \in 1 .. Len(t) - 1 : Tail(t)[i] = t[i + 1]
<1>1. PICK S : t \in Seq(S)
  BY DEF IsSeq
<1>2. Len(t) \in Nat
  BY <1>1, LenProperties
<1>3. ASSUME NEW x
      PROVE  /\ IsSeq(Append(t, x)) /\ Len(Append(t, x)) = Len(t) + 1
             /\ \A i \in 1 .. Len(t) : Append(t, x)[i] = t[i]
             /\ Append(t, x)[Len(t) + 1] = x
  <2> DEFINE T == S \cup {x}
  <2>1. t \in Seq(T) /\ x \in T
    BY <1>1, SeqMonotonic
  <2> HIDE DEF T
  <2>2. /\ Append(t, x) \in Seq(T) /\ Len(Append(t, x)) = Len(t) + 1
        /\ \A i \in 1 .. Len(t) : Append(t, x)[i] = t[i]
        /\ Append(t, x)[Len(t) + 1] = x
    BY <2>1, AppendProperties
  <2> QED
    BY <2>2 DEF IsSeq
<1>4. ASSUME Len(t) > 0
      PROVE  /\ IsSeq(Tail(t)) /\ Len(Tail(t)) = Len(t) - 1
             /\ \A i \in 1 .. Len(t) - 1 : Tail(t)[i] = t[i + 1]
  <2>1. t # <<>>
    BY <1>4
  <2>2. /\ Tail(t) \in Seq(S) /\ Len(Tail(t)) = Len(t) - 1
        /\ \A i \in 1 .. Len(Tail(t)) : Tail(t)[i] = t[i + 1]
    BY <1>1, <2>1, HeadTailProperties
  <2> QED
    BY <2>2 DEF IsSeq
<1> QED
  BY <1>2, <1>3, <1>4

(* A key is stored behind the others, or dropped. *)
LEMMA KeyPushOK ==
    ASSUME KeyInv, NEW key, KeyRingPush(key), key_ring_tail' = key_ring_tail
    PROVE  KeyInv'
<1> DEFINE N == KEY_RING_SIZE
           h == key_ring_head
           t == key_ring_tail
           next == (h + 1) % N
           len == Len(typed)
<1>1. N \in Nat \ {0} /\ N > 1 /\ h \in 0 .. N - 1 /\ t \in 0 .. N - 1 /\ IsSeq(typed)
  BY InputAssumption DEF KeyInv
<1>2. CASE next = t
  <2>1. UNCHANGED <<key_ring, key_ring_head, typed>>
    BY <1>2 DEF KeyRingPush
  <2> QED
    BY <2>1 DEF KeyInv, RingIsFifo
<1>3. CASE next # t
  <2>1. /\ key_ring' = [key_ring EXCEPT ![h] = key] /\ key_ring_head' = next
        /\ typed' = Append(typed, key)
    BY <1>3 DEF KeyRingPush
  <2>2. len \in Nat /\ len = (h - t + N) % N
    BY <1>1, SeqSteps DEF KeyInv, RingIsFifo
  <2>3. /\ next = IF h + 1 = N THEN 0 ELSE h + 1
        /\ (h - t + N) % N = IF h >= t THEN h - t ELSE h - t + N
    BY <1>1, StepMod, GapMod
  <2>4. next \in 0 .. N - 1
    BY <1>1, <2>3
  <2>5. (next - t + N) % N = IF next >= t THEN next - t ELSE next - t + N
    <3> HIDE DEF next
    <3> QED
      BY <1>1, <2>4, GapMod
  <2> HIDE DEF next
  <2>6. (next - t + N) % N = len + 1 /\ len + 1 < N
    BY <1>1, <1>3, <2>2, <2>3, <2>4, <2>5
  <2>7. h = (t + len) % N
    <3>1. CASE h >= t
      <4>1. t + len = h /\ h % N = h
        BY <1>1, <2>2, <2>3, <3>1
      <4> QED
        BY <4>1
    <3>2. CASE ~ (h >= t)
      <4>1. t + len = 1 * N + h
        BY <1>1, <2>2, <2>3, <3>2
      <4>2. (1 * N + h) % N = h
        BY <1>1, ModUnique
      <4> QED
        BY <4>1, <4>2
    <3> QED
      BY <3>1, <3>2
  <2>8. /\ IsSeq(typed') /\ Len(typed') = len + 1
        /\ \A i \in 1 .. len : typed'[i] = typed[i]
        /\ typed'[len + 1] = key
    BY <1>1, <2>1, SeqSteps
  <2>9. DOMAIN key_ring = 0 .. N - 1
    BY DEF KeyInv
  <2>10. /\ DOMAIN key_ring' = 0 .. N - 1 /\ key_ring'[h] = key
         /\ \A i \in 0 .. N - 1 : i # h => key_ring'[i] = key_ring[i]
    BY <1>1, <2>1, <2>9
  <2>11. ASSUME NEW k \in 1 .. len + 1 PROVE key_ring'[(t + k - 1) % N] = typed'[k]
    <3>1. CASE k = len + 1
      <4>1. t + k - 1 = t + len
        BY <1>1, <2>2, <3>1
      <4>2. (t + k - 1) % N = h
        BY <2>7, <4>1, Zenon
      <4> HIDE DEF N, h, t, len
      <4> QED
        BY <2>8, <2>10, <3>1, <4>2
    <3>2. CASE k \in 1 .. len
      <4>1. k - 1 \in 0 .. N - 1 /\ len \in 0 .. N - 1 /\ k - 1 # len /\ t \in Int
            /\ t + k - 1 = t + (k - 1)
        BY <1>1, <2>2, <2>6, <3>2
      <4>2. (t + (k - 1)) % N # (t + len) % N
        BY <1>1, <4>1, ModInj
      <4>3. (t + (k - 1)) % N \in 0 .. N - 1
        <5>1. t + (k - 1) \in Int
          BY <4>1
        <5> QED
          BY <1>1, <5>1, ModRange
      <4>4. key_ring[(t + k - 1) % N] = typed[k]
        BY <3>2 DEF KeyInv, RingIsFifo
      <4>5. key_ring'[(t + k - 1) % N] = key_ring[(t + k - 1) % N]
        <5>1. (t + k - 1) % N \in 0 .. N - 1 /\ (t + k - 1) % N # h
          BY <2>7, <4>1, <4>2, <4>3, Zenon
        <5> HIDE DEF N, t, h
        <5> QED
          BY <2>10, <5>1
      <4> QED
        BY <2>8, <3>2, <4>4, <4>5
    <3> QED
      BY <2>2, <3>1, <3>2
  <2>12. RingIsFifo'
    BY <2>1, <2>6, <2>8, <2>11 DEF RingIsFifo
  <2> QED
    BY <1>1, <2>1, <2>4, <2>8, <2>10, <2>12 DEF KeyInv
<1> QED
  BY <1>2, <1>3

(* The first key is read. *)
LEMMA KeyPopOK ==
    ASSUME KeyInv, key_ring_head # key_ring_tail,
           key_ring_tail' = (key_ring_tail + 1) % KEY_RING_SIZE, typed' = Tail(typed),
           UNCHANGED <<key_ring, key_ring_head>>
    PROVE  KeyInv'
<1> DEFINE N == KEY_RING_SIZE
           h == key_ring_head
           t == key_ring_tail
           u == key_ring_tail'
           len == Len(typed)
<1>1. N \in Nat \ {0} /\ N > 1 /\ h \in 0 .. N - 1 /\ t \in 0 .. N - 1 /\ IsSeq(typed)
  BY InputAssumption DEF KeyInv
<1>2. u = IF t + 1 = N THEN 0 ELSE t + 1
  BY <1>1, StepMod
<1>3. u \in 0 .. N - 1
  BY <1>1, <1>2
<1>4. len \in Nat /\ len = (h - t + N) % N
  BY <1>1, SeqSteps DEF KeyInv, RingIsFifo
<1>5. /\ (h - t + N) % N = IF h >= t THEN h - t ELSE h - t + N
      /\ (h - u + N) % N = IF h >= u THEN h - u ELSE h - u + N
  BY <1>1, <1>3, GapMod
<1>6. len > 0 /\ (h - u + N) % N = len - 1
  BY <1>1, <1>2, <1>3, <1>4, <1>5
<1>7. /\ IsSeq(typed') /\ Len(typed') = len - 1
      /\ \A i \in 1 .. len - 1 : typed'[i] = typed[i + 1]
  BY <1>1, <1>6, SeqSteps
<1>8. ASSUME NEW k \in 1 .. len - 1 PROVE key_ring'[(u + k - 1) % N] = typed'[k]
  <2>1. k + 1 \in 1 .. len /\ typed'[k] = typed[k + 1]
    BY <1>4, <1>7
  <2>2. key_ring[(t + (k + 1) - 1) % N] = typed[k + 1]
    BY <2>1 DEF KeyInv, RingIsFifo
  <2>3. (u + k - 1) % N = (t + (k + 1) - 1) % N
    <3>1. CASE t + 1 = N
      <4>1. u + k - 1 = k - 1 /\ t + (k + 1) - 1 = (k - 1) + 1 * N /\ k - 1 \in Int
            /\ 1 \in Int
        BY <1>1, <1>2, <1>4, <3>1
      <4>2. ((k - 1) + 1 * N) % N = (k - 1) % N
        BY <1>1, <4>1, ModRound, Zenon
      <4> HIDE DEF u
      <4> QED
        BY <4>1, <4>2, Zenon
    <3>2. CASE t + 1 # N
      <4>1. u + k - 1 = t + (k + 1) - 1
        BY <1>1, <1>2, <1>4, <3>2
      <4> HIDE DEF u
      <4> QED
        BY <4>1, Zenon
    <3> QED
      BY <3>1, <3>2
  <2> QED
    BY <2>1, <2>2, <2>3
<1>9. RingIsFifo'
  BY <1>6, <1>7, <1>8 DEF RingIsFifo
<1> QED
  BY <1>1, <1>3, <1>7, <1>9 DEF KeyInv

(* The key ring is a bounded queue of keys. *)
THEOREM KeyRingIsFifo == Spec => []RingIsFifo
<1>1. Init => KeyInv
  <2> SUFFICES ASSUME Init PROVE KeyInv
    OBVIOUS
  <2>1. KEY_RING_SIZE \in Nat \ {0} /\ 0 \in 0 .. KEY_RING_SIZE - 1
    BY InputAssumption
  <2>2. (0 - 0 + KEY_RING_SIZE) % KEY_RING_SIZE = 0
    BY <2>1, GapMod
  <2>3. IsSeq(typed) /\ Len(typed) = 0
    <3>1. typed = <<>>
      BY DEF Init
    <3>2. <<>> \in Seq({}) /\ Len(<<>>) = 0
      OBVIOUS
    <3> QED
      BY <3>1, <3>2 DEF IsSeq
  <2>4. RingIsFifo
    BY <2>2, <2>3 DEF RingIsFifo, Init
  <2> QED
    BY <2>1, <2>3, <2>4 DEF KeyInv, Init
<1>2. KeyInv /\ [Next]_vars => KeyInv'
  <2> SUFFICES ASSUME KeyInv, [Next]_vars PROVE KeyInv'
    OBVIOUS
  <2>1. ASSUME UNCHANGED <<key_ring, key_ring_head, key_ring_tail, typed>> PROVE KeyInv'
    BY <2>1 DEF KeyInv, RingIsFifo
  <2>2. ASSUME NEW d \in Devs, NEW e, NEW full, DeviceEvent(d, e, full) PROVE KeyInv'
    BY <2>1, <2>2 DEF DeviceEvent
  <2>3. ASSUME NEW d \in Devs, Refill(d) \/ DrainPush(d) \/ DrainDone(d) PROVE KeyInv'
    BY <2>1, <2>3 DEF Refill, DrainPush, DrainDone
  <2>4. ASSUME NEW d \in Devs, DrainPop(d) PROVE KeyInv'
    <3>1. \/ UNCHANGED <<mouse, shift_held, key_ring, key_ring_head, typed>>
          \/ \E e : ProcessKbdEvent(e) \/ ProcessTabletEvent(e)
      BY <2>4 DEF DrainPop
    <3>2. key_ring_tail' = key_ring_tail
      BY <2>4 DEF DrainPop
    <3>3. \/ UNCHANGED <<key_ring, key_ring_head, typed>>
          \/ \E key : KeyRingPush(key)
      BY <3>1 DEF ProcessKbdEvent, ProcessTabletEvent
    <3> QED
      BY <2>1, <3>2, <3>3, KeyPushOK
  <2>5. CASE KeyRingPop
    <3>1. CASE key_ring_head = key_ring_tail
      BY <2>1, <2>5, <3>1 DEF KeyRingPop
    <3>2. CASE key_ring_head # key_ring_tail
      BY <2>5, <3>2, KeyPopOK DEF KeyRingPop
    <3> QED
      BY <3>1, <3>2
  <2>6. CASE UartPoll
    BY <2>1, <2>6 DEF UartPoll
  <2>7. CASE UNCHANGED vars
    BY <2>1, <2>7 DEF vars
  <2> QED
    BY <2>2, <2>3, <2>4, <2>5, <2>6, <2>7 DEF Next
<1>3. KeyInv => RingIsFifo
  BY DEF KeyInv
<1> QED
  BY <1>1, <1>2, <1>3, PTL DEF Spec

-----------------------------------------------------------------------------
(* The operations on a queue.                                                *)

(* What a queue is made of. *)
LEMMA QueueFacts ==
    ASSUME NEW n, NEW r \in Queue(n)
    PROVE  /\ r.num = n /\ r.desc \in [0 .. n - 1 -> Desc] /\ r.free_head \in Int
           /\ r.avail.idx \in Index16 /\ r.avail.ring \in [0 .. n - 1 -> 0 .. n - 1]
           /\ r.used.idx \in Index16 /\ r.used.ring \in [0 .. n - 1 -> Elem(n)]
           /\ r.last_used \in Index16 /\ r.taken \in Index16
BY DEF Queue, Index16

(* virtq_push_buf with a free descriptor, field by field. *)
LEMMA PushFields ==
    ASSUME NEW n \in Nat \ {0}, NEW r \in Queue(n), r.free_head \in 0 .. n - 1, NEW buf \in Int,
           NEW v, v = virtq_push_buf(r, buf)
    PROVE  /\ v \in Queue(n)
           /\ v.free_head = r.desc[r.free_head].next
           /\ v.desc = [r.desc EXCEPT ![r.free_head] = [addr |-> buf, next |-> 0]]
           /\ v.avail.idx = Advance(r.avail.idx)
           /\ v.avail.ring = [r.avail.ring EXCEPT ![r.avail.idx % n] = r.free_head]
           /\ v.used = r.used /\ v.last_used = r.last_used /\ v.taken = r.taken
<1> DEFINE h == r.free_head
           D == [r.desc EXCEPT ![h] = [addr |-> buf, next |-> 0]]
           G == [r.avail.ring EXCEPT ![r.avail.idx % n] = h]
           a == r.avail
           A == [a EXCEPT !.ring = G, !.idx = Advance(@)]
           f == r.desc[h].next
<1>1. /\ r.num = n /\ r.desc \in [0 .. n - 1 -> Desc]
      /\ a.idx \in Index16 /\ a.ring \in [0 .. n - 1 -> 0 .. n - 1]
      /\ a \in [idx : Index16, ring : [0 .. n - 1 -> 0 .. n - 1]]
  BY DEF Queue, Index16
<1>2. h # NoDesc
  BY DEF NoDesc
<1>3. v = [r EXCEPT !.free_head = f, !.desc[h] = [addr |-> buf, next |-> 0],
                    !.avail.ring[r.avail.idx % r.num] = h, !.avail.idx = Advance(@)]
  BY <1>2 DEF virtq_push_buf
<1>4. v = [r EXCEPT !.free_head = f, !.desc = D, !.avail = A]
  BY <1>1, <1>3 DEF Queue
<1>5. D \in [0 .. n - 1 -> Desc] /\ f \in Int
  BY <1>1 DEF Desc
<1>6. G \in [0 .. n - 1 -> 0 .. n - 1]
  <2>1. h \in 0 .. n - 1
    OBVIOUS
  <2> HIDE DEF h
  <2> QED
    BY <1>1, <2>1
<1>7. Advance(a.idx) \in Index16
  BY <1>1, AdvanceFacts
<1> HIDE DEF D, G, f, h
<1>8. /\ A.ring = G /\ A.idx = Advance(a.idx)
      /\ A \in [idx : Index16, ring : [0 .. n - 1 -> 0 .. n - 1]]
  <2> HIDE DEF a
  <2> QED
    BY <1>1, <1>6, <1>7
<1> HIDE DEF A
<1>9. /\ v.free_head = f /\ v.desc = D /\ v.avail = A
      /\ v.used = r.used /\ v.last_used = r.last_used /\ v.taken = r.taken
      /\ v \in Queue(n)
  BY <1>4, <1>5, <1>8 DEF Queue, Index16
<1> QED
  BY <1>8, <1>9 DEF D, G, f, h, a

(* virtq_pop_used, field by field. *)
LEMMA PopFields ==
    ASSUME NEW n \in Nat \ {0}, NEW r \in Queue(n), NEW v, v = virtq_pop_used(r),
           NEW id, id = UsedElem(r).id
    PROVE  /\ v \in Queue(n) /\ id \in 0 .. n - 1
           /\ v.free_head = id
           /\ v.desc \in [0 .. n - 1 -> Desc]
           /\ v.desc[id].next = r.free_head
           /\ \A i \in 0 .. n - 1 : v.desc[i].addr = r.desc[i].addr
           /\ v.last_used = Advance(r.last_used)
           /\ v.avail = r.avail /\ v.used = r.used /\ v.taken = r.taken
<1>1. /\ r.num = n /\ r.desc \in [0 .. n - 1 -> Desc] /\ r.free_head \in Int
      /\ r.used.ring \in [0 .. n - 1 -> Elem(n)]
      /\ r.last_used \in Index16 /\ r.last_used \in Int
  BY DEF Queue, Index16
<1>2. r.last_used % n \in 0 .. n - 1
  BY <1>1, ModRange
<1>3. id \in 0 .. n - 1
  BY <1>1, <1>2 DEF UsedElem, Elem
<1> DEFINE b == r.desc[id]
           c == [b EXCEPT !.next = r.free_head]
           D == [r.desc EXCEPT ![id] = c]
           l == Advance(r.last_used)
<1>4. b \in Desc
  BY <1>1, <1>3
<1>5. c \in Desc /\ c.next = r.free_head /\ c.addr = b.addr
  <2> HIDE DEF b
  <2> QED
    BY <1>1, <1>4 DEF Desc
<1>6. v = [r EXCEPT !.last_used = l, !.desc = D, !.free_head = id]
  BY <1>1, <1>3 DEF virtq_pop_used, Queue
<1> HIDE DEF c
<1>7. D \in [0 .. n - 1 -> Desc] /\ D[id] = c /\ \A i \in 0 .. n - 1 : D[i].addr = r.desc[i].addr
  BY <1>1, <1>3, <1>5
<1>8. l \in Index16 /\ id \in Int
  BY <1>1, <1>3, AdvanceFacts
<1> HIDE DEF D, l
<1>9. /\ v.free_head = id /\ v.desc = D /\ v.last_used = l
      /\ v.avail = r.avail /\ v.used = r.used /\ v.taken = r.taken
      /\ v \in Queue(n)
  BY <1>6, <1>7, <1>8 DEF Queue, Index16
<1> QED
  BY <1>3, <1>5, <1>7, <1>9 DEF l

(* The device's completion, field by field. *)
LEMMA CompleteFields ==
    ASSUME NEW n \in Nat \ {0}, NEW r \in Queue(n), NEW full \in BOOLEAN,
           NEW v, v = DeviceComplete(r, full)
    PROVE  /\ v \in Queue(n)
           /\ AvailDesc(r) \in 0 .. n - 1
           /\ v.used.idx = Advance(r.used.idx)
           /\ v.used.ring = [r.used.ring EXCEPT ![r.used.idx % n] = [id |-> AvailDesc(r), full |-> full]]
           /\ v.taken = Advance(r.taken) /\ v.last_used = r.last_used
           /\ v.free_head = r.free_head /\ v.desc = r.desc /\ v.avail = r.avail
<1> DEFINE u == r.used
           e == [id |-> AvailDesc(r), full |-> full]
           G == [r.used.ring EXCEPT ![r.used.idx % n] = e]
           U == [u EXCEPT !.ring = G, !.idx = Advance(@)]
           t == Advance(r.taken)
<1>1. /\ r.num = n /\ r.avail.ring \in [0 .. n - 1 -> 0 .. n - 1]
      /\ u \in [idx : Index16, ring : [0 .. n - 1 -> Elem(n)]]
      /\ r.taken \in Index16 /\ r.taken \in Int
  BY DEF Queue, Index16
<1>2. AvailDesc(r) \in 0 .. n - 1
  <2>1. r.taken % n \in 0 .. n - 1
    BY <1>1, ModRange
  <2> QED
    BY <1>1, <2>1 DEF AvailDesc
<1>3. v = [r EXCEPT !.taken = t, !.used = U]
  BY <1>1 DEF DeviceComplete, Queue
<1>4. e \in Elem(n)
  BY <1>2 DEF Elem
<1> HIDE DEF e
<1>5. G \in [0 .. n - 1 -> Elem(n)]
  BY <1>1, <1>4
<1>6. t \in Index16 /\ Advance(u.idx) \in Index16
  BY <1>1, AdvanceFacts
<1> HIDE DEF G, t
<1>7. U.ring = G /\ U.idx = Advance(u.idx) /\ U \in [idx : Index16, ring : [0 .. n - 1 -> Elem(n)]]
  <2> HIDE DEF u
  <2> QED
    BY <1>1, <1>5, <1>6
<1> HIDE DEF U
<1>8. /\ v.used = U /\ v.taken = t /\ v.last_used = r.last_used
      /\ v.free_head = r.free_head /\ v.desc = r.desc /\ v.avail = r.avail
      /\ v \in Queue(n)
  BY <1>3, <1>6, <1>7 DEF Queue, Index16
<1> QED
  BY <1>2, <1>7, <1>8 DEF G, e, t, u

(* A queue that fits the range of the indices. *)
Fits(n) == n \in 1 .. VIRTQ_SIZE /\ IndexModulus % n = 0

(* Its size is below the range. *)
LEMMA FitsFacts ==
    ASSUME NEW n, Fits(n)
    PROVE  n \in Nat \ {0} /\ n < IndexModulus /\ IndexModulus \in Nat \ {0}
BY VirtqAssumption DEF Fits

(* The two stretches of the rings that are in use. *)
LEMMA StretchFacts ==
    ASSUME NEW n, Fits(n), NEW r \in Queue(n), NEW given \in Nat, RingsInStep(r, given)
    PROVE  /\ Outstanding(r) \in 0 .. n /\ Completed(r) \in 0 .. n
           /\ Completed(r) <= Outstanding(r) /\ r.taken = r.used.idx
           /\ (r.last_used + Outstanding(r)) % n = r.avail.idx % n
           /\ (r.last_used + Completed(r)) % n = r.used.idx % n
           /\ r.last_used \in Int
<1>1. n \in Nat \ {0} /\ IndexModulus \in Nat \ {0} /\ IndexModulus % n = 0
  BY FitsFacts DEF Fits
<1>2. r.num = n /\ r.last_used \in Index16 /\ r.avail.idx \in Index16 /\ r.used.idx \in Index16
  BY QueueFacts
<1>3. Outstanding(r) \in Index16 /\ Completed(r) \in Index16
  BY <1>2, DistanceFacts DEF Outstanding, Completed
<1>4. Completed(r) <= Outstanding(r) /\ Outstanding(r) <= n /\ r.taken = r.used.idx
  BY <1>2 DEF RingsInStep
<1>5. /\ (r.last_used + Outstanding(r)) % n = r.avail.idx % n
      /\ (r.last_used + Completed(r)) % n = r.used.idx % n
  BY <1>1, <1>2, WrapKeepsPlace DEF Outstanding, Completed
<1>6. Outstanding(r) \in 0 .. n /\ Completed(r) \in 0 .. n /\ r.last_used \in Int
  BY <1>1, <1>2, <1>3, <1>4 DEF Index16
<1> QED
  BY <1>4, <1>5, <1>6

\* Queue v is r with buffer b given to the device as well.
Pushed(n, r, b, upto, v) ==
    /\ v \in Queue(n) /\ RingsInStep(v, upto)
    /\ Outstanding(v) = Outstanding(r) + 1 /\ Completed(v) = Completed(r)
    /\ v.free_head = r.desc[b].next
    /\ \A i \in 0 .. n - 1 : i # b => v.desc[i] = r.desc[i]
    /\ v.last_used = r.last_used /\ v.avail.idx = Advance(r.avail.idx)

(* The driver gives a buffer to the device, at the place of the ring that    *)
(* has its number.                                                           *)
LEMMA PushOK ==
    ASSUME NEW n, Fits(n), NEW r \in Queue(n), NEW given \in 0 .. n, RingsInStep(r, given),
           Outstanding(r) < n, NEW b, b = r.avail.idx % n, r.free_head = b,
           NEW upto \in 0 .. n, upto = given \/ (upto = given + 1 /\ b = given),
           NEW v, v = virtq_push_buf(r, b)
    PROVE  Pushed(n, r, b, upto, v)
<1>1. n \in Nat \ {0} /\ n < IndexModulus /\ IndexModulus \in Nat \ {0}
  BY FitsFacts
<1>2. /\ r.num = n /\ r.desc \in [0 .. n - 1 -> Desc]
      /\ r.avail.ring \in [0 .. n - 1 -> 0 .. n - 1]
      /\ r.avail.idx \in Index16 /\ r.last_used \in Index16
  BY QueueFacts
<1>3. b \in 0 .. n - 1
  <2>1. r.avail.idx \in Int
    BY <1>1, <1>2 DEF Index16
  <2> QED
    BY <1>1, <2>1, ModRange
<1>4. /\ v \in Queue(n)
      /\ v.free_head = r.desc[b].next
      /\ v.desc = [r.desc EXCEPT ![b] = [addr |-> b, next |-> 0]]
      /\ v.avail.idx = Advance(r.avail.idx)
      /\ v.avail.ring = [r.avail.ring EXCEPT ![b] = b]
      /\ v.used = r.used /\ v.last_used = r.last_used /\ v.taken = r.taken
  <2>1. b \in Int /\ r.free_head \in 0 .. n - 1
    BY <1>3
  <2> QED
    BY <1>1, <2>1, PushFields
<1>5. Outstanding(v) = Outstanding(r) + 1
  <2>1. Distance(r.last_used, r.avail.idx) + 1 < IndexModulus
    <3>1. Outstanding(r) \in 0 .. n
      BY StretchFacts
    <3> QED
      BY <1>1, <3>1 DEF Outstanding
  <2> QED
    BY <1>2, <1>4, <2>1, DistanceAdvance DEF Outstanding
<1>6. Completed(v) = Completed(r)
  BY <1>4 DEF Completed
<1>7. v.num = n
  BY <1>4, QueueFacts
<1>8. \A i \in 0 .. n - 1 : i # b => v.desc[i] = r.desc[i] /\ v.avail.ring[i] = r.avail.ring[i]
  BY <1>2, <1>4
<1>9. v.desc[b].addr = b /\ v.avail.ring[b] = b
  <2>1. v.desc[b] = [addr |-> b, next |-> 0] /\ v.avail.ring[b] = b
    BY <1>2, <1>3, <1>4
  <2> QED
    BY <2>1
<1>10. \A i \in 0 .. upto - 1 : v.avail.ring[i] = i /\ v.desc[i].addr = i
  <2> SUFFICES ASSUME NEW i \in 0 .. upto - 1, i # b
               PROVE  v.avail.ring[i] = i /\ v.desc[i].addr = i
    BY <1>9
  <2>1. i \in 0 .. n - 1 /\ i \in 0 .. given - 1
    BY <1>1
  <2>2. r.avail.ring[i] = i /\ r.desc[i].addr = i
    BY <2>1 DEF RingsInStep
  <2> QED
    BY <1>8, <2>1, <2>2
<1>11. /\ Completed(v) <= Outstanding(v) /\ Outstanding(v) <= n /\ v.taken = v.used.idx
  <2>1. Outstanding(r) \in 0 .. n /\ Completed(r) \in 0 .. n /\ Completed(r) <= Outstanding(r)
        /\ r.taken = r.used.idx
    BY StretchFacts
  <2>2. v.taken = v.used.idx
    BY <1>4, <2>1
  <2> QED
    BY <1>1, <1>5, <1>6, <2>1, <2>2
<1>12. RingsInStep(v, upto)
  <2>1. \A k \in 0 .. Completed(v) - 1 :
           v.used.ring[(v.last_used + k) % v.num].id = (v.last_used + k) % v.num
    <3>1. \A k \in 0 .. Completed(r) - 1 :
             r.used.ring[(r.last_used + k) % n].id = (r.last_used + k) % n
      BY <1>2 DEF RingsInStep
    <3>2. v.used.ring = r.used.ring /\ v.last_used = r.last_used
      BY <1>4
    <3> QED
      BY <1>6, <1>7, <3>1, <3>2, Zenon
  <2> QED
    BY <1>7, <1>10, <1>11, <2>1 DEF RingsInStep
<1> QED
  BY <1>4, <1>5, <1>6, <1>8, <1>12 DEF Pushed

(* The device completes the buffer at its place of the available ring. *)
LEMMA CompleteOK ==
    ASSUME NEW n, Fits(n), NEW r \in Queue(n), NEW given \in 0 .. n, RingsInStep(r, given),
           HasAvailable(r), NEW c, c = r.taken % n, c < given, NEW full \in BOOLEAN,
           NEW v, v = DeviceComplete(r, full)
    PROVE  /\ v \in Queue(n) /\ RingsInStep(v, given)
           /\ Outstanding(v) = Outstanding(r) /\ Completed(v) = Completed(r) + 1
           /\ v.free_head = r.free_head /\ v.desc = r.desc /\ v.last_used = r.last_used
           /\ v.avail = r.avail
           /\ c \in 0 .. n - 1 /\ c = (r.last_used + Completed(r)) % n /\ Completed(r) < n
           /\ r.desc[AvailDesc(r)].addr = c
<1>1. n \in Nat \ {0} /\ n < IndexModulus /\ IndexModulus \in Nat \ {0}
  BY FitsFacts
<1>2. /\ r.num = n /\ r.used.ring \in [0 .. n - 1 -> Elem(n)]
      /\ r.avail.idx \in Index16 /\ r.last_used \in Index16 /\ r.used.idx \in Index16
  BY QueueFacts
<1>3. /\ Outstanding(r) \in 0 .. n /\ Completed(r) \in 0 .. n
      /\ Completed(r) <= Outstanding(r) /\ r.taken = r.used.idx
      /\ (r.last_used + Completed(r)) % n = r.used.idx % n
      /\ r.last_used \in Int
  BY StretchFacts
<1>4. Completed(r) < Outstanding(r)
  <2>1. r.used.idx # r.avail.idx
    BY <1>3 DEF HasAvailable
  <2>2. /\ Outstanding(r) = IF r.avail.idx >= r.last_used THEN r.avail.idx - r.last_used
                            ELSE r.avail.idx - r.last_used + IndexModulus
        /\ Completed(r) = IF r.used.idx >= r.last_used THEN r.used.idx - r.last_used
                          ELSE r.used.idx - r.last_used + IndexModulus
    BY <1>2, DistanceFacts DEF Outstanding, Completed
  <2>3. Completed(r) # Outstanding(r)
    <3> DEFINE x == r.avail.idx
               y == r.used.idx
               l == r.last_used
    <3>1. x \in 0 .. IndexModulus - 1 /\ y \in 0 .. IndexModulus - 1 /\ l \in 0 .. IndexModulus - 1
      BY <1>2 DEF Index16
    <3>2. /\ Outstanding(r) = IF x >= l THEN x - l ELSE x - l + IndexModulus
          /\ Completed(r) = IF y >= l THEN y - l ELSE y - l + IndexModulus
          /\ x # y
      BY <2>1, <2>2
    <3> HIDE DEF x, y, l
    <3> QED
      BY <1>1, <3>1, <3>2
  <2> QED
    BY <1>3, <2>3
<1>5. c \in 0 .. n - 1 /\ c = (r.last_used + Completed(r)) % n
  <2>1. r.used.idx \in Int
    BY <1>1, <1>2 DEF Index16
  <2>2. c = r.used.idx % n
    BY <1>3
  <2> QED
    BY <1>1, <1>3, <2>1, <2>2, ModRange
<1>6. AvailDesc(r) = c /\ r.desc[c].addr = c
  <2>1. c \in 0 .. given - 1
    BY <1>5
  <2>2. r.avail.ring[c] = c /\ r.desc[c].addr = c
    BY <2>1 DEF RingsInStep
  <2> QED
    BY <1>2, <2>2 DEF AvailDesc
<1>7. /\ v \in Queue(n)
      /\ v.used.idx = Advance(r.used.idx)
      /\ v.used.ring = [r.used.ring EXCEPT ![c] = [id |-> c, full |-> full]]
      /\ v.taken = Advance(r.taken) /\ v.last_used = r.last_used
      /\ v.free_head = r.free_head /\ v.desc = r.desc /\ v.avail = r.avail
  <2>1. r.used.idx % n = c
    BY <1>3
  <2>2. /\ v \in Queue(n)
        /\ v.used.idx = Advance(r.used.idx)
        /\ v.used.ring = [r.used.ring EXCEPT ![r.used.idx % n] = [id |-> AvailDesc(r), full |-> full]]
        /\ v.taken = Advance(r.taken) /\ v.last_used = r.last_used
        /\ v.free_head = r.free_head /\ v.desc = r.desc /\ v.avail = r.avail
    BY <1>1, CompleteFields
  <2> QED
    BY <1>6, <2>1, <2>2
<1>8. Outstanding(v) = Outstanding(r)
  BY <1>7 DEF Outstanding
<1>9. Completed(v) = Completed(r) + 1
  <2>1. Distance(r.last_used, r.used.idx) + 1 < IndexModulus
    BY <1>1, <1>3, <1>4 DEF Completed
  <2> QED
    BY <1>2, <1>7, <2>1, DistanceAdvance DEF Completed
<1>10. v.num = n
  BY <1>7, QueueFacts
<1>11. ASSUME NEW k \in 0 .. Completed(v) - 1
       PROVE  v.used.ring[(v.last_used + k) % n].id = (v.last_used + k) % n
  <2> DEFINE p == (r.last_used + k) % n
  <2>1. k \in 0 .. n - 1 /\ Completed(r) \in 0 .. n - 1
    BY <1>1, <1>3, <1>4, <1>9
  <2>2. p \in 0 .. n - 1
    <3>1. r.last_used + k \in Int
      BY <1>3
    <3> QED
      BY <1>1, <3>1, ModRange
  <2>3. CASE k = Completed(r)
    <3>1. p = c
      BY <1>5, <2>3
    <3> HIDE DEF p
    <3>2. v.used.ring[c] = [id |-> c, full |-> full]
      BY <1>2, <1>5, <1>7
    <3>3. v.used.ring[p].id = p
      BY <3>1, <3>2
    <3> QED
      BY <1>7, <3>3 DEF p
  <2>4. CASE k # Completed(r)
    <3>1. k \in 0 .. Completed(r) - 1
      BY <1>3, <1>9, <2>4
    <3>2. p # c
      BY <1>1, <1>3, <1>5, <2>1, <2>4, ModInj
    <3>3. r.used.ring[p].id = p
      BY <1>2, <3>1 DEF RingsInStep
    <3> HIDE DEF p
    <3>4. v.used.ring[p] = r.used.ring[p]
      BY <1>2, <1>7, <2>2, <3>2
    <3> QED
      BY <1>7, <3>3, <3>4 DEF p
  <2> QED
    BY <2>3, <2>4
<1>12. RingsInStep(v, given)
  <2>1. \A i \in 0 .. given - 1 : v.avail.ring[i] = i /\ v.desc[i].addr = i
    BY <1>7 DEF RingsInStep
  <2>2. Completed(v) <= Outstanding(v) /\ Outstanding(v) <= n /\ v.taken = v.used.idx
    BY <1>1, <1>3, <1>4, <1>7, <1>8, <1>9
  <2> QED
    BY <1>10, <1>11, <2>1, <2>2 DEF RingsInStep
<1> QED
  BY <1>1, <1>3, <1>4, <1>5, <1>6, <1>7, <1>8, <1>9, <1>12

(* The driver pops a completed buffer: its descriptor is the only free one,  *)
(* and its place is where the available ring goes on.                        *)
LEMMA PopOK ==
    ASSUME NEW n, Fits(n), NEW r \in Queue(n), RingsInStep(r, n),
           Outstanding(r) = n, r.free_head = NoDesc, virtq_has_used(r),
           NEW v, v = virtq_pop_used(r), NEW id, id = UsedElem(r).id
    PROVE  /\ v \in Queue(n) /\ RingsInStep(v, n)
           /\ Outstanding(v) = n - 1 /\ Completed(v) = Completed(r) - 1 /\ Completed(r) > 0
           /\ v.free_head = id /\ v.desc[id].next = NoDesc /\ id = v.avail.idx % n
           /\ v.last_used = Advance(r.last_used)
<1>1. n \in Nat \ {0} /\ n < IndexModulus /\ IndexModulus \in Nat \ {0} /\ IndexModulus % n = 0
  BY FitsFacts DEF Fits
<1>2. /\ r.num = n /\ r.used.ring \in [0 .. n - 1 -> Elem(n)]
      /\ r.avail.idx \in Index16 /\ r.last_used \in Index16 /\ r.used.idx \in Index16
  BY QueueFacts
<1>3. /\ Completed(r) \in 0 .. n
      /\ (r.last_used + Outstanding(r)) % n = r.avail.idx % n
      /\ r.last_used \in Int /\ r.taken = r.used.idx
  BY <1>1, StretchFacts
<1>4. /\ v \in Queue(n) /\ id \in 0 .. n - 1
      /\ v.free_head = id
      /\ v.desc[id].next = r.free_head
      /\ \A i \in 0 .. n - 1 : v.desc[i].addr = r.desc[i].addr
      /\ v.last_used = Advance(r.last_used)
      /\ v.avail = r.avail /\ v.used = r.used /\ v.taken = r.taken
  BY <1>1, PopFields
<1>5. Completed(r) > 0 /\ Completed(v) = Completed(r) - 1
  BY <1>2, <1>4, DistanceAdvance DEF Completed, virtq_has_used
<1>6. Outstanding(v) = n - 1
  <2>1. r.last_used # r.avail.idx
    BY <1>1, <1>2, DistanceAdvance DEF Outstanding
  <2> QED
    BY <1>2, <1>4, <2>1, DistanceAdvance DEF Outstanding
<1>7. id = r.last_used % n
  <2>1. 0 \in 0 .. Completed(r) - 1 /\ r.last_used + 0 = r.last_used
    BY <1>3, <1>5
  <2>2. r.used.ring[(r.last_used + 0) % n].id = (r.last_used + 0) % n
    BY <1>2, <2>1 DEF RingsInStep
  <2> QED
    BY <1>2, <2>1, <2>2 DEF UsedElem
<1>8. id = v.avail.idx % n
  <2>1. (r.last_used + 1 * n) % n = r.last_used % n
    <3>1. 1 \in Int
      OBVIOUS
    <3> QED
      BY <1>1, <1>3, <3>1, ModRound, Zenon
  <2>2. r.last_used + 1 * n = r.last_used + Outstanding(r)
    BY <1>1, <1>3
  <2> QED
    BY <1>3, <1>4, <1>7, <2>1, <2>2
<1>9. v.num = n
  BY <1>4, QueueFacts
<1>10. ASSUME NEW k \in 0 .. Completed(v) - 1
       PROVE  v.used.ring[(v.last_used + k) % n].id = (v.last_used + k) % n
  <2>1. (v.last_used + k) % n = (r.last_used + (k + 1)) % n
    <3>1. k \in Nat
      BY <1>3, <1>5
    <3>2. \A j \in Nat : (Advance(r.last_used) + j) % n = (r.last_used + (j + 1)) % n
      BY <1>1, <1>2, WrapKeepsPlace
    <3> QED
      BY <1>4, <3>1, <3>2, Zenon
  <2>2. k + 1 \in 0 .. Completed(r) - 1
    BY <1>3, <1>5
  <2>3. r.used.ring[(r.last_used + (k + 1)) % n].id = (r.last_used + (k + 1)) % n
    BY <1>2, <2>2 DEF RingsInStep
  <2> QED
    BY <1>4, <2>1, <2>3
<1>11. RingsInStep(v, n)
  <2>1. \A i \in 0 .. n - 1 : v.avail.ring[i] = i /\ v.desc[i].addr = i
    BY <1>4 DEF RingsInStep
  <2>2. Completed(r) <= Outstanding(r)
    BY DEF RingsInStep
  <2>3. Completed(v) <= Outstanding(v) /\ Outstanding(v) <= n /\ v.taken = v.used.idx
    BY <1>1, <1>3, <1>4, <1>5, <1>6, <2>2
  <2> QED
    BY <1>9, <1>10, <2>1, <2>3 DEF RingsInStep
<1> QED
  BY <1>4, <1>5, <1>6, <1>8, <1>11

-----------------------------------------------------------------------------
(* The steps of the driver and of the devices.                               *)

(* An active device has a queue that fits. *)
LEMMA ActiveFacts ==
    ASSUME InputInv, NEW d \in Devs, Active(d)
    PROVE  /\ q[d] \in Queue(q[d].num) /\ Fits(q[d].num) /\ q[d].num \in Nat \ {0}
           /\ q[d].num <= EVENT_BUF_COUNT /\ Given(d) \in 0 .. q[d].num
           /\ RingsInStep(q[d], Given(d)) /\ Held(d) /\ Kept(d)
<1>1. QueueInv(d)
  BY DEF InputInv
<1>2. Fits(q[d].num) /\ q[d].num \in Nat \ {0} /\ q[d].num <= EVENT_BUF_COUNT
  BY <1>1, VirtqAssumption DEF QueueInv, Fits, EVENT_BUF_COUNT
<1>3. q[d] # NoQueue
  BY <1>2 DEF NoQueue
<1>4. Given(d) \in 0 .. q[d].num
  BY <1>2 DEF Given, InputInv, Typed, PcTyped
<1> QED
  BY <1>1, <1>2, <1>3, <1>4 DEF QueueInv, InputInv, Typed

(* A device whose queue the step leaves alone. *)
LEMMA SameOK ==
    ASSUME InputInv, NEW d \in Devs, Active(d)', q'[d] = q[d], bufs'[d] = bufs[d], sent'[d] = sent[d],
           Active(d) => Given(d)' = Given(d) /\ Held(d)'
    PROVE  QueueInv(d)'
<1>1. Active(d)
  BY DEF Active
<1>2. QueueInv(d)
  BY <1>1 DEF InputInv
<1>3. Kept(d)'
  BY <1>2 DEF QueueInv, Kept
<1> QED
  BY <1>1, <1>2, <1>3 DEF QueueInv

(* While d is drained or handled, nothing changes for the other device. *)
LEMMA OtherOK ==
    ASSUME InputInv, NEW d \in Devs, Active(d)', q'[d] = q[d], bufs'[d] = bufs[d], sent'[d] = sent[d],
           pc.at # "refill", pc'.at # "refill",
           ~ (pc.at = "push" /\ pc.dev = d), ~ (pc'.at = "push" /\ pc'.dev = d)
    PROVE  QueueInv(d)'
<1>1. Active(d)
  BY DEF Active
<1>2. Held(d)
  BY <1>1, ActiveFacts
<1>3. Given(d)' = Given(d)
  BY DEF Given
<1>4. Held(d)'
  <2>1. Outstanding(q[d]) = q[d].num /\ q[d].free_head = NoDesc
    BY <1>2 DEF Held
  <2> QED
    BY <2>1 DEF Held
<1> QED
  BY <1>3, <1>4, SameOK

(* The types, when the queue of d is replaced. *)
LEMMA TypedOK ==
    ASSUME InputInv, NEW d \in Devs, q' = [q EXCEPT ![d] = q'[d]],
           q'[d] = NoQueue \/ q'[d] \in Queue(q'[d].num), PcTyped',
           bufs' = [x \in Devs |-> bufs'[x]], \A x \in Devs : DOMAIN bufs'[x] = 0 .. EVENT_BUF_COUNT - 1,
           sent' = [x \in Devs |-> sent'[x]], \A x \in Devs : IsSeq(sent'[x])
    PROVE  Typed'
<1>1. \A x \in Devs : x # d => q'[x] = q[x]
  BY DEF InputInv, Typed
<1>2. \A x \in Devs : q'[x] = NoQueue \/ q'[x] \in Queue(q'[x].num)
  BY <1>1 DEF InputInv, Typed
<1>3. q' = [x \in Devs |-> q'[x]]
  BY DEF InputInv, Typed
<1> QED
  BY <1>2, <1>3 DEF Typed

(* The device completes a buffer with an event. *)
LEMMA DeviceEventOK ==
    ASSUME InputInv, NEW d \in Devs, NEW e, NEW full \in BOOLEAN, DeviceEvent(d, e, full)
    PROVE  InputInv'
<1> DEFINE r == q[d]
           n == r.num
           v == DeviceComplete(r, full)
           c == r.taken % n
           given == Given(d)
<1>1. Active(d) /\ HasAvailable(r) /\ pc' = pc
  BY DEF DeviceEvent
<1>2. /\ r \in Queue(n) /\ Fits(n) /\ n \in Nat \ {0} /\ n <= EVENT_BUF_COUNT
      /\ given \in 0 .. n /\ RingsInStep(r, given) /\ Held(d) /\ Kept(d)
  BY <1>1, ActiveFacts
<1>3. /\ Outstanding(r) \in 0 .. n /\ Completed(r) \in 0 .. n
      /\ Completed(r) <= Outstanding(r) /\ r.taken = r.used.idx
      /\ (r.last_used + Completed(r)) % n = r.used.idx % n /\ r.last_used \in Int
  <2>1. given \in Nat
    BY <1>2
  <2> HIDE DEF r, given, n
  <2> QED
    BY <1>2, <2>1, StretchFacts
<1>4. r.taken \in Index16 /\ r.avail.idx \in Index16 /\ r.last_used \in Index16
  BY <1>2, QueueFacts
<1>5. c < given
  <2>1. CASE pc.at # "refill"
    <3>1. given = n
      BY <2>1 DEF Given
    <3>2. r.taken \in Int
      BY <1>4, VirtqAssumption DEF Index16
    <3>3. c \in 0 .. n - 1
      BY <1>2, <3>2, ModRange
    <3> QED
      BY <1>2, <3>1, <3>3
  <2>2. CASE pc.at = "refill"
    <3>1. r.last_used = 0 /\ r.avail.idx = given
      BY <1>2, <2>2 DEF Held
    <3>2. Completed(r) = r.taken /\ Outstanding(r) = given
      <4>1. Distance(r.last_used, r.taken) = r.taken /\ Distance(r.last_used, r.avail.idx) = r.avail.idx
        <5> HIDE DEF r
        <5> QED
          BY <1>4, <3>1, DistanceFromZero
      <4> QED
        BY <1>3, <3>1, <4>1 DEF Completed, Outstanding
    <3>3. r.taken # given
      BY <1>1, <3>1 DEF HasAvailable
    <3>4. r.taken \in 0 .. n - 1 /\ r.taken < given
      BY <1>2, <1>3, <3>2, <3>3
    <3>5. c = r.taken
      <4> HIDE DEF r, n
      <4> QED
        BY <1>2, <3>4 DEF c
    <3> QED
      BY <3>4, <3>5
  <2> QED
    BY <2>1, <2>2
<1>6. q' = [q EXCEPT ![d] = v]
  BY DEF DeviceEvent
<1> HIDE DEF v, c, given
<1>7. /\ v \in Queue(n) /\ RingsInStep(v, given)
      /\ Outstanding(v) = Outstanding(r) /\ Completed(v) = Completed(r) + 1
      /\ v.free_head = r.free_head /\ v.desc = r.desc /\ v.last_used = r.last_used
      /\ v.avail = r.avail
      /\ c \in 0 .. n - 1 /\ c = (r.last_used + Completed(r)) % n /\ Completed(r) < n
      /\ r.desc[AvailDesc(r)].addr = c
  <2>1. c = r.taken % n /\ v = DeviceComplete(r, full)
    BY DEF c, v
  <2> HIDE DEF r, n
  <2> QED
    BY <1>1, <1>2, <1>5, <2>1, CompleteOK
<1>8. v.num = n
  BY <1>7, QueueFacts
<1>9. bufs' = [bufs EXCEPT ![d][c] = e] /\ sent' = [sent EXCEPT ![d] = Append(@, e)]
  BY <1>7 DEF DeviceEvent
<1>10. /\ bufs' = [x \in Devs |-> bufs'[x]] /\ sent' = [x \in Devs |-> sent'[x]]
       /\ bufs'[d] = [bufs[d] EXCEPT ![c] = e] /\ sent'[d] = Append(sent[d], e)
       /\ \A x \in Devs : x # d => bufs'[x] = bufs[x] /\ sent'[x] = sent[x]
  BY <1>9 DEF InputInv, Typed
<1>11. DOMAIN bufs[d] = 0 .. EVENT_BUF_COUNT - 1 /\ IsSeq(sent[d])
  BY DEF InputInv, Typed
<1>12. /\ Len(sent[d]) \in Nat /\ IsSeq(sent'[d]) /\ Len(sent'[d]) = Len(sent[d]) + 1
       /\ \A i \in 1 .. Len(sent[d]) : sent'[d][i] = sent[d][i]
       /\ sent'[d][Len(sent[d]) + 1] = e
  BY <1>10, <1>11, SeqSteps
<1>13. /\ DOMAIN bufs'[d] = 0 .. EVENT_BUF_COUNT - 1 /\ bufs'[d][c] = e
       /\ \A i \in 0 .. n - 1 : i # c => bufs'[d][i] = bufs[d][i]
  <2>1. c \in 0 .. EVENT_BUF_COUNT - 1 /\ \A i \in 0 .. n - 1 : i \in 0 .. EVENT_BUF_COUNT - 1
    BY <1>2, <1>7, VirtqAssumption DEF EVENT_BUF_COUNT
  <2> HIDE DEF n
  <2> QED
    BY <1>10, <1>11, <2>1
<1>14. Typed' /\ \A x \in Devs : q'[x] = IF x = d THEN v ELSE q[x]
  <2>1. \A x \in Devs : DOMAIN bufs'[x] = 0 .. EVENT_BUF_COUNT - 1 /\ IsSeq(sent'[x])
    BY <1>10, <1>12, <1>13 DEF InputInv, Typed
  <2>2. PcTyped'
    BY <1>1 DEF InputInv, Typed, PcTyped
  <2>3. \A x \in Devs : DOMAIN bufs'[x] = 0 .. EVENT_BUF_COUNT - 1
    BY <2>1
  <2>4. \A x \in Devs : IsSeq(sent'[x])
    BY <2>1
  <2>5. q' = [q EXCEPT ![d] = q'[d]] /\ \A x \in Devs : q'[x] = IF x = d THEN v ELSE q[x]
    BY <1>6 DEF InputInv, Typed
  <2>7. q'[d] \in Queue(q'[d].num)
    BY <1>7, <1>8, <2>5
  <2>6. bufs' = [x \in Devs |-> bufs'[x]] /\ sent' = [x \in Devs |-> sent'[x]]
    BY <1>10
  <2> HIDE DEF n
  <2> QED
    BY <2>2, <2>3, <2>4, <2>5, <2>6, <2>7, TypedOK
<1>15. Given(d)' = given
  BY <1>1, <1>8, <1>14 DEF Given, given
<1>16. Held(d)'
  <2>1. q'[d] = v
    BY <1>14
  <2>2. FreeFrom(v, given) <=> FreeFrom(r, given)
    BY <1>7, <1>8 DEF FreeFrom
  <2>3. CASE pc.at = "refill"
    <3>1. r.last_used = 0 /\ r.avail.idx = given /\ FreeFrom(r, given)
      BY <1>2, <2>3 DEF Held, given
    <3> HIDE DEF r, n
    <3> QED
      BY <1>1, <1>7, <1>15, <2>1, <2>2, <2>3, <3>1 DEF Held
  <2>4. CASE pc.at = "push" /\ pc.dev = d
    <3>1. /\ Outstanding(r) = n - 1 /\ pc.n = r.avail.idx % n
          /\ r.free_head = pc.n /\ r.desc[pc.n].next = NoDesc
      BY <1>2, <2>4 DEF Held
    <3> HIDE DEF r, n
    <3> QED
      BY <1>1, <1>7, <1>8, <2>1, <2>4, <3>1 DEF Held
  <2>5. CASE pc.at # "refill" /\ ~ (pc.at = "push" /\ pc.dev = d)
    <3>1. Outstanding(r) = n /\ r.free_head = NoDesc
      BY <1>2, <2>5 DEF Held
    <3> HIDE DEF r, n
    <3> QED
      BY <1>1, <1>7, <1>8, <2>1, <2>5, <3>1 DEF Held
  <2> QED
    BY <2>3, <2>4, <2>5
<1>17. Kept(d)'
  <2>1. q'[d] = v /\ Len(sent[d]) = Completed(r)
    BY <1>2, <1>14 DEF Kept
  <2>2. ASSUME NEW k \in 0 .. Completed(v) - 1
        PROVE  bufs'[d][(v.last_used + k) % n] = sent'[d][k + 1]
    <3> DEFINE p == (r.last_used + k) % n
    <3>1. CASE k = Completed(r)
      <4>1. p = c
        BY <1>7, <3>1
      <4> HIDE DEF p
      <4>2. bufs'[d][p] = sent'[d][k + 1]
        BY <1>12, <1>13, <2>1, <3>1, <4>1
      <4> QED
        BY <1>7, <4>2 DEF p
    <3>2. CASE k # Completed(r)
      <4>1. k \in 0 .. Completed(r) - 1 /\ k \in 0 .. n - 1 /\ Completed(r) \in 0 .. n - 1
            /\ k + 1 \in 1 .. Len(sent[d])
        BY <1>2, <1>3, <1>7, <2>1, <3>2, SMTT(30)
      <4>2. p # c
        <5> DEFINE l == r.last_used
                   m == Completed(r)
        <5>1. l \in Int /\ m \in 0 .. n - 1 /\ k \in 0 .. n - 1 /\ n \in Nat \ {0} /\ k # m
          BY <1>2, <1>3, <3>2, <4>1
        <5>2. c = (l + m) % n /\ p = (l + k) % n
          BY <1>7
        <5> HIDE DEF n, l, m, p
        <5> QED
          BY <5>1, <5>2, ModInj
      <4>3. p \in 0 .. n - 1
        <5>1. r.last_used + k \in Int
          BY <1>3
        <5> QED
          BY <1>2, <5>1, ModRange
      <4>4. bufs[d][p] = sent[d][k + 1]
        BY <1>2, <4>1 DEF Kept
      <4> HIDE DEF p
      <4>5. bufs'[d][p] = bufs[d][p] /\ sent'[d][k + 1] = sent[d][k + 1]
        BY <1>12, <1>13, <4>1, <4>2, <4>3
      <4> QED
        BY <1>7, <4>4, <4>5 DEF p
    <3> QED
      BY <3>1, <3>2
  <2> QED
    BY <1>7, <1>8, <1>12, <2>1, <2>2 DEF Kept
<1>18. QueueInv(d)'
  <2>1. q'[d] = v
    BY <1>14
  <2> QED
    BY <1>2, <1>7, <1>8, <1>15, <1>16, <1>17, <2>1 DEF QueueInv, Fits
<1>19. ASSUME NEW x \in Devs, x # d, Active(x)' PROVE QueueInv(x)'
  <2>1. q'[x] = q[x] /\ bufs'[x] = bufs[x] /\ sent'[x] = sent[x]
    BY <1>10, <1>14, <1>19
  <2>2. Given(x)' = Given(x)
    BY <1>1, <2>1 DEF Given
  <2>3. Active(x) => Held(x)'
    <3>1. Active(x) => Held(x)
      BY ActiveFacts
    <3> QED
      BY <1>1, <2>1, <2>2, <3>1 DEF Held
  <2> QED
    BY <1>19, <2>1, <2>2, <2>3, SameOK
<1>20. PushActive'
  <2>1. Active(d)'
    BY <1>2, <1>8, <1>14 DEF Active
  <2>2. \A x \in Devs : Active(x) => Active(x)'
    BY <1>14, <2>1 DEF Active
  <2> QED
    BY <1>1, <2>2 DEF PushActive, InputInv, Typed, PcTyped
<1> QED
  BY <1>14, <1>18, <1>19, <1>20 DEF InputInv


(* A queue that refill_event_queue has filled. *)
LEMMA FilledFacts ==
    ASSUME InputInv, NEW d \in Devs, Active(d), pc.at = "refill", Given(d) = q[d].num
    PROVE  Outstanding(q[d]) = q[d].num /\ q[d].free_head = NoDesc
<1> DEFINE r == q[d]
           n == r.num
<1>1. r \in Queue(n) /\ n \in Nat \ {0} /\ Held(d)
  BY ActiveFacts
<1>2. r.last_used = 0 /\ r.avail.idx = n /\ FreeFrom(r, n)
  BY <1>1 DEF Held
<1>3. r.last_used \in Index16 /\ r.avail.idx \in Index16
  BY <1>1, QueueFacts
<1>4. Distance(r.last_used, r.avail.idx) = r.avail.idx
  <2> HIDE DEF r
  <2> QED
    BY <1>2, <1>3, DistanceFromZero
<1> QED
  BY <1>1, <1>2, <1>4 DEF Outstanding, FreeFrom

(* refill_event_queue gives the device one more buffer. *)
LEMMA RefillPushOK ==
    ASSUME InputInv, NEW d \in Devs, Refill(d), Active(d), pc.n < q[d].num
    PROVE  QueueInv(d)' /\ q'[d] \in Queue(q'[d].num) /\ Active(d)'
<1> DEFINE r == q[d]
           n == r.num
           b == pc.n
           v == virtq_push_buf(r, b)
<1>1. pc.at = "refill" /\ pc.dev = d
  BY DEF Refill
<1>2. /\ r \in Queue(n) /\ Fits(n) /\ n \in Nat \ {0} /\ n <= EVENT_BUF_COUNT
      /\ RingsInStep(r, Given(d)) /\ Held(d) /\ Kept(d)
  BY ActiveFacts
<1>3. Given(d) = b /\ b \in Nat /\ b \in 0 .. n - 1
  BY <1>1, <1>2 DEF Given, InputInv, Typed, PcTyped
<1>4. b < EVENT_BUF_COUNT
  BY <1>2, <1>3, VirtqAssumption DEF EVENT_BUF_COUNT
<1>5. q' = [q EXCEPT ![d] = v] /\ pc' = At("refill", d, b + 1) /\ bufs' = bufs /\ sent' = sent
  BY <1>1, <1>4 DEF Refill
<1>6. q'[d] = v /\ pc'.at = "refill" /\ pc'.dev = d /\ pc'.n = b + 1
  BY <1>5 DEF InputInv, Typed, At
<1>7. /\ r.last_used = 0 /\ r.avail.idx = b /\ r.free_head = b
      /\ \A i \in b .. n - 1 : r.desc[i].next = IF i = n - 1 THEN NoDesc ELSE i + 1
  BY <1>1, <1>2, <1>3 DEF Held, FreeFrom
<1>8. r.last_used \in Index16 /\ r.avail.idx \in Index16
  BY <1>2, QueueFacts
<1> HIDE DEF v, n, r, b
<1>9. Outstanding(r) = b
  BY <1>7, <1>8, DistanceFromZero DEF Outstanding
<1>10. b = r.avail.idx % n
  BY <1>2, <1>3, <1>7
<1>11. /\ v \in Queue(n) /\ RingsInStep(v, b + 1)
       /\ Completed(v) = Completed(r)
       /\ v.free_head = r.desc[b].next
       /\ \A i \in 0 .. n - 1 : i # b => v.desc[i] = r.desc[i]
       /\ v.last_used = r.last_used /\ v.avail.idx = Advance(r.avail.idx)
  <2>1. b \in 0 .. n /\ b + 1 \in 0 .. n /\ Outstanding(r) < n
    BY <1>2, <1>3, <1>9
  <2>2. v = virtq_push_buf(r, b)
    BY DEF v
  <2>3. RingsInStep(r, b)
    BY <1>2, <1>3
  <2>4. Pushed(n, r, b, b + 1, v)
    BY <1>2, <1>7, <1>10, <2>1, <2>2, <2>3, PushOK
  <2> QED
    BY <2>4 DEF Pushed
<1>12. v.num = n
  BY <1>11, QueueFacts
<1>13. v.avail.idx = b + 1
  <2>1. n < IndexModulus /\ IndexModulus \in Nat
    BY <1>2, FitsFacts
  <2>2. Advance(b) = IF b + 1 = IndexModulus THEN 0 ELSE b + 1
    BY <1>7, <1>8, AdvanceFacts
  <2> QED
    BY <1>2, <1>3, <1>7, <1>11, <2>1, <2>2
<1>14. Given(d)' = b + 1
  BY <1>2, <1>3, <1>6, <1>12 DEF Given
<1>15. FreeFrom(v, b + 1)
  <2>1. v.free_head = IF b + 1 < n THEN b + 1 ELSE NoDesc
    BY <1>2, <1>3, <1>7, <1>11
  <2>2. ASSUME NEW i \in b + 1 .. n - 1
        PROVE  v.desc[i].next = IF i = n - 1 THEN NoDesc ELSE i + 1
    <3>1. i \in 0 .. n - 1 /\ i # b /\ i \in b .. n - 1
      BY <1>2, <1>3
    <3> QED
      BY <1>7, <1>11, <3>1
  <2> QED
    BY <1>12, <2>1, <2>2 DEF FreeFrom
<1>16. Held(d)'
  BY <1>6, <1>7, <1>11, <1>13, <1>14, <1>15 DEF Held
<1>17. Kept(d)'
  BY <1>2, <1>5, <1>6, <1>11, <1>12 DEF Kept, r, n
<1>18. QueueInv(d)'
  BY <1>2, <1>6, <1>11, <1>12, <1>14, <1>16, <1>17 DEF QueueInv, Fits
<1> QED
  BY <1>2, <1>6, <1>11, <1>12, <1>18 DEF Active

(* refill_event_queue, as a whole. *)
LEMMA RefillOK ==
    ASSUME InputInv, NEW d \in Devs, Refill(d)
    PROVE  InputInv'
<1>1. /\ pc.at = "refill" /\ pc.dev = d /\ pc.n \in Nat
      /\ bufs' = bufs /\ sent' = sent
  BY DEF Refill, InputInv, Typed, PcTyped
<1>2. CASE Active(d) /\ pc.n < EVENT_BUF_COUNT
  <2>1. q' = [q EXCEPT ![d] = virtq_push_buf(q[d], pc.n)] /\ pc' = At("refill", d, pc.n + 1)
    BY <1>2 DEF Refill
  <2>2. pc'.at = "refill" /\ pc'.dev = d /\ pc'.n = pc.n + 1 /\ PcTyped' /\ PushActive'
    BY <1>1, <2>1 DEF At, PcTyped, PushActive
  <2>3. q[d].num \in Nat \ {0} /\ q[d] \in Queue(q[d].num) /\ Held(d) /\ QueueInv(d)
    BY <1>2, ActiveFacts DEF InputInv
  <2>4. QueueInv(d)' /\ q'[d] \in Queue(q'[d].num)
    <3>1. CASE pc.n < q[d].num
      BY <1>2, <3>1, RefillPushOK
    <3>2. CASE ~ (pc.n < q[d].num)
      <4>1. Given(d) = q[d].num
        BY <1>1, <3>2 DEF Given
      <4>2. q[d].free_head = NoDesc
        BY <1>1, <1>2, <4>1, FilledFacts
      <4>3. virtq_push_buf(q[d], pc.n) = q[d]
        BY <4>2 DEF virtq_push_buf
      <4>4. q'[d] = q[d]
        BY <2>1, <4>3 DEF InputInv, Typed
      <4>5. Given(d)' = Given(d)
        <5>1. ~ (pc.n + 1 < q[d].num)
          BY <1>1, <2>3, <3>2
        <5> QED
          BY <2>2, <4>1, <4>4, <5>1 DEF Given
      <4>6. Held(d)'
        BY <1>1, <2>2, <2>3, <4>4, <4>5 DEF Held
      <4>7. Active(d)'
        BY <1>2, <4>4 DEF Active
      <4> QED
        BY <1>1, <2>3, <4>4, <4>5, <4>6, <4>7, SameOK
    <3> QED
      BY <3>1, <3>2
  <2>5. q' = [q EXCEPT ![d] = q'[d]] /\ \A x \in Devs : x # d => q'[x] = q[x]
    BY <2>1 DEF InputInv, Typed
  <2>6. Typed'
    <3>1. /\ bufs' = [x \in Devs |-> bufs'[x]] /\ \A x \in Devs : DOMAIN bufs'[x] = 0 .. EVENT_BUF_COUNT - 1
          /\ sent' = [x \in Devs |-> sent'[x]] /\ \A x \in Devs : IsSeq(sent'[x])
      BY <1>1 DEF InputInv, Typed
    <3> QED
      BY <2>2, <2>4, <2>5, <3>1, TypedOK
  <2>7. ASSUME NEW x \in Devs, x # d, Active(x)' PROVE QueueInv(x)'
    <3>1. q'[x] = q[x] /\ bufs'[x] = bufs[x] /\ sent'[x] = sent[x]
      BY <1>1, <2>5, <2>7
    <3>2. Given(x)' = Given(x)
      BY <1>1, <2>2, <2>7, <3>1 DEF Given
    <3>3. Active(x) => Held(x)'
      <4>1. Active(x) => Held(x)
        BY ActiveFacts
      <4> QED
        BY <1>1, <2>2, <3>1, <3>2, <4>1 DEF Held
    <3> QED
      BY <2>7, <3>1, <3>2, <3>3, SameOK
  <2> QED
    BY <2>2, <2>4, <2>6, <2>7 DEF InputInv
<1>3. CASE ~ (Active(d) /\ pc.n < EVENT_BUF_COUNT)
  <2>1. q' = q /\ pc' = AfterRefill(d)
    BY <1>3 DEF Refill
  <2>2. \/ d = "kbd" /\ pc'.at = "refill" /\ pc'.dev = "tablet" /\ pc'.n = 0
        \/ d = "tablet" /\ pc'.at = "drain" /\ pc'.dev = "tablet"
    BY <2>1 DEF AfterRefill, At, Devs
  <2>3. PcTyped' /\ PushActive'
    BY <2>2 DEF PcTyped, PushActive, Devs
  <2>4. Typed'
    BY <1>1, <2>1, <2>3 DEF InputInv, Typed
  <2>5. ASSUME NEW x \in Devs, Active(x)' PROVE QueueInv(x)'
    <3>1. Active(x) /\ q'[x] = q[x]
      BY <2>1, <2>5 DEF Active
    <3>2. q[x].num \in Nat \ {0} /\ q[x].num <= EVENT_BUF_COUNT /\ EVENT_BUF_COUNT \in Nat /\ Held(x)
      BY <3>1, ActiveFacts, VirtqAssumption DEF EVENT_BUF_COUNT
    <3>3. x = d \/ d = "tablet" => Given(x) = q[x].num
      <4>1. CASE x = d
        <5>1. ~ (pc.n < q[x].num)
          BY <1>1, <1>3, <3>1, <3>2, <4>1
        <5> QED
          BY <1>1, <4>1, <5>1 DEF Given
      <4>2. CASE x # d /\ d = "tablet"
        BY <1>1, <4>2 DEF Given, Devs
      <4> QED
        BY <4>1, <4>2
    <3>4. Given(x)' = Given(x)
      <4>1. CASE d = "tablet"
        BY <2>2, <3>1, <3>3, <4>1 DEF Given
      <4>2. CASE d = "kbd" /\ x = "kbd"
        BY <2>2, <3>1, <3>3, <4>2 DEF Given
      <4>3. CASE d = "kbd" /\ x = "tablet"
        BY <1>1, <2>2, <3>1, <3>2, <4>3 DEF Given
      <4> QED
        BY <4>1, <4>2, <4>3 DEF Devs
    <3>5. Held(x)'
      <4>1. CASE d = "tablet"
        <5>1. Outstanding(q[x]) = q[x].num /\ q[x].free_head = NoDesc
          BY <1>1, <3>1, <3>3, <4>1, FilledFacts
        <5> QED
          BY <2>2, <3>1, <4>1, <5>1 DEF Held
      <4>2. CASE d = "kbd"
        BY <1>1, <2>2, <3>1, <3>2, <3>4, <4>2 DEF Held
      <4> QED
        BY <4>1, <4>2 DEF Devs
    <3> QED
      BY <1>1, <2>5, <3>1, <3>4, <3>5, SameOK
  <2> QED
    BY <2>3, <2>4, <2>5 DEF InputInv
<1> QED
  BY <1>2, <1>3


(* The part of a step of drain_events that is not about the queue of d itself. *)
LEMMA DrainFrame ==
    ASSUME InputInv, NEW d \in Devs, pc.at \in {"drain", "push"}, pc.dev = d,
           pc'.at \in {"drain", "push"}, pc'.dev = d,
           q' = [q EXCEPT ![d] = q'[d]], bufs' = bufs, sent' = [sent EXCEPT ![d] = sent'[d]],
           q'[d] \in Queue(q'[d].num), Active(d)', QueueInv(d)', IsSeq(sent'[d])
    PROVE  InputInv'
<1>1. \A x \in Devs : x # d => q'[x] = q[x] /\ sent'[x] = sent[x]
  BY DEF InputInv, Typed
<1>2. Typed'
  <2>1. /\ bufs' = [x \in Devs |-> bufs'[x]] /\ \A x \in Devs : DOMAIN bufs'[x] = 0 .. EVENT_BUF_COUNT - 1
        /\ sent' = [x \in Devs |-> sent'[x]] /\ \A x \in Devs : IsSeq(sent'[x])
    BY <1>1 DEF InputInv, Typed
  <2>2. PcTyped'
    BY DEF PcTyped
  <2> QED
    BY <2>1, <2>2, TypedOK
<1>3. ASSUME NEW x \in Devs, x # d, Active(x)' PROVE QueueInv(x)'
  <2>1. q'[x] = q[x] /\ bufs'[x] = bufs[x] /\ sent'[x] = sent[x]
    BY <1>1, <1>3
  <2>2. /\ pc.at # "refill" /\ pc'.at # "refill"
        /\ ~ (pc.at = "push" /\ pc.dev = x) /\ ~ (pc'.at = "push" /\ pc'.dev = x)
    BY <1>3
  <2> QED
    BY <1>3, <2>1, <2>2, OtherOK
<1>4. PushActive'
  BY DEF PushActive, Active
<1> QED
  BY <1>2, <1>3, <1>4 DEF InputInv

(* drain_events takes a buffer. *)
LEMMA DrainPopOK ==
    ASSUME InputInv, NEW d \in Devs, DrainPop(d)
    PROVE  InputInv'
<1> DEFINE r == q[d]
           n == r.num
           v == virtq_pop_used(r)
           id == UsedElem(r).id
<1>1. pc.at = "drain" /\ pc.dev = d /\ Active(d) /\ virtq_has_used(r)
  BY DEF DrainPop, HasEvents
<1>2. /\ q' = [q EXCEPT ![d] = v] /\ pc' = At("push", d, id) /\ bufs' = bufs
      /\ sent' = [sent EXCEPT ![d] = Tail(sent[d])]
  BY DEF DrainPop
<1>3. /\ r \in Queue(n) /\ Fits(n) /\ n \in Nat \ {0} /\ n <= EVENT_BUF_COUNT
      /\ RingsInStep(r, Given(d)) /\ Held(d) /\ Kept(d)
  BY <1>1, ActiveFacts
<1>4. Given(d) = n /\ Outstanding(r) = n /\ r.free_head = NoDesc
  BY <1>1, <1>3 DEF Given, Held
<1>5. /\ q'[d] = v /\ pc'.at = "push" /\ pc'.dev = d /\ pc'.n = id
      /\ sent'[d] = Tail(sent[d]) /\ IsSeq(sent[d])
  BY <1>2 DEF InputInv, Typed, At
<1>6. Len(sent[d]) = Completed(r) /\ \A k \in 0 .. Completed(r) - 1 :
                                         bufs[d][(r.last_used + k) % n] = sent[d][k + 1]
  BY <1>3 DEF Kept
<1>7. r.last_used \in Index16 /\ r.used.idx \in Index16
  BY <1>3, QueueFacts
<1> HIDE DEF v, id, n, r
<1>8. /\ v \in Queue(n) /\ RingsInStep(v, n)
      /\ Outstanding(v) = n - 1 /\ Completed(v) = Completed(r) - 1 /\ Completed(r) > 0
      /\ v.free_head = id /\ v.desc[id].next = NoDesc /\ id = v.avail.idx % n
      /\ v.last_used = Advance(r.last_used)
  <2>1. v = virtq_pop_used(r) /\ id = UsedElem(r).id /\ RingsInStep(r, n)
    BY <1>3, <1>4 DEF v, id
  <2> QED
    BY <1>1, <1>3, <1>4, <2>1, PopOK
<1>9. v.num = n
  BY <1>8, QueueFacts
<1>10. Given(d)' = n /\ Held(d)'
  <2>1. Given(d)' = n
    BY <1>5, <1>9 DEF Given
  <2> QED
    BY <1>5, <1>8, <1>9, <2>1 DEF Held
<1>11. /\ Completed(r) \in Nat /\ IsSeq(sent'[d]) /\ Len(sent'[d]) = Completed(r) - 1
       /\ \A i \in 1 .. Completed(r) - 1 : sent'[d][i] = sent[d][i + 1]
  BY <1>5, <1>6, <1>8, SeqSteps
<1>12. Kept(d)'
  <2>1. ASSUME NEW k \in 0 .. Completed(v) - 1
        PROVE  bufs'[d][(v.last_used + k) % n] = sent'[d][k + 1]
    <3>1. k \in Nat /\ k + 1 \in 0 .. Completed(r) - 1 /\ k + 1 \in 1 .. Completed(r) - 1
      BY <1>8, <1>11
    <3>2. (v.last_used + k) % n = (r.last_used + (k + 1)) % n
      <4>1. (Advance(r.last_used) + k) % n = (r.last_used + (k + 1)) % n
        BY <1>3, <1>7, <3>1, WrapKeepsPlace DEF Fits
      <4> QED
        BY <1>8, <4>1
    <3>3. sent'[d][k + 1] = sent[d][(k + 1) + 1]
      BY <1>11, <3>1
    <3>4. bufs[d][(r.last_used + (k + 1)) % n] = sent[d][(k + 1) + 1]
      BY <1>6, <3>1
    <3> QED
      BY <1>2, <3>2, <3>3, <3>4
  <2> QED
    BY <1>5, <1>8, <1>9, <1>11, <2>1 DEF Kept
<1>13. QueueInv(d)' /\ q'[d] \in Queue(q'[d].num) /\ Active(d)'
  <2>1. QueueInv(d)'
    BY <1>3, <1>5, <1>8, <1>9, <1>10, <1>12 DEF QueueInv, Fits
  <2> QED
    BY <1>3, <1>5, <1>8, <1>9, <2>1 DEF Active
<1>14. q' = [q EXCEPT ![d] = q'[d]] /\ sent' = [sent EXCEPT ![d] = sent'[d]]
  BY <1>2, <1>5
<1> QED
  BY <1>1, <1>2, <1>5, <1>11, <1>13, <1>14, DrainFrame

(* drain_events gives the buffer back. *)
LEMMA DrainPushOK ==
    ASSUME InputInv, NEW d \in Devs, DrainPush(d)
    PROVE  InputInv'
<1> DEFINE r == q[d]
           n == r.num
           b == pc.n
           v == virtq_push_buf(r, b)
<1>1. pc.at = "push" /\ pc.dev = d /\ Active(d)
  BY DEF DrainPush, InputInv, PushActive
<1>2. /\ q' = [q EXCEPT ![d] = v] /\ pc' = At("drain", d, 0) /\ bufs' = bufs /\ sent' = sent
  BY DEF DrainPush
<1>3. /\ r \in Queue(n) /\ Fits(n) /\ n \in Nat \ {0} /\ n <= EVENT_BUF_COUNT
      /\ RingsInStep(r, Given(d)) /\ Held(d) /\ Kept(d)
  BY <1>1, ActiveFacts
<1>4. /\ Given(d) = n /\ Outstanding(r) = n - 1 /\ b = r.avail.idx % n
      /\ r.free_head = b /\ r.desc[b].next = NoDesc
  BY <1>1, <1>3 DEF Given, Held
<1>5. q'[d] = v /\ pc'.at = "drain" /\ pc'.dev = d /\ IsSeq(sent[d])
  BY <1>2 DEF InputInv, Typed, At
<1> HIDE DEF v, n, r, b
<1>6. /\ v \in Queue(n) /\ RingsInStep(v, n)
      /\ Outstanding(v) = Outstanding(r) + 1 /\ Completed(v) = Completed(r)
      /\ v.free_head = r.desc[b].next
      /\ v.last_used = r.last_used
  <2>1. v = virtq_push_buf(r, b) /\ n \in 0 .. n /\ Outstanding(r) < n
    BY <1>3, <1>4 DEF v
  <2>2. Fits(n) /\ r \in Queue(n) /\ RingsInStep(r, n)
    BY <1>3, <1>4
  <2>3. b = r.avail.idx % n /\ r.free_head = b
    BY <1>4
  <2>4. Pushed(n, r, b, n, v)
    BY <2>1, <2>2, <2>3, PushOK
  <2> QED
    BY <2>4 DEF Pushed
<1>7. v.num = n
  BY <1>6, QueueFacts
<1>8. Given(d)' = n
  BY <1>5, <1>7 DEF Given
<1>9. Held(d)'
  <2>1. Outstanding(v) = n /\ v.free_head = NoDesc
    BY <1>3, <1>4, <1>6
  <2> QED
    BY <1>5, <1>7, <2>1 DEF Held
<1>10. Kept(d)'
  BY <1>2, <1>3, <1>5, <1>6, <1>7 DEF Kept, r, n
<1>11. QueueInv(d)' /\ q'[d] \in Queue(q'[d].num) /\ Active(d)'
  <2>1. QueueInv(d)'
    BY <1>3, <1>5, <1>6, <1>7, <1>8, <1>9, <1>10 DEF QueueInv, Fits
  <2> QED
    BY <1>3, <1>5, <1>6, <1>7, <2>1 DEF Active
<1>12. /\ q' = [q EXCEPT ![d] = q'[d]] /\ sent' = [sent EXCEPT ![d] = sent'[d]]
       /\ IsSeq(sent'[d])
  BY <1>2, <1>5 DEF InputInv, Typed
<1> QED
  BY <1>1, <1>2, <1>5, <1>11, <1>12, DrainFrame

(* The steps that leave the queues alone. *)
LEMMA IdleOK ==
    ASSUME InputInv, q' = q, bufs' = bufs, sent' = sent,
           pc.at \in {"drain", "pop", "uart"}, pc'.at \in {"drain", "pop", "uart"}, pc'.dev \in Devs
    PROVE  InputInv'
<1>1. Typed' /\ PushActive'
  BY DEF InputInv, Typed, PcTyped, PushActive
<1>2. ASSUME NEW x \in Devs, Active(x)' PROVE QueueInv(x)'
  <2>1. /\ q'[x] = q[x] /\ bufs'[x] = bufs[x] /\ sent'[x] = sent[x]
        /\ pc.at # "refill" /\ pc'.at # "refill"
        /\ ~ (pc.at = "push" /\ pc.dev = x) /\ ~ (pc'.at = "push" /\ pc'.dev = x)
    OBVIOUS
  <2> QED
    BY <1>2, <2>1, OtherOK
<1> QED
  BY <1>1, <1>2 DEF InputInv

(* Every step. *)
LEMMA InputStep == InputInv /\ [Next]_vars => InputInv'
<1> SUFFICES ASSUME InputInv, [Next]_vars PROVE InputInv'
  OBVIOUS
<1>1. ASSUME NEW d \in Devs, NEW e \in Events(d), DeviceEvent(d, e, TRUE) PROVE InputInv'
  BY <1>1, DeviceEventOK
<1>2. ASSUME NEW d \in Devs, DeviceEvent(d, EV_SYN, FALSE) PROVE InputInv'
  BY <1>2, DeviceEventOK
<1>3. ASSUME NEW d \in Devs, Refill(d) PROVE InputInv'
  BY <1>3, RefillOK
<1>4. ASSUME NEW d \in Devs, DrainPop(d) PROVE InputInv'
  BY <1>4, DrainPopOK
<1>5. ASSUME NEW d \in Devs, DrainPush(d) PROVE InputInv'
  BY <1>5, DrainPushOK
<1>6. ASSUME NEW d \in Devs, DrainDone(d) PROVE InputInv'
  <2>1. /\ q' = q /\ bufs' = bufs /\ sent' = sent /\ pc.at = "drain"
        /\ pc' = At("drain", "kbd", 0) \/ pc' = At("pop", "kbd", 0)
    BY <1>6 DEF DrainDone
  <2>2. pc'.at \in {"drain", "pop"} /\ pc'.dev \in Devs
    BY <2>1 DEF At, Devs
  <2> QED
    BY <2>1, <2>2, IdleOK
<1>7. CASE KeyRingPop
  <2>1. /\ q' = q /\ bufs' = bufs /\ sent' = sent /\ pc.at = "pop"
        /\ pc' = At("uart", "kbd", 0) \/ pc' = At("drain", "kbd", 0)
    BY <1>7 DEF KeyRingPop
  <2>2. pc'.at \in {"drain", "uart"} /\ pc'.dev \in Devs
    BY <2>1 DEF At, Devs
  <2> QED
    BY <2>1, <2>2, IdleOK
<1>8. CASE UartPoll
  <2>1. /\ q' = q /\ bufs' = bufs /\ sent' = sent /\ pc.at = "uart"
        /\ pc' = At("drain", "tablet", 0) \/ pc' = At("drain", "kbd", 0)
    BY <1>8 DEF UartPoll
  <2>2. pc'.at = "drain" /\ pc'.dev \in Devs
    BY <2>1 DEF At, Devs
  <2> QED
    BY <2>1, <2>2, IdleOK
<1>9. CASE UNCHANGED vars
  BY <1>9 DEF vars, InputInv, Typed, PcTyped, PushActive, Active, QueueInv, Given, Held, Kept
<1> QED
  BY <1>1, <1>2, <1>3, <1>4, <1>5, <1>6, <1>7, <1>8, <1>9 DEF Next


(* A nonempty set of naturals has a least element. *)
LEMMA LeastNatural ==
    ASSUME NEW S, S \subseteq Nat, S # {}
    PROVE  \E m \in S : \A j \in S : m <= j
<1>1. PICK m \in S : \A j \in S : ~ (<<j, m>> \in OpToRel(<, Nat))
  BY NatLessThanWellFounded, WFMin
<1>2. \A j \in S : ~ (j < m)
  BY <1>1 DEF OpToRel
<1> QED
  BY <1>2

(* And one up to a bound has a greatest. *)
LEMMA GreatestUpTo ==
    ASSUME NEW n \in Nat, NEW S, S \subseteq 1 .. n, S # {}
    PROVE  \E m \in S : \A j \in S : j <= m
<1> DEFINE T == {n - i : i \in S}
<1>1. T \subseteq Nat /\ T # {}
  OBVIOUS
<1>2. PICK t \in T : \A u \in T : t <= u
  <2> HIDE DEF T
  <2> QED
    BY <1>1, LeastNatural
<1>3. PICK m \in S : t = n - m
  OBVIOUS
<1>4. \A j \in S : n - m <= n - j
  BY <1>2, <1>3
<1> QED
  BY <1>4

(* What virtq_setup makes of a device's queue. *)
LEMMA SetupFacts ==
    ASSUME NEW m \in Nat \ {0}, IndexModulus % m = 0, NEW v, v = virtq_setup(m)
    PROVE  /\ v.num \in 1 .. VIRTQ_SIZE /\ IndexModulus % v.num = 0
           /\ v \in Queue(v.num)
           /\ v.last_used = 0 /\ v.avail.idx = 0 /\ v.used.idx = 0 /\ v.taken = 0
           /\ FreeFrom(v, 0)
<1> DEFINE s == IF VIRTQ_SIZE > m THEN m ELSE VIRTQ_SIZE
           D == [i \in 0 .. s - 1 |-> [addr |-> NoDesc, next |-> IF i = s - 1 THEN NoDesc ELSE i + 1]]
           A == [idx |-> 0, ring |-> [i \in 0 .. s - 1 |-> 0]]
           U == [idx |-> 0, ring |-> [i \in 0 .. s - 1 |-> [id |-> 0, full |-> FALSE]]]
<1>1. s \in 1 .. VIRTQ_SIZE /\ IndexModulus % s = 0 /\ s \in Nat \ {0}
  BY VirtqAssumption
<1>2. v = [num |-> s, desc |-> D, free_head |-> 0, avail |-> A, used |-> U, last_used |-> 0, taken |-> 0]
  BY DEF virtq_setup
<1> HIDE DEF s
<1>3. 0 \in 0 .. IndexModulus - 1 /\ 0 \in 0 .. s - 1
  BY <1>1, VirtqAssumption
<1>4. D \in [0 .. s - 1 -> Desc]
  BY <1>1 DEF Desc, NoDesc
<1>5. A \in [idx : 0 .. IndexModulus - 1, ring : [0 .. s - 1 -> 0 .. s - 1]]
  BY <1>3
<1>6. U \in [idx : 0 .. IndexModulus - 1, ring : [0 .. s - 1 -> Elem(s)]]
  BY <1>3 DEF Elem
<1>7. A.idx = 0 /\ U.idx = 0
  OBVIOUS
<1>8. \A i \in 0 .. s - 1 : D[i].next = IF i = s - 1 THEN NoDesc ELSE i + 1
  OBVIOUS
<1> HIDE DEF A, U, D
<1>9. /\ v.num = s /\ v \in Queue(s) /\ v.free_head = 0 /\ v.desc = D
      /\ v.last_used = 0 /\ v.taken = 0 /\ v.avail.idx = 0 /\ v.used.idx = 0
  BY <1>2, <1>3, <1>4, <1>5, <1>6, <1>7 DEF Queue
<1>10. FreeFrom(v, 0)
  BY <1>1, <1>8, <1>9 DEF FreeFrom
<1> QED
  BY <1>1, <1>9, <1>10

(* A device's queue is set up, or the device is not used. *)
LEMMA ChosenFacts ==
    ASSUME NEW machine \in Machines, NEW nm \in Names(machine), NEW name, NEW ok
    PROVE  \/ Chosen(machine, nm, name, ok) = NoQueue
           \/ \E m \in Nat \ {0} : IndexModulus % m = 0 /\ Chosen(machine, nm, name, ok) = virtq_setup(m)
<1> DEFINE those == {i \in InputDevices(machine) : nm[i] = name}
           last == CHOOSE i \in those : \A j \in those : j <= i
           m == machine[last].max
<1>1. CASE those = {} \/ ~ ok
  BY <1>1 DEF Chosen
<1>2. CASE those # {} /\ ok
  <2>1. Len(machine) \in Nat /\ those \subseteq 1 .. Len(machine)
    BY InputAssumption DEF InputDevices, virtio_probe
  <2>2. \E i \in those : \A j \in those : j <= i
    <3> HIDE DEF those
    <3> QED
      BY <1>2, <2>1, GreatestUpTo
  <2>3. last \in those
    <3> HIDE DEF those
    <3> QED
      BY <2>2
  <2>4. last \in 1 .. Len(machine)
    BY <2>1, <2>3
  <2>5. m \in Nat /\ (m # 0 => IndexModulus % m = 0)
    <3> HIDE DEF last
    <3> QED
      BY <2>4, InputAssumption
  <2>6. Chosen(machine, nm, name, ok) = IF m = 0 THEN NoQueue ELSE virtq_setup(m)
    BY <1>2 DEF Chosen
  <2> HIDE DEF m
  <2> QED
    BY <2>5, <2>6
<1> QED
  BY <1>1, <1>2

(* The initial state. *)
LEMMA InputInit == Init => InputInv
<1> SUFFICES ASSUME Init PROVE InputInv
  OBVIOUS
<1>1. pc.at = "refill" /\ pc.dev = "kbd" /\ pc.n = 0
  BY DEF Init, At
<1>2. ASSUME NEW d \in Devs
      PROVE  q[d] = NoQueue \/ \E m \in Nat \ {0} : IndexModulus % m = 0 /\ q[d] = virtq_setup(m)
  <2>1. PICK machine \in Machines :
            \E nm \in Names(machine), ok \in [Devs -> BOOLEAN] :
               q = [x \in Devs |-> Chosen(machine, nm,
                                          IF x = "kbd" THEN "keyboard" ELSE "other", ok[x])]
    BY DEF Init
  <2>2. PICK nm \in Names(machine), ok \in [Devs -> BOOLEAN] :
            q = [x \in Devs |-> Chosen(machine, nm,
                                       IF x = "kbd" THEN "keyboard" ELSE "other", ok[x])]
    BY <2>1
  <2>3. q[d] = Chosen(machine, nm, IF d = "kbd" THEN "keyboard" ELSE "other", ok[d])
    BY <2>2
  <2> QED
    BY <2>3, ChosenFacts
<1>3. q = [d \in Devs |-> q[d]]
  BY DEF Init
<1>4. Typed
  <2>1. \A d \in Devs : q[d] = NoQueue \/ q[d] \in Queue(q[d].num)
    <3> SUFFICES ASSUME NEW d \in Devs, q[d] # NoQueue PROVE q[d] \in Queue(q[d].num)
      OBVIOUS
    <3>1. PICK m \in Nat \ {0} : IndexModulus % m = 0 /\ q[d] = virtq_setup(m)
      BY <1>2
    <3> QED
      BY <3>1, SetupFacts
  <2>2. /\ bufs = [d \in Devs |-> bufs[d]] /\ \A d \in Devs : DOMAIN bufs[d] = 0 .. EVENT_BUF_COUNT - 1
        /\ sent = [d \in Devs |-> sent[d]] /\ \A d \in Devs : sent[d] = <<>>
    BY DEF Init
  <2>3. IsSeq(<<>>)
    BY DEF IsSeq
  <2> QED
    BY <1>1, <1>3, <2>1, <2>2, <2>3 DEF Typed, PcTyped, Devs
<1>5. PushActive
  BY <1>1 DEF PushActive
<1>6. ASSUME NEW d \in Devs, Active(d) PROVE QueueInv(d)
  <2>1. q[d] # NoQueue
    BY <1>6 DEF NoQueue, Active
  <2>2. PICK m \in Nat \ {0} : IndexModulus % m = 0 /\ q[d] = virtq_setup(m)
    BY <1>2, <2>1
  <2>3. /\ q[d].num \in 1 .. VIRTQ_SIZE /\ IndexModulus % q[d].num = 0
        /\ q[d] \in Queue(q[d].num)
        /\ q[d].last_used = 0 /\ q[d].avail.idx = 0 /\ q[d].used.idx = 0 /\ q[d].taken = 0
        /\ FreeFrom(q[d], 0)
    BY <2>2, SetupFacts
  <2>4. Given(d) = 0
    BY <1>1, <2>3, VirtqAssumption DEF Given, Devs
  <2>5. Outstanding(q[d]) = 0 /\ Completed(q[d]) = 0
    <3>1. 0 \in Index16
      BY VirtqAssumption DEF Index16
    <3>2. Distance(0, 0) = 0
      BY <3>1, DistanceFromZero
    <3> QED
      BY <2>3, <3>2 DEF Outstanding, Completed
  <2>6. RingsInStep(q[d], 0)
    <3>1. 0 <= q[d].num /\ 0 .. 0 - 1 = {}
      BY <2>3, VirtqAssumption
    <3> QED
      BY <2>3, <2>5, <3>1 DEF RingsInStep
  <2>7. Held(d)
    BY <1>1, <2>3, <2>4 DEF Held
  <2>8. Kept(d)
    <3>1. sent[d] = <<>> /\ Len(<<>>) = 0 /\ 0 .. 0 - 1 = {}
      BY DEF Init
    <3> QED
      BY <2>5, <3>1 DEF Kept
  <2> QED
    BY <2>3, <2>4, <2>6, <2>7, <2>8 DEF QueueInv
<1> QED
  BY <1>4, <1>5, <1>6 DEF InputInv

(* The inductive invariant of the input queues.                              *)
THEOREM InputInvariant == Spec => []InputInv
<1>1. Init => InputInv
  BY InputInit
<1>2. InputInv /\ [Next]_vars => InputInv'
  BY InputStep
<1> QED
  BY <1>1, <1>2, PTL DEF Spec


(* The invariant says where every pending event is. *)
LEMMA EventsFromInv == InputInv => EventsIntact
<1> SUFFICES ASSUME InputInv, NEW d \in Devs, Active(d)
             PROVE  /\ Len(sent[d]) = Distance(q[d].last_used, q[d].used.idx)
                    /\ \A k \in 1 .. Len(sent[d]) :
                          bufs[d][q[d].used.ring[(q[d].last_used + k - 1) % q[d].num].id] = sent[d][k]
  BY DEF EventsIntact
<1> DEFINE r == q[d]
           n == r.num
           l == r.last_used
<1>1. /\ r \in Queue(n) /\ n \in Nat \ {0} /\ RingsInStep(r, Given(d)) /\ Kept(d)
  BY ActiveFacts
<1>2. l \in Index16 /\ l \in Int
  BY <1>1, QueueFacts, VirtqAssumption DEF Index16
<1>3. Len(sent[d]) = Completed(r) /\ Len(sent[d]) \in Nat
  <2>1. IsSeq(sent[d])
    BY DEF InputInv, Typed
  <2> QED
    BY <1>1, <2>1, SeqSteps DEF Kept
<1>4. ASSUME NEW k \in 1 .. Len(sent[d])
      PROVE  bufs[d][r.used.ring[(l + k - 1) % n].id] = sent[d][k]
  <2>1. k - 1 \in 0 .. Completed(r) - 1 /\ (k - 1) + 1 = k /\ l + k - 1 = l + (k - 1)
    BY <1>2, <1>3
  <2>2. r.used.ring[(l + (k - 1)) % n].id = (l + (k - 1)) % n
    BY <1>1, <2>1 DEF RingsInStep
  <2>3. bufs[d][(l + (k - 1)) % n] = sent[d][(k - 1) + 1]
    BY <1>1, <2>1 DEF Kept
  <2> HIDE DEF l, n, r
  <2> QED
    BY <2>1, <2>2, <2>3, Zenon
<1> QED
  BY <1>3, <1>4 DEF Completed

(* EventsIntact, for every queue size and every width of the ring indices:   *)
(* what drain_events will read from the buffers is what the devices wrote    *)
(* and nobody has handled, in order, also when the 16-bit indices wrap.      *)
THEOREM EventsStayIntact == Spec => []EventsIntact
BY InputInvariant, EventsFromInv, PTL

-----------------------------------------------------------------------------
(* Where the descriptors are.                                                *)

\* The free list of r, link by link.
Links(r, g) ==
    g = [n \in 0 .. r.num |-> IF n = 0 THEN r.free_head
                              ELSE IF g[n - 1] = NoDesc THEN NoDesc ELSE r.desc[g[n - 1]].next]

(* There is only one such list: FreeDescs is made of the links of any.       *)
LEMMA FreeDescsLinks ==
    ASSUME NEW r, r.num \in Nat, NEW w, Links(r, w)
    PROVE  FreeDescs(r) = {w[n] : n \in 0 .. r.num} \ {NoDesc}
<1> DEFINE N == r.num
           g == CHOOSE h : Links(r, h)
           bad == {n \in 0 .. N : g[n] # w[n]}
<1>1. Links(r, g)
  OBVIOUS
<1>2. FreeDescs(r) = {g[n] : n \in 0 .. N} \ {NoDesc}
  BY DEF FreeDescs, Links
<1> HIDE DEF g
<1>3. /\ \A n \in 0 .. N : g[n] = IF n = 0 THEN r.free_head
                                  ELSE IF g[n - 1] = NoDesc THEN NoDesc ELSE r.desc[g[n - 1]].next
      /\ \A n \in 0 .. N : w[n] = IF n = 0 THEN r.free_head
                                  ELSE IF w[n - 1] = NoDesc THEN NoDesc ELSE r.desc[w[n - 1]].next
  BY <1>1 DEF Links
<1>4. bad = {}
  <2> SUFFICES ASSUME bad # {} PROVE FALSE
    OBVIOUS
  <2>1. PICK n \in bad : \A k \in bad : n <= k
    <3>1. bad \subseteq Nat
      OBVIOUS
    <3> HIDE DEF bad
    <3> QED
      BY <3>1, LeastNatural
  <2>2. n \in 0 .. N /\ g[n] # w[n]
    OBVIOUS
  <2>3. n # 0
    BY <1>3, <2>2
  <2>4. n - 1 \in 0 .. N /\ n - 1 \notin bad
    BY <2>1, <2>2, <2>3
  <2>5. g[n - 1] = w[n - 1]
    BY <2>4
  <2> QED
    BY <1>3, <2>2, <2>3, <2>5
<1>5. \A n \in 0 .. N : g[n] = w[n]
  BY <1>4
<1> QED
  BY <1>2, <1>5

(* The free list while the queue is filled, or when it is empty. *)
LEMMA FreeFromDescs ==
    ASSUME NEW r, r.num \in Nat, NEW lo \in 0 .. r.num, FreeFrom(r, lo)
    PROVE  FreeDescs(r) = lo .. r.num - 1
<1> DEFINE N == r.num
           w == [n \in 0 .. N |-> IF lo + n < N THEN lo + n ELSE NoDesc]
<1>1. \A n \in 0 .. N : w[n] = IF n = 0 THEN r.free_head
                               ELSE IF w[n - 1] = NoDesc THEN NoDesc ELSE r.desc[w[n - 1]].next
  <2> SUFFICES ASSUME NEW n \in 0 .. N
               PROVE  w[n] = IF n = 0 THEN r.free_head
                             ELSE IF w[n - 1] = NoDesc THEN NoDesc ELSE r.desc[w[n - 1]].next
    OBVIOUS
  <2>1. w[n] = IF lo + n < N THEN lo + n ELSE NoDesc
    OBVIOUS
  <2>2. CASE n = 0
    BY <2>1, <2>2 DEF FreeFrom
  <2>3. CASE n # 0
    <3>1. n - 1 \in 0 .. N /\ w[n - 1] = IF lo + n - 1 < N THEN lo + n - 1 ELSE NoDesc
      BY <2>3
    <3> HIDE DEF w
    <3>2. CASE lo + n - 1 < N
      <4>1. lo + n - 1 \in lo .. N - 1 /\ lo + n - 1 # NoDesc
        BY <2>3, <3>2 DEF NoDesc
      <4>2. r.desc[lo + n - 1].next = IF lo + n - 1 = N - 1 THEN NoDesc ELSE lo + n - 1 + 1
        BY <4>1 DEF FreeFrom
      <4>3. w[n - 1] = lo + n - 1
        BY <3>1, <3>2
      <4>4. (IF lo + n - 1 = N - 1 THEN NoDesc ELSE lo + n - 1 + 1) = IF lo + n < N THEN lo + n ELSE NoDesc
        BY <3>2
      <4> QED
        BY <2>1, <2>3, <4>1, <4>2, <4>3, <4>4
    <3>3. CASE ~ (lo + n - 1 < N)
      BY <2>1, <2>3, <3>1, <3>3
    <3> QED
      BY <3>2, <3>3
  <2> QED
    BY <2>2, <2>3
<1>2. Links(r, w)
  <2>1. w = [n \in 0 .. N |-> w[n]]
    OBVIOUS
  <2> HIDE DEF w
  <2> QED
    BY <1>1, <2>1 DEF Links
<1>3. {w[n] : n \in 0 .. N} \ {NoDesc} = lo .. N - 1
  <2>1. ASSUME NEW i \in lo .. N - 1 PROVE i \in {w[n] : n \in 0 .. N} /\ i # NoDesc
    <3>1. i - lo \in 0 .. N /\ w[i - lo] = i
      OBVIOUS
    <3> QED
      BY <3>1 DEF NoDesc
  <2>2. ASSUME NEW n \in 0 .. N, w[n] # NoDesc PROVE w[n] \in lo .. N - 1
    BY <2>2
  <2> QED
    BY <2>1, <2>2
<1> HIDE DEF w
<1> QED
  BY <1>2, <1>3, FreeDescsLinks

(* The free list while drain_events holds a buffer. *)
LEMMA FreeOneDesc ==
    ASSUME NEW r, r.num \in Nat \ {0}, NEW b \in Nat, r.free_head = b, r.desc[b].next = NoDesc
    PROVE  FreeDescs(r) = {b}
<1> DEFINE N == r.num
           w == [n \in 0 .. N |-> IF n = 0 THEN b ELSE NoDesc]
<1>1. b # NoDesc
  BY DEF NoDesc
<1>2. \A n \in 0 .. N : w[n] = IF n = 0 THEN r.free_head
                               ELSE IF w[n - 1] = NoDesc THEN NoDesc ELSE r.desc[w[n - 1]].next
  <2> SUFFICES ASSUME NEW n \in 0 .. N, n # 0
               PROVE  NoDesc = IF w[n - 1] = NoDesc THEN NoDesc ELSE r.desc[w[n - 1]].next
    OBVIOUS
  <2>1. n - 1 \in 0 .. N /\ (w[n - 1] = b \/ w[n - 1] = NoDesc)
    OBVIOUS
  <2> QED
    BY <2>1
<1>3. Links(r, w)
  <2>1. w = [n \in 0 .. N |-> w[n]]
    OBVIOUS
  <2> HIDE DEF w
  <2> QED
    BY <1>2, <2>1 DEF Links
<1>4. {w[n] : n \in 0 .. N} \ {NoDesc} = {b}
  <2>1. 0 \in 0 .. N /\ w[0] = b
    OBVIOUS
  <2>2. \A n \in 0 .. N : w[n] = b \/ w[n] = NoDesc
    OBVIOUS
  <2> HIDE DEF w
  <2> QED
    BY <1>1, <2>1, <2>2
<1> HIDE DEF w
<1> QED
  BY <1>3, <1>4, FreeDescsLinks


\* The descriptors from the driver's position in the used ring, as many as are out.
OutDescs(r) == {(r.last_used + k) % r.num : k \in 0 .. Outstanding(r) - 1}

(* What the device may take is what is out and not completed. *)
LEMMA DistanceSplit ==
    ASSUME NEW l \in Index16, NEW u \in Index16, NEW a \in Index16, Distance(l, u) <= Distance(l, a)
    PROVE  Distance(u, a) = Distance(l, a) - Distance(l, u)
<1>1. IndexModulus \in Nat /\ l \in 0 .. IndexModulus - 1 /\ u \in 0 .. IndexModulus - 1
      /\ a \in 0 .. IndexModulus - 1
  BY VirtqAssumption DEF Index16
<1>2. /\ Distance(l, u) = IF u >= l THEN u - l ELSE u - l + IndexModulus
      /\ Distance(l, a) = IF a >= l THEN a - l ELSE a - l + IndexModulus
      /\ Distance(u, a) = IF a >= u THEN a - u ELSE a - u + IndexModulus
  BY DistanceFacts
<1> QED
  BY <1>1, <1>2

(* The descriptors with the device and the completed ones are a stretch of   *)
(* the ring.                                                                 *)
LEMMA OutFacts ==
    ASSUME NEW n, Fits(n), NEW r \in Queue(n), NEW given \in 0 .. n, RingsInStep(r, given),
           \A k \in 0 .. Outstanding(r) - 1 : (r.last_used + k) % n < given
    PROVE  /\ AvailableDescs(r) \cup CompletedDescs(r) = OutDescs(r)
           /\ Distance(r.taken, r.avail.idx) + Distance(r.last_used, r.used.idx) = Outstanding(r)
           /\ \A id \in OutDescs(r) : r.desc[id].addr = id
           /\ OutDescs(r) \subseteq 0 .. n - 1
<1> DEFINE l == r.last_used
           u == r.used.idx
           a == r.avail.idx
           c == Completed(r)
           o == Outstanding(r)
<1>1. n \in Nat \ {0} /\ IndexModulus % n = 0
  BY FitsFacts DEF Fits
<1>2. r.num = n /\ l \in Index16 /\ u \in Index16 /\ a \in Index16
  BY QueueFacts
<1>3. o \in 0 .. n /\ c \in 0 .. n /\ c <= o /\ r.taken = u /\ l \in Int
  BY <1>1, StretchFacts
<1>4. c = Distance(l, u) /\ o = Distance(l, a)
  BY DEF Completed, Outstanding
<1>5. \A i \in 0 .. given - 1 : r.avail.ring[i] = i /\ r.desc[i].addr = i
  BY DEF RingsInStep
<1>6. \A k \in 0 .. c - 1 : r.used.ring[(l + k) % n].id = (l + k) % n
  BY <1>2 DEF RingsInStep
<1>7. \A k \in 0 .. o - 1 : (l + k) % n < given
  OBVIOUS
<1>8. AvailableDescs(r) = {r.avail.ring[(u + k) % n] : k \in 0 .. Distance(u, a) - 1}
  BY <1>2, <1>3 DEF AvailableDescs
<1>9. CompletedDescs(r) = {r.used.ring[(l + k) % n].id : k \in 0 .. c - 1}
  BY <1>2 DEF CompletedDescs, Completed
<1>10. OutDescs(r) = {(l + k) % n : k \in 0 .. o - 1}
  BY <1>2 DEF OutDescs
<1> HIDE DEF l, u, a, c, o
<1>11. Distance(u, a) = o - c
  BY <1>2, <1>3, <1>4, DistanceSplit
<1>12. \A k \in Nat : (u + k) % n = (l + (c + k)) % n
  BY <1>1, <1>2, <1>4, WrapKeepsPlace
<1>13. \A k \in 0 .. o - 1 : (l + k) % n \in 0 .. n - 1 /\ (l + k) % n \in 0 .. given - 1
  <2> SUFFICES ASSUME NEW k \in 0 .. o - 1
               PROVE  (l + k) % n \in 0 .. n - 1 /\ (l + k) % n \in 0 .. given - 1
    OBVIOUS
  <2>1. l + k \in Int /\ (l + k) % n < given
    BY <1>3, <1>7
  <2>2. (l + k) % n \in 0 .. n - 1
    BY <1>1, <2>1, ModRange
  <2> DEFINE p == (l + k) % n
  <2>3. p < given /\ p \in 0 .. n - 1
    BY <2>1, <2>2
  <2> HIDE DEF p
  <2>4. p \in 0 .. n - 1 /\ p \in 0 .. given - 1
    BY <2>3
  <2> QED
    BY <2>4 DEF p
<1>14. ASSUME NEW k \in 0 .. (o - c) - 1 PROVE r.avail.ring[(u + k) % n] = (l + (c + k)) % n /\ c + k \in 0 .. o - 1
  <2>1. c + k \in 0 .. o - 1 /\ k \in Nat
    BY <1>1, <1>3
  <2>2. (u + k) % n = (l + (c + k)) % n
    BY <1>12, <2>1
  <2>3. (l + (c + k)) % n \in 0 .. given - 1
    BY <1>13, <2>1
  <2>4. r.avail.ring[(l + (c + k)) % n] = (l + (c + k)) % n
    BY <1>5, <2>3
  <2> QED
    BY <2>1, <2>2, <2>4, Zenon
<1>15. AvailableDescs(r) \cup CompletedDescs(r) \subseteq OutDescs(r)
  <2>1. ASSUME NEW x \in AvailableDescs(r) PROVE x \in OutDescs(r)
    <3>1. PICK k \in 0 .. (o - c) - 1 : x = r.avail.ring[(u + k) % n]
      BY <1>8, <1>11
    <3>2. x = (l + (c + k)) % n /\ c + k \in 0 .. o - 1
      BY <1>14, <3>1
    <3> QED
      BY <1>10, <3>2
  <2>2. ASSUME NEW x \in CompletedDescs(r) PROVE x \in OutDescs(r)
    <3>1. PICK k \in 0 .. c - 1 : x = r.used.ring[(l + k) % n].id
      BY <1>9
    <3>2. x = (l + k) % n /\ k \in 0 .. o - 1
      BY <1>3, <1>6, <3>1
    <3> QED
      BY <1>10, <3>2
  <2> QED
    BY <2>1, <2>2
<1>16. OutDescs(r) \subseteq AvailableDescs(r) \cup CompletedDescs(r)
  <2> SUFFICES ASSUME NEW k \in 0 .. o - 1
               PROVE  (l + k) % n \in AvailableDescs(r) \cup CompletedDescs(r)
    BY <1>10
  <2>1. CASE k < c
    <3>1. k \in 0 .. c - 1
      BY <1>3, <2>1
    <3>2. r.used.ring[(l + k) % n].id = (l + k) % n
      BY <1>6, <3>1
    <3> QED
      BY <1>9, <3>1, <3>2
  <2>2. CASE ~ (k < c)
    <3>1. k - c \in 0 .. (o - c) - 1 /\ c + (k - c) = k
      BY <1>3, <2>2
    <3>2. r.avail.ring[(u + (k - c)) % n] = (l + (c + (k - c))) % n
      BY <1>14, <3>1
    <3>3. r.avail.ring[(u + (k - c)) % n] = (l + k) % n
      BY <3>1, <3>2
    <3> QED
      BY <1>8, <1>11, <3>1, <3>3
  <2> QED
    BY <2>1, <2>2
<1>17. Distance(r.taken, r.avail.idx) + Distance(r.last_used, r.used.idx) = Outstanding(r)
  <2>1. (o - c) + c = o
    BY <1>3
  <2> QED
    BY <1>3, <1>4, <1>11, <2>1 DEF l, u, a, o
<1>18. \A id \in OutDescs(r) : r.desc[id].addr = id
  BY <1>5, <1>10, <1>13
<1>19. OutDescs(r) \subseteq 0 .. n - 1
  BY <1>10, <1>13
<1> QED
  BY <1>15, <1>16, <1>17, <1>18, <1>19

(* When all descriptors are out. *)
LEMMA OutAll ==
    ASSUME NEW n \in Nat \ {0}, NEW r, r.num = n, r.last_used \in Int, Outstanding(r) = n
    PROVE  0 .. n - 1 \subseteq OutDescs(r)
<1> SUFFICES ASSUME NEW p \in 0 .. n - 1 PROVE p \in OutDescs(r)
  OBVIOUS
<1>1. PICK k \in 0 .. n - 1 : (r.last_used + k) % n = p
  BY ModCover
<1> QED
  BY <1>1 DEF OutDescs

(* When all but one are. *)
LEMMA OutButOne ==
    ASSUME NEW n \in Nat \ {0}, NEW r, r.num = n, r.last_used \in Int, Outstanding(r) = n - 1,
           NEW b, b = (r.last_used + (n - 1)) % n
    PROVE  0 .. n - 1 \subseteq OutDescs(r) \cup {b}
<1> SUFFICES ASSUME NEW p \in 0 .. n - 1, p # b PROVE p \in OutDescs(r)
  OBVIOUS
<1>1. PICK k \in 0 .. n - 1 : (r.last_used + k) % n = p
  BY ModCover, ZenonT(30)
<1>2. k # n - 1
  BY <1>1
<1>3. k \in 0 .. (n - 1) - 1
  BY <1>2
<1> QED
  BY <1>1, <1>3 DEF OutDescs


\* BuffersConserved for one queue, but for its last part.
Conserved(r) ==
    LET free == FreeDescs(r)
        out == AvailableDescs(r) \cup CompletedDescs(r)
    IN  /\ free \cup out = 0 .. r.num - 1
        /\ Cardinality(free) + Distance(r.taken, r.avail.idx)
             + Distance(r.last_used, r.used.idx) = r.num
        /\ \A id \in out : r.desc[id].addr = id

(* What there is to show for each state of a queue. *)
LEMMA ConservedFrom ==
    ASSUME NEW n, Fits(n), NEW r \in Queue(n), NEW given \in 0 .. n, RingsInStep(r, given),
           \A k \in 0 .. Outstanding(r) - 1 : (r.last_used + k) % n < given,
           NEW F, FreeDescs(r) = F, F \subseteq 0 .. n - 1, 0 .. n - 1 \subseteq OutDescs(r) \cup F,
           Cardinality(F) \in Nat, Cardinality(F) + Outstanding(r) = n
    PROVE  Conserved(r)
<1>1. /\ AvailableDescs(r) \cup CompletedDescs(r) = OutDescs(r)
      /\ Distance(r.taken, r.avail.idx) + Distance(r.last_used, r.used.idx) = Outstanding(r)
      /\ \A id \in OutDescs(r) : r.desc[id].addr = id
      /\ OutDescs(r) \subseteq 0 .. n - 1
  BY OutFacts
<1>2. r.num = n /\ Distance(r.taken, r.avail.idx) \in Int /\ Distance(r.last_used, r.used.idx) \in Int
  <2>1. /\ r.num = n /\ r.last_used \in Index16 /\ r.avail.idx \in Index16
        /\ r.used.idx \in Index16 /\ r.taken \in Index16
    BY QueueFacts
  <2>2. Distance(r.taken, r.avail.idx) \in Index16 /\ Distance(r.last_used, r.used.idx) \in Index16
    BY <2>1, DistanceFacts
  <2> QED
    BY <2>1, <2>2, VirtqAssumption DEF Index16
<1>3. F \cup OutDescs(r) = 0 .. n - 1
  BY <1>1
<1>4. Cardinality(F) + Distance(r.taken, r.avail.idx) + Distance(r.last_used, r.used.idx) = n
  <2> DEFINE x == Distance(r.taken, r.avail.idx)
             y == Distance(r.last_used, r.used.idx)
             f == Cardinality(F)
             o == Outstanding(r)
  <2>1. x \in Int /\ y \in Int /\ f \in Nat /\ x + y = o /\ f + o = n
    BY <1>1, <1>2
  <2> HIDE DEF x, y, f, o
  <2>2. f + x + y = n
    BY <2>1
  <2> QED
    BY <2>2 DEF x, y, f
<1> QED
  BY <1>1, <1>2, <1>3, <1>4 DEF Conserved

(* The invariant says where every descriptor is. *)
LEMMA BuffersFromInv == InputInv => BuffersConserved
<1> SUFFICES ASSUME InputInv, NEW d \in Devs, Active(d)
             PROVE  /\ Conserved(q[d])
                    /\ pc.at # "refill" =>
                          FreeDescs(q[d]) = IF pc.at = "push" /\ pc.dev = d THEN {pc.n} ELSE {}
  BY DEF BuffersConserved, Conserved
<1> DEFINE r == q[d]
           n == r.num
           l == r.last_used
           given == Given(d)
<1>1. /\ r \in Queue(n) /\ Fits(n) /\ n \in Nat \ {0} /\ given \in 0 .. n
      /\ RingsInStep(r, given) /\ Held(d)
  BY ActiveFacts
<1>2. /\ (l + Outstanding(r)) % n = r.avail.idx % n /\ l \in Int /\ r.num = n
      /\ l \in Index16 /\ r.avail.idx \in Index16 /\ r.avail.idx \in Int
  <2>1. given \in Nat
    BY <1>1
  <2> HIDE DEF r, given, n
  <2>2. l \in Index16 /\ r.avail.idx \in Index16 /\ r.num = n
    BY <1>1, QueueFacts
  <2> QED
    BY <1>1, <2>1, <2>2, StretchFacts, VirtqAssumption DEF Index16
<1>3. pc.at # "refill" => given = n /\ \A k \in 0 .. Outstanding(r) - 1 : (l + k) % n < given
  <2> SUFFICES ASSUME pc.at # "refill" PROVE given = n /\ \A k \in 0 .. Outstanding(r) - 1 : (l + k) % n < given
    OBVIOUS
  <2>1. given = n
    BY DEF Given
  <2>2. ASSUME NEW k \in 0 .. Outstanding(r) - 1 PROVE (l + k) % n < n
    <3>1. l + k \in Int
      BY <1>2
    <3>2. (l + k) % n \in 0 .. n - 1
      BY <1>1, <3>1, ModRange
    <3> DEFINE p == (l + k) % n
    <3>3. p \in 0 .. n - 1
      BY <3>2
    <3> HIDE DEF p
    <3>4. p < n
      BY <1>1, <3>3
    <3> QED
      BY <3>4 DEF p
  <2> HIDE DEF given, n, r, l
  <2> QED
    BY <2>1, <2>2
<1>4. CASE pc.at = "refill"
  <2>1. l = 0 /\ r.avail.idx = given /\ FreeFrom(r, given)
    BY <1>1, <1>4 DEF Held
  <2> HIDE DEF given, n
  <2>2. Outstanding(r) = given
    <3> HIDE DEF r
    <3> QED
      BY <1>2, <2>1, DistanceFromZero DEF Outstanding, l
  <2>3. \A k \in 0 .. given - 1 : (l + k) % n = k
    BY <1>1, <2>1
  <2>4. FreeDescs(r) = given .. n - 1
    <3> HIDE DEF r
    <3> QED
      BY <1>1, <1>2, <2>1, FreeFromDescs
  <2>5. 0 .. n - 1 \subseteq OutDescs(r) \cup (given .. n - 1)
    <3> SUFFICES ASSUME NEW p \in 0 .. n - 1, p \notin given .. n - 1 PROVE p \in OutDescs(r)
      OBVIOUS
    <3>1. p \in 0 .. given - 1
      BY <1>1
    <3>2. (l + p) % n = p
      BY <2>3, <3>1
    <3>3. OutDescs(r) = {(l + k) % n : k \in 0 .. given - 1}
      BY <1>2, <2>2 DEF OutDescs
    <3> HIDE DEF l, r
    <3> QED
      BY <3>1, <3>2, <3>3
  <2>6. Cardinality(given .. n - 1) = n - given /\ n - given \in Nat
    <3>1. given \in Int /\ n - 1 \in Int
      BY <1>1
    <3>2. Cardinality(given .. n - 1) = IF given > n - 1 THEN 0 ELSE (n - 1) - given + 1
      BY <3>1, FS_Interval
    <3> QED
      BY <1>1, <3>2
  <2>7. Conserved(r)
    <3> DEFINE F == given .. n - 1
    <3>1. FreeDescs(r) = F /\ F \subseteq 0 .. n - 1 /\ 0 .. n - 1 \subseteq OutDescs(r) \cup F
      BY <1>1, <2>4, <2>5
    <3>2. Cardinality(F) \in Nat /\ Cardinality(F) + Outstanding(r) = n
      BY <1>1, <2>2, <2>6
    <3>3. \A k \in 0 .. Outstanding(r) - 1 : (r.last_used + k) % n < given
      <4>1. \A k \in 0 .. Outstanding(r) - 1 : (l + k) % n < given
        <5> HIDE DEF l, r
        <5> QED
          BY <1>1, <2>2, <2>3
      <4> QED
        BY <4>1 DEF l
    <3> HIDE DEF F, r
    <3> QED
      BY <1>1, <3>1, <3>2, <3>3, ConservedFrom
  <2> QED
    BY <1>4, <2>7
<1>5. CASE pc.at = "push" /\ pc.dev = d
  <2>1. /\ Outstanding(r) = n - 1 /\ pc.n = r.avail.idx % n
        /\ r.free_head = pc.n /\ r.desc[pc.n].next = NoDesc
    BY <1>1, <1>5 DEF Held
  <2> HIDE DEF given, n
  <2>2. pc.n \in 0 .. n - 1 /\ pc.n \in Nat
    <3>1. r.avail.idx % n \in 0 .. n - 1
      BY <1>1, <1>2, ModRange
    <3> QED
      BY <1>1, <2>1, <3>1
  <2>3. pc.n = (l + (n - 1)) % n
    BY <1>2, <2>1
  <2>4. FreeDescs(r) = {pc.n}
    <3> HIDE DEF r
    <3> QED
      BY <1>1, <1>2, <2>1, <2>2, FreeOneDesc
  <2>5. 0 .. n - 1 \subseteq OutDescs(r) \cup {pc.n}
    <3>1. r.last_used \in Int /\ pc.n = (r.last_used + (n - 1)) % n
      BY <1>2, <2>3
    <3> HIDE DEF r
    <3> QED
      BY <1>1, <1>2, <2>1, <3>1, OutButOne
  <2>6. Cardinality({pc.n}) = 1
    BY FS_Singleton
  <2>7. Conserved(r)
    <3> DEFINE F == {pc.n}
    <3>1. FreeDescs(r) = F /\ F \subseteq 0 .. n - 1 /\ 0 .. n - 1 \subseteq OutDescs(r) \cup F
      BY <2>2, <2>4, <2>5
    <3>2. Cardinality(F) \in Nat /\ Cardinality(F) + Outstanding(r) = n
      BY <1>1, <2>1, <2>6
    <3>3. \A k \in 0 .. Outstanding(r) - 1 : (r.last_used + k) % n < given
      BY <1>3, <1>5
    <3> HIDE DEF F, r
    <3> QED
      BY <1>1, <3>1, <3>2, <3>3, ConservedFrom
  <2> QED
    BY <1>5, <2>4, <2>7
<1>6. CASE pc.at # "refill" /\ ~ (pc.at = "push" /\ pc.dev = d)
  <2>1. Outstanding(r) = n /\ r.free_head = NoDesc
    BY <1>1, <1>6 DEF Held
  <2> HIDE DEF given, n
  <2>2. FreeFrom(r, n) /\ n .. n - 1 = {}
    BY <1>1, <1>2, <2>1 DEF FreeFrom
  <2>3. FreeDescs(r) = {}
    <3>1. n \in 0 .. n
      BY <1>1
    <3> HIDE DEF r
    <3> QED
      BY <1>1, <1>2, <2>2, <3>1, FreeFromDescs
  <2>4. 0 .. n - 1 \subseteq OutDescs(r)
    <3>1. r.last_used \in Int
      BY <1>2
    <3> HIDE DEF r
    <3> QED
      BY <1>1, <1>2, <2>1, <3>1, OutAll
  <2>5. Conserved(r)
    <3> DEFINE F == {}
    <3>1. FreeDescs(r) = F /\ F \subseteq 0 .. n - 1 /\ 0 .. n - 1 \subseteq OutDescs(r) \cup F
      BY <2>3, <2>4
    <3>2. Cardinality(F) \in Nat /\ Cardinality(F) + Outstanding(r) = n
      <4>1. Cardinality({}) = 0
        BY FS_EmptySet
      <4> QED
        BY <1>1, <2>1, <4>1
    <3>3. \A k \in 0 .. Outstanding(r) - 1 : (r.last_used + k) % n < given
      BY <1>3, <1>6
    <3> HIDE DEF F, r
    <3> QED
      BY <1>1, <3>1, <3>2, <3>3, ConservedFrom
  <2> QED
    BY <1>6, <2>3, <2>5
<1> QED
  BY <1>4, <1>5, <1>6

(* BuffersConserved, for every queue size and every width of the ring        *)
(* indices: virtq_push_buf and virtq_pop_used never lose a descriptor or     *)
(* have one in two places, and the driver holds back at most the one that    *)
(* drain_events is handling.                                                 *)
THEOREM BuffersAreConserved == Spec => []BuffersConserved
BY InputInvariant, BuffersFromInv, PTL
=============================================================================
