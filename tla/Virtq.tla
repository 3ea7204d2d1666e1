------------------------------- MODULE Virtq -------------------------------
(***************************************************************************)
(* A split virtqueue (kernel/virtio.c), as operators on the record q of    *)
(* the driver's struct virtq and of the memory it shares with the device:  *)
(*   num        the queue size, 0 for a device that is not active          *)
(*   desc       the descriptors; addr is the number of a buffer            *)
(*   free_head  the first free descriptor; they are linked by next         *)
(*   avail      the available ring and its u16 index                       *)
(*   used       the used ring and its u16 index                            *)
(*   last_used  the driver's position in the used ring                     *)
(*   taken      the device's position in the available ring                *)
(***************************************************************************)
EXTENDS Integers, Sequences, FiniteSets

CONSTANTS
    VIRTQ_SIZE,     \* the queue size the driver asks for: 16 in the code
    IndexModulus    \* number of values of a ring index: 2^16 in the code

ASSUME VirtqAssumption ==
    /\ VIRTQ_SIZE \in Nat \ {0}
    /\ IndexModulus \in Nat /\ IndexModulus > VIRTQ_SIZE
    /\ IndexModulus % VIRTQ_SIZE = 0

NoDesc == -1        \* 0xFFFF, the end of the free list

Advance(idx) == (idx + 1) % IndexModulus
Distance(from, to) == (to - from + IndexModulus) % IndexModulus

NoQueue == [num |-> 0]

\* virtq_setup_legacy and virtq_setup_modern: all descriptors on the free list, no
\* more of them than the device has room for.
virtq_setup(max_size) ==
    LET size == IF VIRTQ_SIZE > max_size THEN max_size ELSE VIRTQ_SIZE
    IN  [num       |-> size,
         desc      |-> [i \in 0 .. size - 1 |->
                          [addr |-> NoDesc, next |-> IF i = size - 1 THEN NoDesc ELSE i + 1]],
         free_head |-> 0,
         avail     |-> [idx |-> 0, ring |-> [i \in 0 .. size - 1 |-> 0]],
         used      |-> [idx |-> 0, ring |-> [i \in 0 .. size - 1 |-> [id |-> 0, full |-> FALSE]]],
         last_used |-> 0,
         taken     |-> 0]

\* virtq_push_buf: take a descriptor from the free list, if there is one, and make
\* it available.
virtq_push_buf(q, buf) ==
    LET head == q.free_head
    IN  IF head = NoDesc THEN q
        ELSE [q EXCEPT !.free_head = q.desc[head].next,
                       !.desc[head] = [addr |-> buf, next |-> 0],
                       !.avail.ring[q.avail.idx % q.num] = head,
                       !.avail.idx = Advance(@)]

virtq_has_used(q) == q.used.idx # q.last_used

UsedElem(q) == q.used.ring[q.last_used % q.num]

\* Mutant: the descriptor is not returned to the free list.
PopUsedKeepDesc(q) == [q EXCEPT !.last_used = Advance(@)]

\* virtq_pop_used, of UsedElem(q): its descriptor becomes the first free one.
virtq_pop_used(q) ==
    [q EXCEPT !.last_used = Advance(@),
              !.desc[UsedElem(q).id].next = q.free_head,
              !.free_head = UsedElem(q).id]

\* The device's side: it takes the next available descriptor and, having written
\* the buffer, puts it on the used ring.
HasAvailable(q) == q.taken # q.avail.idx

AvailDesc(q) == q.avail.ring[q.taken % q.num]

DeviceComplete(q, full) ==
    [q EXCEPT !.taken = Advance(@),
              !.used.ring[q.used.idx % q.num] = [id |-> AvailDesc(q), full |-> full],
              !.used.idx = Advance(@)]
-----------------------------------------------------------------------------
\* The descriptors on the free list, those the device may take and those it has
\* put on the used ring and the driver has not popped.
FreeDescs(q) ==
    LET link[n \in 0 .. q.num] ==
            IF n = 0 THEN q.free_head
            ELSE IF link[n - 1] = NoDesc THEN NoDesc ELSE q.desc[link[n - 1]].next
    IN  {link[n] : n \in 0 .. q.num} \ {NoDesc}

AvailableDescs(q) ==
    {q.avail.ring[(q.taken + k) % q.num] : k \in 0 .. Distance(q.taken, q.avail.idx) - 1}

CompletedDescs(q) ==
    {q.used.ring[(q.last_used + k) % q.num].id : k \in 0 .. Distance(q.last_used, q.used.idx) - 1}
=============================================================================
