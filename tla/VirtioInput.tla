---------------------------- MODULE VirtioInput ----------------------------
(***************************************************************************)
(* Input (kernel/virtio_input.c, input.c and the probing of virtio.c): the *)
(* keyboard and the pointer fill buffers while the GUI task polls them,    *)
(* once for the mouse and then for keys until there are none.  Keys also   *)
(* come from the UART.                                                     *)
(*                                                                         *)
(* The devices are external: each takes a buffer it was given, writes an   *)
(* event and completes it, at any time.  Events that find no buffer are    *)
(* lost in the device.                                                     *)
(***************************************************************************)
EXTENDS Virtq

CONSTANTS
    Machines,           \* the virtio slots of the machines considered
    VIRTIO_MAX_DEVS,    \* devices virtio_probe keeps: 8 in the code
    KEY_RING_SIZE,      \* slots of key_ring: 32 in the code
    KbdEvents,          \* what the keyboard sends: records of code and value, or EV_SYN
    TabletEvents,       \* what the pointer sends
    UartChars           \* what is typed on the serial line

EVENT_BUF_COUNT == VIRTQ_SIZE   \* both are 16 in the code
FB_WIDTH == 640
FB_HEIGHT == 480
TABLET_ABS_MAX == 32767

EV_SYN == [type |-> "syn"]

Devs == {"kbd", "tablet"}
Events(d) == IF d = "kbd" THEN KbdEvents ELSE TabletEvents

ASSUME InputAssumption ==
    /\ KEY_RING_SIZE \in Nat \ {0, 1}
    /\ \A m \in Machines :
          /\ Len(m) \in Nat
          /\ \A i \in 1 .. Len(m) : m[i].max \in Nat
                                 /\ (m[i].max # 0 => IndexModulus % m[i].max = 0)

VARIABLES
    q,              \* queue 0 of each device
    bufs,           \* kbd_events and tablet_events
    pc,             \* what the GUI task is doing: at, for device dev, with n
    key_ring, key_ring_head, key_ring_tail,
    shift_held,
    mouse,          \* mouse_x, mouse_y and mouse_btns
    esc_state,      \* of the UART decoder
    sent,           \* ghost: the events each device completed and nobody handled
    typed           \* ghost: the keys accepted and not yet read

vars == <<q, bufs, pc, key_ring, key_ring_head, key_ring_tail, shift_held, mouse,
          esc_state, sent, typed>>

At(place, d, n) == [at |-> place, dev |-> d, n |-> n]
-----------------------------------------------------------------------------
(* Finding the devices.                                                      *)

\* virtio_probe: the slots with a device, the first ones as many as are kept; and of
\* those the ones virtio_find_dev finds for virtio_input_init.
virtio_probe(machine) ==
    LET found == {i \in 1 .. Len(machine) : machine[i].id # "empty"}
    IN  {i \in found : Cardinality({j \in found : j < i}) < VIRTIO_MAX_DEVS}

InputDevices(machine) == {i \in virtio_probe(machine) : machine[i].id = "input"}

\* The names virtio_input_init goes by.  For a device without a name str_contains
\* searches an uninitialised buffer, which may hold anything.
Names(machine) ==
    {nm \in [InputDevices(machine) -> {"keyboard", "other"}] :
        \A i \in InputDevices(machine) : machine[i].name \in {"none", nm[i]}}

\* Its choice for one role: the last device of that name, if virtio_dev_init and
\* virtq_setup succeed; they fail without a queue, and may fail otherwise.
Chosen(machine, nm, name, ok) ==
    LET those == {i \in InputDevices(machine) : nm[i] = name}
        last == CHOOSE i \in those : \A j \in those : j <= i
    IN  IF those = {} \/ ~ ok THEN NoQueue
        ELSE IF machine[last].max = 0 THEN NoQueue
        ELSE virtq_setup(machine[last].max)

\* input_init, up to the first event buffer.
Init ==
    /\ \E machine \in Machines :
         \E nm \in Names(machine), ok \in [Devs -> BOOLEAN] :
            q = [d \in Devs |-> Chosen(machine, nm,
                                       IF d = "kbd" THEN "keyboard" ELSE "other", ok[d])]
    /\ bufs = [d \in Devs |-> [i \in 0 .. EVENT_BUF_COUNT - 1 |-> EV_SYN]]
    /\ pc = At("refill", "kbd", 0)
    /\ key_ring = [i \in 0 .. KEY_RING_SIZE - 1 |-> "none"]
    /\ key_ring_head = 0 /\ key_ring_tail = 0
    /\ shift_held = FALSE
    /\ mouse = [x |-> FB_WIDTH \div 2, y |-> FB_HEIGHT \div 2, btns |-> {}]
    /\ esc_state = 0
    /\ sent = [d \in Devs |-> <<>>]
    /\ typed = <<>>

Active(d) == q[d].num > 0

\* What the GUI goes on to when it is done with the buffers of d.
AfterRefill(d) == IF d = "kbd" THEN At("refill", "tablet", 0) ELSE At("drain", "tablet", 0)

\* Mutant: every descriptor is given the first buffer.
RefillSameBuffer(d) ==
    /\ pc.at = "refill" /\ pc.dev = d
    /\ IF Active(d) /\ pc.n < EVENT_BUF_COUNT
       THEN /\ q' = [q EXCEPT ![d] = virtq_push_buf(@, 0)]
            /\ pc' = At("refill", d, pc.n + 1)
       ELSE pc' = AfterRefill(d) /\ UNCHANGED q
    /\ UNCHANGED <<bufs, key_ring, key_ring_head, key_ring_tail, shift_held, mouse,
                   esc_state, sent, typed>>

\* refill_event_queue, one buffer at a time.
Refill(d) ==
    /\ pc.at = "refill" /\ pc.dev = d
    /\ IF Active(d) /\ pc.n < EVENT_BUF_COUNT
       THEN /\ q' = [q EXCEPT ![d] = virtq_push_buf(@, pc.n)]
            /\ pc' = At("refill", d, pc.n + 1)
       ELSE pc' = AfterRefill(d) /\ UNCHANGED q
    /\ UNCHANGED <<bufs, key_ring, key_ring_head, key_ring_tail, shift_held, mouse,
                   esc_state, sent, typed>>

\* External: the device completes a buffer with an event, or with less than one;
\* as nothing is made of the latter, EV_SYN stands for whatever it left there.
DeviceEvent(d, e, full) ==
    /\ Active(d) /\ HasAvailable(q[d])
    /\ bufs' = [bufs EXCEPT ![d][q[d].desc[AvailDesc(q[d])].addr] = e]
    /\ q' = [q EXCEPT ![d] = DeviceComplete(@, full)]
    /\ sent' = [sent EXCEPT ![d] = Append(@, e)]
    /\ UNCHANGED <<pc, key_ring, key_ring_head, key_ring_tail, shift_held, mouse,
                   esc_state, typed>>
-----------------------------------------------------------------------------
(* The handlers of the two devices.                                          *)

\* keycode_table and shift_table, by kind of key: a key with two meanings, one that
\* shift does not change, and one that is in no table or beyond them.
keycode_table == [letter |-> "a", arrow |-> "up", unmapped |-> "none"]
shift_table == [letter |-> "A", arrow |-> "none", unmapped |-> "none"]

KeyOf(code) ==
    IF shift_held /\ shift_table[code] # "none" THEN shift_table[code] ELSE keycode_table[code]

\* Mutant: the ring is filled to the last slot.
KeyRingPushFull(key) ==
    /\ key_ring' = [key_ring EXCEPT ![key_ring_head] = key]
    /\ key_ring_head' = (key_ring_head + 1) % KEY_RING_SIZE
    /\ typed' = Append(typed, key)

\* key_ring_push: a key that finds the ring full is dropped.
KeyRingPush(key) ==
    LET next == (key_ring_head + 1) % KEY_RING_SIZE
    IN  IF next = key_ring_tail THEN UNCHANGED <<key_ring, key_ring_head, typed>>
        ELSE /\ key_ring' = [key_ring EXCEPT ![key_ring_head] = key]
             /\ key_ring_head' = next
             /\ typed' = Append(typed, key)

\* process_kbd_event: value is 1 for a press, 2 for a repeat and 0 for a release.
ProcessKbdEvent(e) ==
    /\ IF e.type = "key" /\ e.code = "shift"
       THEN shift_held' = (e.value # 0)
       ELSE UNCHANGED shift_held
    /\ IF e.type = "key" /\ e.code # "shift" /\ e.value # 0 /\ KeyOf(e.code) # "none"
       THEN KeyRingPush(KeyOf(e.code))
       ELSE UNCHANGED <<key_ring, key_ring_head, typed>>
    /\ UNCHANGED mouse

Clamp(v, hi) == IF v < 0 THEN 0 ELSE IF v > hi THEN hi ELSE v

\* An absolute coordinate of the tablet as one of the screen.
Scale(v, size) == (Clamp(v, TABLET_ABS_MAX) * (size - 1)) \div TABLET_ABS_MAX

\* process_tablet_event.
ProcessTabletEvent(e) ==
    /\ mouse' =
         CASE e.type = "abs_x" -> [mouse EXCEPT !.x = Scale(e.value, FB_WIDTH)]
           [] e.type = "abs_y" -> [mouse EXCEPT !.y = Scale(e.value, FB_HEIGHT)]
           [] e.type = "rel_x" -> [mouse EXCEPT !.x = Clamp(@ + e.value, FB_WIDTH - 1)]
           [] e.type = "rel_y" -> [mouse EXCEPT !.y = Clamp(@ + e.value, FB_HEIGHT - 1)]
           [] e.type = "key" -> [mouse EXCEPT !.btns =
                                   IF e.code \notin {"left", "right"} THEN @
                                   ELSE IF e.value # 0 THEN @ \cup {e.code} ELSE @ \ {e.code}]
           [] OTHER -> mouse
    /\ UNCHANGED <<shift_held, key_ring, key_ring_head, typed>>
-----------------------------------------------------------------------------
(* Polling.                                                                  *)
HasEvents(d) == Active(d) /\ virtq_has_used(q[d])

\* One round of drain_events: pop a completed buffer and handle the event in it,
\* unless the device wrote less than an event ...
DrainPop(d) ==
    LET id == UsedElem(q[d]).id
    IN  /\ pc.at = "drain" /\ pc.dev = d
        /\ HasEvents(d)
        /\ q' = [q EXCEPT ![d] = virtq_pop_used(@)]
        /\ IF ~ UsedElem(q[d]).full
           THEN UNCHANGED <<mouse, shift_held, key_ring, key_ring_head, typed>>
           ELSE IF d = "kbd" THEN ProcessKbdEvent(bufs[d][id])
           ELSE ProcessTabletEvent(bufs[d][id])
        /\ pc' = At("push", d, id)
        /\ sent' = [sent EXCEPT ![d] = Tail(@)]
        /\ UNCHANGED <<bufs, key_ring_tail, esc_state>>

\* ... and give the buffer back to the device.
DrainPush(d) ==
    /\ pc.at = "push" /\ pc.dev = d
    /\ q' = [q EXCEPT ![d] = virtq_push_buf(@, pc.n)]
    /\ pc' = At("drain", d, 0)
    /\ UNCHANGED <<bufs, key_ring, key_ring_head, key_ring_tail, shift_held, mouse,
                   esc_state, sent, typed>>

\* The end of drain_events: mouse_get_state returns, and the GUI polls for keys, or
\* virtio_kbd_poll goes on to the key ring.
DrainDone(d) ==
    /\ pc.at = "drain" /\ pc.dev = d
    /\ ~ HasEvents(d)
    /\ pc' = IF d = "tablet" THEN At("drain", "kbd", 0) ELSE At("pop", "kbd", 0)
    /\ UNCHANGED <<q, bufs, key_ring, key_ring_head, key_ring_tail, shift_held, mouse,
                   esc_state, sent, typed>>

\* key_ring_pop: a key goes to the GUI, which polls again; else the UART is tried.
KeyRingPop ==
    /\ pc.at = "pop"
    /\ IF key_ring_head = key_ring_tail
       THEN pc' = At("uart", "kbd", 0) /\ UNCHANGED <<key_ring_tail, typed>>
       ELSE /\ key_ring_tail' = (key_ring_tail + 1) % KEY_RING_SIZE
            /\ typed' = Tail(typed)
            /\ pc' = At("drain", "kbd", 0)
    /\ UNCHANGED <<q, bufs, key_ring, key_ring_head, shift_held, mouse, esc_state, sent>>

\* uart_poll's decoder: the key for character c, and the next esc_state.
Decode(c) ==
    CASE esc_state = 0 -> IF c = "ESC" THEN [key |-> "none", esc |-> 1]
                          ELSE [key |-> c, esc |-> 0]
      [] esc_state = 1 -> IF c = "[" THEN [key |-> "none", esc |-> 2]
                          ELSE [key |-> "ESC", esc |-> 0]
      [] esc_state = 2 -> [key |-> IF c = "A" THEN "up" ELSE "none", esc |-> 0]

\* uart_poll: with a key the GUI polls again, without one the iteration ends and
\* the next begins with the mouse.
UartPoll ==
    /\ pc.at = "uart"
    /\ \/ pc' = At("drain", "tablet", 0) /\ UNCHANGED esc_state
       \/ \E c \in UartChars :
             /\ esc_state' = Decode(c).esc
             /\ pc' = At("drain", IF Decode(c).key = "none" THEN "tablet" ELSE "kbd", 0)
    /\ UNCHANGED <<q, bufs, key_ring, key_ring_head, key_ring_tail, shift_held, mouse,
                   sent, typed>>

Next ==
    \/ \E d \in Devs :
          \/ \E e \in Events(d) : DeviceEvent(d, e, TRUE)
          \/ DeviceEvent(d, EV_SYN, FALSE)
          \/ Refill(d) \/ DrainPop(d) \/ DrainPush(d) \/ DrainDone(d)
    \/ KeyRingPop \/ UartPoll

Spec == Init /\ [][Next]_vars
-----------------------------------------------------------------------------
(* BuffersConserved: every descriptor is free, with the device or completed, *)
(* and in one of these only; the ones given away carry the buffer of their   *)
(* own number, as drain_events assumes; and, once the queue is filled, the   *)
(* driver keeps at most the one it is handling, so the device never runs     *)
(* out of buffers but by completing them.                                    *)
BuffersConserved ==
    \A d \in {e \in Devs : Active(e)} :
        LET free == FreeDescs(q[d])
            out == AvailableDescs(q[d]) \cup CompletedDescs(q[d])
        IN  /\ free \cup out = 0 .. q[d].num - 1
            /\ Cardinality(free) + Distance(q[d].taken, q[d].avail.idx)
                 + Distance(q[d].last_used, q[d].used.idx) = q[d].num
            /\ \A id \in out : q[d].desc[id].addr = id
            /\ pc.at # "refill" => free = IF pc.at = "push" /\ pc.dev = d THEN {pc.n} ELSE {}

(* EventsIntact: the buffers still to be handled hold, in the order of the   *)
(* used ring, exactly the events the device completed: none is overwritten,  *)
(* reordered, handled twice or skipped, also when the indices wrap.          *)
EventsIntact ==
    \A d \in {e \in Devs : Active(e)} :
        /\ Len(sent[d]) = Distance(q[d].last_used, q[d].used.idx)
        /\ \A k \in 1 .. Len(sent[d]) :
              bufs[d][q[d].used.ring[(q[d].last_used + k - 1) % q[d].num].id] = sent[d][k]

(* RingIsFifo: the key ring holds the keys that were accepted and not yet    *)
(* read, in their order: a full ring drops the newest key and nothing else.  *)
RingIsFifo ==
    /\ Len(typed) = (key_ring_head - key_ring_tail + KEY_RING_SIZE) % KEY_RING_SIZE
    /\ \A k \in 1 .. Len(typed) :
          key_ring[(key_ring_tail + k - 1) % KEY_RING_SIZE] = typed[k]
=============================================================================
