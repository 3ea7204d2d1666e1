-------------------------------- MODULE IPC --------------------------------
(***************************************************************************)
(* Synchronous message passing through endpoints, kernel/ipc.c, on one CPU *)
(* (ipc_send and ipc_recv take no lock).  Each call runs without being     *)
(* interrupted up to schedule(): tasks are not preempted and no interrupt  *)
(* handler touches an endpoint.                                            *)
(***************************************************************************)
EXTENDS RoundRobin, Sequences

CONSTANTS
    MAX_ENDPOINTS,  \* endpoints[]: 32 in the code
    Clients,        \* tasks that send requests
    Servers,        \* tasks that receive them
    MaxSends,       \* bound: calls of ipc_send per task
    MaxDestroys     \* bound: calls of ipc_endpoint_destroy

ASSUME IpcAssumption ==
    /\ Clients \subseteq Tasks /\ Servers \subseteq Tasks
    /\ {MAX_ENDPOINTS, MaxSends, MaxDestroys} \subseteq Nat

Endpoints == 0 .. MAX_ENDPOINTS - 1

\* A message is known by its sender and by the number of the call that sent it;
\* data[] and cap_transfer are copied with it and otherwise not looked at.
Messages == Tasks \X (1 .. MaxSends)
NoMessage == <<None, 0>>

VARIABLES
    state,      \* tasks[].state
    cur,        \* current_task_id, None when the CPU idles
    pc,         \* where each task is in its current call
    waits,      \* the endpoint of that call
    endpoints,  \* endpoints[]
    sends,      \* number of calls of ipc_send each task has made
    received,   \* what each task's ipc_recv calls returned, in order
    returned,   \* messages whose ipc_send has returned 0
    dropped,    \* messages an endpoint held when it was created anew
    orphans,    \* tasks blocked on an endpoint that was destroyed meanwhile
    destroys    \* number of calls of ipc_endpoint_destroy

vars == <<state, cur, pc, waits, endpoints, sends, received, returned, dropped,
          orphans, destroys>>

FreshEndpoint == [active |-> TRUE, sender_task |-> None, receiver_task |-> None,
                  has_pending |-> FALSE, pending_msg |-> NoMessage]

\* ipc_init, and all tasks READY.
Init ==
    /\ state = [t \in Tasks |-> "READY"]
    /\ cur = None
    /\ pc = [t \in Tasks |-> "user"]
    /\ waits = [t \in Tasks |-> 0]
    /\ endpoints = [e \in Endpoints |-> [FreshEndpoint EXCEPT !.active = FALSE]]
    /\ sends = [t \in Tasks |-> 0]
    /\ received = [t \in Tasks |-> <<>>]
    /\ returned = {}
    /\ dropped = {}
    /\ orphans = {}
    /\ destroys = 0

Runs(t) == cur = t /\ pc[t] = "user" /\ state[t] = "RUNNING"
-----------------------------------------------------------------------------
\* ipc_endpoint_create: the first inactive endpoint, whatever is left in it.
Create(t) ==
    LET free == {e \in Endpoints : ~endpoints[e].active}
        e == CHOOSE x \in free : \A y \in free : x <= y
    IN  /\ Runs(t)
        /\ free # {}
        /\ dropped' = IF endpoints[e].has_pending
                      THEN dropped \cup {endpoints[e].pending_msg} ELSE dropped
        /\ endpoints' = [endpoints EXCEPT ![e] = FreshEndpoint]
        /\ UNCHANGED <<state, cur, pc, waits, sends, received, returned, orphans,
                       destroys>>

\* ipc_endpoint_destroy: nobody who waits on the endpoint is told.
Destroy(t, e) ==
    /\ Runs(t)
    /\ endpoints[e].active
    /\ destroys < MaxDestroys
    /\ destroys' = destroys + 1
    /\ endpoints' = [endpoints EXCEPT ![e].active = FALSE]
    /\ orphans' = orphans \cup {u \in Tasks : state[u] = "BLOCKED" /\ waits[u] = e}
    /\ UNCHANGED <<state, cur, pc, waits, sends, received, returned, dropped>>

\* ipc_send to a waiting receiver: leave the message, make it READY, return 0.
SendToReceiver(t, e) ==
    LET m == <<t, sends[t] + 1>>
    IN  /\ Runs(t)
        /\ endpoints[e].active
        /\ sends[t] < MaxSends
        /\ endpoints[e].receiver_task # None
        /\ endpoints' = [endpoints EXCEPT ![e].pending_msg = m,
                                          ![e].has_pending = TRUE,
                                          ![e].receiver_task = None]
        /\ state' = [state EXCEPT ![endpoints[e].receiver_task] = "READY"]
        /\ sends' = [sends EXCEPT ![t] = @ + 1]
        /\ returned' = returned \cup {m}
        /\ UNCHANGED <<cur, pc, waits, received, dropped, orphans, destroys>>

\* Mutant: the sender does not record itself.
SendAndBlockUnrecorded(t, e) ==
    LET m == <<t, sends[t] + 1>>
    IN  /\ Runs(t)
        /\ endpoints[e].active
        /\ sends[t] < MaxSends
        /\ endpoints[e].receiver_task = None
        /\ endpoints' = [endpoints EXCEPT ![e].pending_msg = m,
                                          ![e].has_pending = TRUE]
        /\ state' = [state EXCEPT ![t] = "BLOCKED"]
        /\ sends' = [sends EXCEPT ![t] = @ + 1]
        /\ pc' = [pc EXCEPT ![t] = "send"]
        /\ waits' = [waits EXCEPT ![t] = e]
        /\ UNCHANGED <<cur, received, returned, dropped, orphans, destroys>>

\* ipc_send with nobody waiting: leave the message, block, call schedule().
SendAndBlock(t, e) ==
    LET m == <<t, sends[t] + 1>>
    IN  /\ Runs(t)
        /\ endpoints[e].active
        /\ sends[t] < MaxSends
        /\ endpoints[e].receiver_task = None
        /\ endpoints' = [endpoints EXCEPT ![e].pending_msg = m,
                                          ![e].has_pending = TRUE,
                                          ![e].sender_task = t]
        /\ state' = [state EXCEPT ![t] = "BLOCKED"]
        /\ sends' = [sends EXCEPT ![t] = @ + 1]
        /\ pc' = [pc EXCEPT ![t] = "send"]
        /\ waits' = [waits EXCEPT ![t] = e]
        /\ UNCHANGED <<cur, received, returned, dropped, orphans, destroys>>

\* ipc_send once the blocked sender runs again: return 0.
SendReturns(t) ==
    /\ cur = t /\ pc[t] = "send" /\ state[t] = "RUNNING"
    /\ returned' = returned \cup {<<t, sends[t]>>}
    /\ pc' = [pc EXCEPT ![t] = "user"]
    /\ UNCHANGED <<state, cur, waits, endpoints, sends, received, dropped, orphans,
                   destroys>>

\* Mutant: the message is taken but still marked pending.
RecvPendingTwice(t, e) ==
    LET s == endpoints[e].sender_task
    IN  /\ Runs(t)
        /\ endpoints[e].active
        /\ endpoints[e].has_pending
        /\ received' = [received EXCEPT ![t] = Append(@, endpoints[e].pending_msg)]
        /\ endpoints' = [endpoints EXCEPT ![e].sender_task = None]
        /\ state' = [u \in Tasks |-> IF u = s THEN "READY" ELSE state[u]]
        /\ UNCHANGED <<cur, pc, waits, sends, returned, dropped, orphans, destroys>>

\* Mutant: the sender is forgotten but not made READY.
RecvPendingNoWake(t, e) ==
    /\ Runs(t)
    /\ endpoints[e].active
    /\ endpoints[e].has_pending
    /\ received' = [received EXCEPT ![t] = Append(@, endpoints[e].pending_msg)]
    /\ endpoints' = [endpoints EXCEPT ![e].has_pending = FALSE,
                                      ![e].pending_msg = NoMessage,
                                      ![e].sender_task = None]
    /\ UNCHANGED <<state, cur, pc, waits, sends, returned, dropped, orphans, destroys>>

\* ipc_recv with a message pending: take it and release its sender, if any.  (A
\* message that is no longer pending is never read; it is cleared.)
RecvPending(t, e) ==
    LET s == endpoints[e].sender_task
    IN  /\ Runs(t)
        /\ endpoints[e].active
        /\ endpoints[e].has_pending
        /\ received' = [received EXCEPT ![t] = Append(@, endpoints[e].pending_msg)]
        /\ endpoints' = [endpoints EXCEPT ![e].has_pending = FALSE,
                                          ![e].pending_msg = NoMessage,
                                          ![e].sender_task = None]
        /\ state' = [u \in Tasks |-> IF u = s THEN "READY" ELSE state[u]]
        /\ UNCHANGED <<cur, pc, waits, sends, returned, dropped, orphans, destroys>>

\* ipc_recv with no message: block, call schedule().
RecvAndBlock(t, e) ==
    /\ Runs(t)
    /\ endpoints[e].active
    /\ ~endpoints[e].has_pending
    /\ endpoints' = [endpoints EXCEPT ![e].receiver_task = t]
    /\ state' = [state EXCEPT ![t] = "BLOCKED"]
    /\ pc' = [pc EXCEPT ![t] = "recv"]
    /\ waits' = [waits EXCEPT ![t] = e]
    /\ UNCHANGED <<cur, sends, received, returned, dropped, orphans, destroys>>

\* Mutant: the flag is cleared before it is looked at.
RecvReturnsEmpty(t) ==
    LET e == waits[t]
    IN  /\ cur = t /\ pc[t] = "recv" /\ state[t] = "RUNNING"
        /\ endpoints' = [endpoints EXCEPT ![e].has_pending = FALSE,
                                          ![e].pending_msg = NoMessage]
        /\ pc' = [pc EXCEPT ![t] = "user"]
        /\ UNCHANGED <<state, cur, waits, sends, received, returned, dropped, orphans,
                       destroys>>

\* ipc_recv after waking up: "message should be pending"; if not, return -1.
RecvReturns(t) ==
    LET e == waits[t]
    IN  /\ cur = t /\ pc[t] = "recv" /\ state[t] = "RUNNING"
        /\ IF endpoints[e].has_pending
           THEN /\ received' = [received EXCEPT ![t] =
                                   Append(@, endpoints[e].pending_msg)]
                /\ endpoints' = [endpoints EXCEPT ![e].has_pending = FALSE,
                                                  ![e].pending_msg = NoMessage]
           ELSE UNCHANGED <<received, endpoints>>
        /\ pc' = [pc EXCEPT ![t] = "user"]
        /\ UNCHANGED <<state, cur, waits, sends, returned, dropped, orphans, destroys>>

\* schedule(): a task that blocked or yields gives way, or the idle CPU looks for
\* work.
Schedule ==
    /\ IF cur = None THEN NextReady(state, cur) # None
       ELSE state[cur] # "RUNNING" \/ pc[cur] = "user"
    /\ state' = Dispatch(state, cur)
    /\ cur' = NextReady(state, cur)
    /\ UNCHANGED <<pc, waits, endpoints, sends, received, returned, dropped, orphans,
                   destroys>>

Send(t, e) == SendToReceiver(t, e) \/ SendAndBlock(t, e)
Recv(t, e) == RecvPending(t, e) \/ RecvAndBlock(t, e)
Resume(t) == SendReturns(t) \/ RecvReturns(t)

Manage(t) == Create(t) \/ \E e \in Endpoints : Destroy(t, e)

\* Any use of the calls: clients send and servers receive as they please.
Next ==
    \/ \E t \in Clients, e \in Endpoints : Send(t, e)
    \/ \E t \in Servers, e \in Endpoints : Recv(t, e)
    \/ \E t \in Tasks : Manage(t) \/ Resume(t)
    \/ Schedule

Spec == Init /\ [][Next]_vars

\* Remote procedure calls: a client sends on the request endpoint and then waits
\* for the answer on the reply endpoint; a server does the converse.
Request == 0
Reply == 1

Served(t) == sends[t] = Len(received[t])
ClientCall(t) == IF Served(t) THEN Send(t, Request) ELSE Recv(t, Reply)
ServerCall(t) == IF Served(t) THEN Recv(t, Request) ELSE Send(t, Reply)

RpcNext ==
    \/ \E t \in Clients : ClientCall(t)
    \/ \E t \in Servers : ServerCall(t)
    \/ \E t \in Tasks : Manage(t) \/ Resume(t)
    \/ Schedule

\* The CPU keeps executing, and a client or server that gets the CPU again and
\* again eventually makes its next call: it is busy with nothing else.
RpcFairness ==
    /\ WF_vars(Schedule)
    /\ \A t \in Tasks : WF_vars(Resume(t))
    /\ \A t \in Clients : SF_vars(ClientCall(t))
    /\ \A t \in Servers : SF_vars(ServerCall(t))

RpcSpec == Init /\ [][RpcNext]_vars /\ RpcFairness
-----------------------------------------------------------------------------
Pending == {endpoints[e].pending_msg : e \in {x \in Endpoints : endpoints[x].has_pending}}
Taken == UNION {{received[t][i] : i \in DOMAIN received[t]} : t \in Tasks}

(* NothingLost: a message whose ipc_send returned 0 has been received, or is *)
(* still pending in its endpoint for the receiver that was woken to take it  *)
(* (ipc.c:4-5: synchronous, the sender blocks until the receiver is ready).  *)
NothingLost == returned \subseteq Taken \cup Pending \cup dropped

(* InOrderOnce: a receiver gets the messages of a sender in the order in     *)
(* which they were sent, and none of them twice.                             *)
InOrderOnce ==
    \A t \in Tasks : \A i, j \in DOMAIN received[t] :
        i < j /\ received[t][i][1] = received[t][j][1]
        => received[t][i][2] < received[t][j][2]

(* NobodyForgotten: a task blocked in ipc_send or ipc_recv is recorded in    *)
(* its endpoint, which is what will wake it, unless the endpoint has been    *)
(* destroyed under it.                                                       *)
NobodyForgotten ==
    \A t \in Tasks :
        state[t] = "BLOCKED" /\ t \notin orphans =>
            t = IF pc[t] = "send" THEN endpoints[waits[t]].sender_task
                ELSE endpoints[waits[t]].receiver_task

(* CallAnswered: while both endpoints exist a client that has sent a request *)
(* gets its answer: no wake-up between the two tasks goes missing, neither   *)
(* the ones through sender_task nor the ones through receiver_task.          *)
CallAnswered ==
    \A t \in Clients :
        ~Served(t) ~> \/ Served(t)
                      \/ destroys > 0
                      \/ \E e \in {Request, Reply} : ~endpoints[e].active
=============================================================================
