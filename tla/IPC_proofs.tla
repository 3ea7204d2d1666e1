----------------------------- MODULE IPC_proofs -----------------------------
(***************************************************************************)
(* Proofs about remote procedure calls between one client and one server,  *)
(* for every number of task slots, of endpoints, of calls and of endpoints *)
(* destroyed and created meanwhile by any task.                            *)
(***************************************************************************)
EXTENDS IPC, FiniteSetTheorems, TLAPS

\* One task calls and another one answers, and both endpoints are in the table.  With two
\* senders, or with one that does not wait for its answer, a message can be lost: see the
\* run ipc_lost.
OneEach ==
    /\ \E c, s \in Tasks : c # s /\ Clients = {c} /\ Servers = {s}
    /\ MAX_ENDPOINTS >= 2

Client == CHOOSE c \in Clients : TRUE
Server == CHOOSE s \in Servers : TRUE

\* Who sends on an endpoint and who receives from it.
Channels == {Request, Reply}
From(e) == IF e = Request THEN Client ELSE Server
To(e) == IF e = Request THEN Server ELSE Client
-----------------------------------------------------------------------------
(* The inductive invariant.                                                  *)

MessageOrNone == (Tasks \cup {None}) \X Nat
EndpointRecord ==
    [active : BOOLEAN, sender_task : Tasks \cup {None}, receiver_task : Tasks \cup {None},
     has_pending : BOOLEAN, pending_msg : MessageOrNone]
Typed ==
    /\ state \in [Tasks -> TaskStates]
    /\ cur \in Tasks \cup {None}
    /\ pc \in [Tasks -> {"user", "send", "recv"}]
    /\ waits \in [Tasks -> Endpoints]
    /\ endpoints \in [Endpoints -> EndpointRecord]
    /\ sends \in [Tasks -> Nat]
    /\ received \in [Tasks -> Seq(Tasks \X Nat)]

\* A task in a call is one of the two, on the endpoint of that call.
InCall ==
    /\ \A t \in Tasks : state[t] = "BLOCKED" => pc[t] # "user"
    /\ \A t \in Tasks : pc[t] = "send" => waits[t] \in Channels /\ t = From(waits[t])
    /\ \A t \in Tasks : pc[t] = "recv" => waits[t] \in Channels /\ t = To(waits[t])

\* An endpoint only ever names the task that sends on it and the one that receives.
Roles ==
    /\ \A e \in Channels : /\ endpoints[e].sender_task \in {None, From(e)}
                           /\ endpoints[e].receiver_task \in {None, To(e)}
    /\ \A e \in Endpoints \ Channels : ~endpoints[e].has_pending

\* Whoever is blocked on an inactive endpoint was there when it was destroyed.
OrphansKnown ==
    \A t \in Tasks : state[t] = "BLOCKED" /\ ~endpoints[waits[t]].active => t \in orphans

\* The calls in step: each side gets at most one answer for each request.  A pending
\* message is one that was sent and not received.
InPipe(e) == IF endpoints[e].has_pending THEN 1 ELSE 0
InStep ==
    /\ Len(received[Client]) + InPipe(Reply) <= sends[Server]
    /\ sends[Server] <= Len(received[Server])
    /\ Len(received[Server]) + InPipe(Request) <= sends[Client]
    /\ sends[Client] <= Len(received[Client]) + 1

\* What a task has received came from the other, in order, and a message that is pending
\* is the last one sent and not among them.
Numbered ==
    /\ \A e \in Channels : \A n \in DOMAIN received[To(e)] :
        /\ received[To(e)][n][1] = From(e)
        /\ received[To(e)][n][2] <= sends[From(e)]
        /\ endpoints[e].has_pending => received[To(e)][n][2] < sends[From(e)]
    /\ \A e \in Channels : endpoints[e].has_pending =>
        endpoints[e].pending_msg = <<From(e), sends[From(e)]>>
    /\ \A t \in Tasks \ {Client, Server} : received[t] = <<>>

\* The message of a sender that is still blocked is accounted for like those of calls that
\* have returned.
Kept == Taken \cup Pending \cup dropped
Accounted ==
    /\ returned \subseteq Kept
    /\ \A t \in Tasks : pc[t] = "send" => <<t, sends[t]>> \in Kept

RpcInv ==
    Typed /\ InCall /\ Roles /\ OrphansKnown /\ NobodyForgotten /\ InStep /\ Numbered
    /\ InOrderOnce /\ Accounted

-----------------------------------------------------------------------------
(* The parties and the scheduler.                                            *)

(* The client and the server are two tasks, and no others take part. *)
LEMMA Parties ==
    ASSUME OneEach
    PROVE  /\ Client \in Tasks /\ Server \in Tasks /\ Client # Server
           /\ Clients = {Client} /\ Servers = {Server}
           /\ Channels \subseteq Endpoints /\ Request # Reply
           /\ None \notin Tasks
<1>1. PICK c \in Tasks, s \in Tasks : c # s /\ Clients = {c} /\ Servers = {s}
  BY DEF OneEach
<1>2. Client = c /\ Server = s
  BY <1>1 DEF Client, Server
<1>3. Channels \subseteq Endpoints /\ Request # Reply
  BY IpcAssumption DEF OneEach, Channels, Request, Reply, Endpoints
<1>4. None \notin Tasks
  BY MaxTasksAssumption DEF None, Tasks
<1> QED
  BY <1>1, <1>2, <1>3, <1>4

(* The two ends of a channel. *)
LEMMA Ends ==
    ASSUME OneEach, NEW e \in Channels
    PROVE  /\ From(e) \in Tasks /\ To(e) \in Tasks /\ From(e) # To(e)
           /\ {From(e), To(e)} = {Client, Server}
           /\ e \in Endpoints
           /\ \A f \in Channels : f # e => From(f) = To(e) /\ To(f) = From(e)
           /\ From(e) # None /\ To(e) # None
  BY Parties DEF From, To, Channels

(* A nonempty set of naturals has a least element. *)
LEMMA LeastNatural ==
    ASSUME NEW S, S \subseteq Nat, S # {}
    PROVE  \E i \in S : \A j \in S : i <= j
<1>1. PICK i \in S : \A j \in S : ~ (<<j, i>> \in OpToRel(<, Nat))
  BY NatLessThanWellFounded, WFMin
<1>2. \A j \in S : ~ (j < i)
  BY <1>1 DEF OpToRel
<1> QED
  BY <1>2

(* The scan of schedule() returns a READY task or none. *)
LEMMA NextReadyFacts ==
    ASSUME NEW st, NEW c \in Tasks \cup {None}
    PROVE  \/ NextReady(st, c) = None
           \/ /\ NextReady(st, c) \in Tasks
              /\ st[NextReady(st, c)] = "READY"
<1> DEFINE start == IF c >= 0 THEN c ELSE 0
           Slot(i) == (start + i) % MAX_TASKS
           hits == {i \in 1 .. MAX_TASKS : st[Slot(i)] = "READY"}
           least == CHOOSE i \in hits : \A j \in hits : i <= j
<1>1. CASE hits = {}
  BY <1>1 DEF NextReady
<1>2. CASE hits # {}
  <2>1. hits \subseteq Nat
    BY MaxTasksAssumption
  <2>2. least \in hits
    <3> HIDE DEF hits
    <3>1. \E i \in hits : \A j \in hits : i <= j
      BY <1>2, <2>1, LeastNatural
    <3> QED
      BY <3>1
  <2>3. least \in 1 .. MAX_TASKS /\ st[Slot(least)] = "READY"
    <3> HIDE DEF least, Slot
    <3> QED
      BY <2>2
  <2>4. start \in Nat
    BY MaxTasksAssumption DEF Tasks, None
  <2>5. Slot(least) \in Tasks
    <3> HIDE DEF least, start
    <3> QED
      BY <2>3, <2>4, MaxTasksAssumption DEF Tasks
  <2>6. NextReady(st, c) = Slot(least)
    BY <1>2 DEF NextReady
  <2> QED
    BY <2>3, <2>5, <2>6
<1> QED
  BY <1>1, <1>2

(* schedule() neither blocks a task nor wakes a blocked one. *)
LEMMA DispatchFacts ==
    ASSUME NEW st \in [Tasks -> TaskStates], NEW c \in Tasks \cup {None}
    PROVE  /\ NextReady(st, c) \in Tasks \cup {None}
           /\ Dispatch(st, c) \in [Tasks -> TaskStates]
           /\ \A t \in Tasks : Dispatch(st, c)[t] = "BLOCKED" <=> st[t] = "BLOCKED"
<1> DEFINE next == NextReady(st, c)
<1>1. \/ next = None
      \/ next \in Tasks /\ st[next] = "READY"
  BY NextReadyFacts
<1>2. Dispatch(st, c) =
         [t \in Tasks |-> IF t = next THEN "RUNNING"
                          ELSE IF t = c /\ st[t] = "RUNNING" THEN "READY" ELSE st[t]]
  BY DEF Dispatch, Preempt
<1> HIDE DEF next
<1>3. Dispatch(st, c) \in [Tasks -> TaskStates]
  BY <1>2 DEF TaskStates
<1>4. \A t \in Tasks : Dispatch(st, c)[t] = "BLOCKED" <=> st[t] = "BLOCKED"
  BY <1>1, <1>2, MaxTasksAssumption DEF None, Tasks
<1> QED
  BY <1>1, <1>3, <1>4 DEF next
-----------------------------------------------------------------------------
(* What sending and receiving do to the messages.                            *)

(* At every moment, a task that makes its next call finds its endpoint       *)
(* without a message that nobody has taken: the other end answers only what  *)
(* it received.                                                              *)
MaySend(e) ==
    IF e = Request THEN sends[Client] = Len(received[Client])
    ELSE sends[Server] # Len(received[Server])

LEMMA NothingToOverwrite ==
    ASSUME OneEach, RpcInv, NEW e \in Channels, MaySend(e)
    PROVE  ~endpoints[e].has_pending
<1>1. /\ sends[Client] \in Nat /\ sends[Server] \in Nat
      /\ Len(received[Client]) \in Nat /\ Len(received[Server]) \in Nat
  BY Parties DEF RpcInv, Typed
<1>2. InPipe(Request) \in {0, 1} /\ InPipe(Reply) \in {0, 1}
  BY DEF InPipe
<1>3. InPipe(e) # 1
  <2>1. CASE e = Request
    BY <1>1, <1>2, <2>1 DEF RpcInv, InStep, MaySend
  <2>2. CASE e = Reply
    BY <1>1, <1>2, <2>2, Parties DEF RpcInv, InStep, MaySend
  <2> QED
    BY <2>1, <2>2 DEF Channels
<1> QED
  BY <1>3 DEF InPipe

(* The messages received, one by one. *)
LEMMA TakenIs == \A m : m \in Taken <=> \E t \in Tasks : \E n \in DOMAIN received[t] : m = received[t][n]
  BY DEF Taken

(* A message is put into an endpoint. *)
LEMMA PutStep ==
    ASSUME OneEach, RpcInv, NEW e \in Channels, MaySend(e),
           sends' = [sends EXCEPT ![From(e)] = @ + 1],
           received' = received,
           endpoints'[e].has_pending,
           endpoints'[e].pending_msg = <<From(e), sends[From(e)] + 1>>,
           \A f \in Endpoints : f # e => endpoints'[f] = endpoints[f]
    PROVE  /\ InStep' /\ Numbered' /\ InOrderOnce'
           /\ Taken' = Taken
           /\ Pending' = Pending \cup {<<From(e), sends[From(e)] + 1>>}
<1> DEFINE s == From(e)
           r == To(e)
<1>1. /\ s \in Tasks /\ r \in Tasks /\ s # r /\ e \in Endpoints
      /\ sends \in [Tasks -> Nat] /\ received \in [Tasks -> Seq(Tasks \X Nat)]
      /\ \A f \in Channels : f # e => f \in Endpoints /\ From(f) = r /\ To(f) = s
  BY Ends DEF RpcInv, Typed
<1>2. ~endpoints[e].has_pending
  BY NothingToOverwrite
<1>3. InStep'
  <2>1. /\ sends[Client] \in Nat /\ sends[Server] \in Nat
        /\ Len(received[Client]) \in Nat /\ Len(received[Server]) \in Nat
    BY Parties, <1>1
  <2> DEFINE p == InPipe(Request)
             q == InPipe(Reply)
  <2>2. p \in {0, 1} /\ q \in {0, 1}
    BY DEF InPipe
  <2>3. InStep <=> /\ Len(received[Client]) + q <= sends[Server]
                   /\ sends[Server] <= Len(received[Server])
                   /\ Len(received[Server]) + p <= sends[Client]
                   /\ sends[Client] <= Len(received[Client]) + 1
    BY DEF InStep
  <2>4. InStep
    BY DEF RpcInv
  <2>5. InStep' <=> /\ Len(received[Client]) + InPipe(Reply)' <= sends'[Server]
                    /\ sends'[Server] <= Len(received[Server])
                    /\ Len(received[Server]) + InPipe(Request)' <= sends'[Client]
                    /\ sends'[Client] <= Len(received[Client]) + 1
    BY DEF InStep
  <2>6. CASE e = Request
    <3>1. /\ sends'[Client] = sends[Client] + 1 /\ sends'[Server] = sends[Server]
          /\ InPipe(Request)' = 1 /\ InPipe(Reply)' = q
      BY <1>1, <2>6, Parties DEF InPipe, From, Channels
    <3> HIDE DEF p, q
    <3> QED
      BY <2>1, <2>2, <2>3, <2>4, <2>5, <2>6, <3>1 DEF MaySend
  <2>7. CASE e = Reply
    <3>1. /\ sends'[Server] = sends[Server] + 1 /\ sends'[Client] = sends[Client]
          /\ InPipe(Reply)' = 1 /\ InPipe(Request)' = p
      BY <1>1, <2>7, Parties DEF InPipe, From, Channels
    <3> HIDE DEF p, q
    <3> QED
      BY <2>1, <2>2, <2>3, <2>4, <2>5, <2>7, <3>1, Parties DEF MaySend
  <2> QED
    BY <2>6, <2>7 DEF Channels
<1> HIDE DEF s, r
<1>4. sends'[s] = sends[s] + 1 /\ sends'[r] = sends[r] /\ sends[s] \in Nat
  BY <1>1 DEF s
<1>5. Numbered'
  <2>1. ASSUME NEW f \in Channels, NEW n \in DOMAIN received[To(f)]
        PROVE  /\ received[To(f)][n][1] = From(f)
               /\ received[To(f)][n][2] <= sends'[From(f)]
               /\ endpoints'[f].has_pending => received[To(f)][n][2] < sends'[From(f)]
    <3>1. received[To(f)][n][2] \in Nat
      BY <1>1, <2>1, Ends
    <3>2. CASE f = e
      BY <1>4, <2>1, <3>1, <3>2 DEF RpcInv, Numbered, s
    <3>3. CASE f # e
      BY <1>1, <1>4, <2>1, <3>1, <3>3 DEF RpcInv, Numbered
    <3> QED
      BY <3>2, <3>3
  <2>2. ASSUME NEW f \in Channels, endpoints'[f].has_pending
        PROVE  endpoints'[f].pending_msg = <<From(f), sends'[From(f)]>>
    <3>1. CASE f = e
      BY <1>4, <3>1 DEF s
    <3>2. CASE f # e
      BY <1>1, <1>4, <2>2, <3>2, ZenonT(30) DEF RpcInv, Numbered
    <3> QED
      BY <3>1, <3>2
  <2> QED
    BY <2>1, <2>2 DEF RpcInv, Numbered
<1>6. Taken' = Taken /\ InOrderOnce'
  BY DEF Taken, RpcInv, InOrderOnce
<1>7. Pending' = Pending \cup {<<From(e), sends[From(e)] + 1>>}
  BY <1>1, <1>2 DEF Pending
<1> QED
  BY <1>3, <1>5, <1>6, <1>7

(* The message pending in an endpoint is taken out. *)
LEMMA GetStep ==
    ASSUME OneEach, RpcInv, NEW e \in Channels,
           endpoints[e].has_pending,
           sends' = sends,
           received' = [received EXCEPT ![To(e)] = Append(@, endpoints[e].pending_msg)],
           ~endpoints'[e].has_pending,
           \A f \in Endpoints : f # e => endpoints'[f] = endpoints[f]
    PROVE  /\ InStep' /\ Numbered' /\ InOrderOnce'
           /\ Taken \cup {endpoints[e].pending_msg} \subseteq Taken'
           /\ Pending \subseteq Pending' \cup {endpoints[e].pending_msg}
           /\ received' \in [Tasks -> Seq(Tasks \X Nat)]
<1> DEFINE s == From(e)
           r == To(e)
           old == received[r]
           new == Append(old, <<s, sends[s]>>)
<1>1. /\ s \in Tasks /\ r \in Tasks /\ s # r /\ e \in Endpoints
      /\ sends \in [Tasks -> Nat] /\ received \in [Tasks -> Seq(Tasks \X Nat)]
      /\ \A f \in Channels : f # e => f \in Endpoints /\ From(f) = r /\ To(f) = s
      /\ {s, r} = {Client, Server}
  BY Ends DEF RpcInv, Typed
<1>2. endpoints[e].pending_msg = <<s, sends[s]>>
  BY DEF RpcInv, Numbered
<1>3. /\ received' = [received EXCEPT ![r] = new]
      /\ received'[r] = new /\ \A t \in Tasks : t # r => received'[t] = received[t]
  BY <1>1, <1>2
<1> HIDE DEF s, r, old, new
<1>4. old \in Seq(Tasks \X Nat) /\ <<s, sends[s]>> \in Tasks \X Nat
  BY <1>1 DEF old
<1>5. /\ new \in Seq(Tasks \X Nat) /\ Len(new) = Len(old) + 1 /\ Len(old) \in Nat
      /\ DOMAIN new = 1 .. Len(old) + 1 /\ DOMAIN old = 1 .. Len(old)
      /\ \A n \in 1 .. Len(old) : new[n] = old[n]
      /\ new[Len(old) + 1] = <<s, sends[s]>>
  BY <1>4 DEF new
<1>6. received' \in [Tasks -> Seq(Tasks \X Nat)]
  BY <1>1, <1>3, <1>5
<1>7. InStep'
  <2>1. /\ sends[Client] \in Nat /\ sends[Server] \in Nat
        /\ Len(received[Client]) \in Nat /\ Len(received[Server]) \in Nat
    BY Parties, <1>1
  <2>2. /\ Len(received[Client]) + InPipe(Reply) <= sends[Server]
        /\ sends[Server] <= Len(received[Server])
        /\ Len(received[Server]) + InPipe(Request) <= sends[Client]
        /\ sends[Client] <= Len(received[Client]) + 1
    BY DEF RpcInv, InStep
  <2>3. InStep' <=> /\ Len(received'[Client]) + InPipe(Reply)' <= sends[Server]
                    /\ sends[Server] <= Len(received'[Server])
                    /\ Len(received'[Server]) + InPipe(Request)' <= sends[Client]
                    /\ sends[Client] <= Len(received'[Client]) + 1
    BY DEF InStep
  <2>4. /\ InPipe(e) = 1 /\ InPipe(e)' = 0
        /\ \A f \in Channels : f # e => InPipe(f) \in Nat /\ InPipe(f)' = InPipe(f)
    BY <1>1 DEF InPipe
  <2>5. CASE e = Request
    <3>1. /\ r = Server /\ InPipe(Request) = 1 /\ InPipe(Request)' = 0
          /\ InPipe(Reply)' = InPipe(Reply) /\ InPipe(Reply) \in Nat
          /\ received'[Client] = received[Client] /\ received'[Server] = new
          /\ Len(new) = Len(received[Server]) + 1
      BY <1>1, <1>3, <1>5, <2>4, <2>5, Parties DEF r, old, To, Channels
    <3> QED
      BY <2>1, <2>2, <2>3, <3>1
  <2>6. CASE e = Reply
    <3>1. /\ r = Client /\ InPipe(Reply) = 1 /\ InPipe(Reply)' = 0
          /\ InPipe(Request)' = InPipe(Request) /\ InPipe(Request) \in Nat
          /\ received'[Server] = received[Server] /\ received'[Client] = new
          /\ Len(new) = Len(received[Client]) + 1
      BY <1>1, <1>3, <1>5, <2>4, <2>6, Parties DEF r, old, To, Channels
    <3> QED
      BY <2>1, <2>2, <2>3, <3>1
  <2> QED
    BY <2>5, <2>6 DEF Channels
<1>8. \A n \in 1 .. Len(old) : old[n][1] = s /\ old[n][2] < sends[s]
  BY <1>5 DEF RpcInv, Numbered, s, r, old
<1>9. Numbered'
  <2>1. ASSUME NEW f \in Channels, NEW n \in DOMAIN received'[To(f)]
        PROVE  /\ received'[To(f)][n][1] = From(f)
               /\ received'[To(f)][n][2] <= sends[From(f)]
               /\ endpoints'[f].has_pending => received'[To(f)][n][2] < sends[From(f)]
    <3>1. CASE f = e
      <4>1. received'[To(f)] = new /\ From(f) = s /\ ~endpoints'[f].has_pending
        BY <1>3, <3>1 DEF r, s
      <4>2. n \in 1 .. Len(old) + 1 /\ sends[s] \in Nat
        BY <1>1, <1>5, <2>1, <4>1
      <4>3. CASE n = Len(old) + 1
        BY <1>5, <4>1, <4>2, <4>3
      <4>4. CASE n \in 1 .. Len(old)
        <5>1. old[n] \in Tasks \X Nat
          BY <1>4, <1>5, <4>4
        <5> QED
          BY <1>5, <1>8, <4>1, <4>2, <4>4, <5>1, SMTT(30)
      <4> QED
        BY <1>5, <4>2, <4>3, <4>4
    <3>2. CASE f # e
      <4>1. received'[To(f)] = received[To(f)] /\ endpoints'[f] = endpoints[f]
        BY <1>1, <1>3, <2>1, <3>2
      <4> QED
        BY <2>1, <4>1, ZenonT(30) DEF RpcInv, Numbered
    <3> QED
      BY <3>1, <3>2
  <2>2. ASSUME NEW f \in Channels, endpoints'[f].has_pending
        PROVE  endpoints'[f].pending_msg = <<From(f), sends[From(f)]>>
    BY <1>1, <2>2 DEF RpcInv, Numbered
  <2>3. \A t \in Tasks \ {Client, Server} : received'[t] = <<>>
    BY <1>1, <1>3 DEF RpcInv, Numbered
  <2> QED
    BY <2>1, <2>2, <2>3 DEF Numbered
<1>10. InOrderOnce'
  <2> SUFFICES ASSUME NEW t \in Tasks, NEW n \in DOMAIN received'[t], NEW m \in DOMAIN received'[t],
                      n < m, received'[t][n][1] = received'[t][m][1]
               PROVE  received'[t][n][2] < received'[t][m][2]
    BY DEF InOrderOnce
  <2>1. CASE t # r
    BY <1>3, <2>1 DEF RpcInv, InOrderOnce
  <2>2. CASE t = r
    <3>1. n \in 1 .. Len(old) /\ m \in 1 .. Len(old) + 1 /\ received'[t] = new
      BY <1>3, <1>5, <2>2
    <3>2. CASE m = Len(old) + 1
      BY <1>5, <1>8, <3>1, <3>2, SMTT(30)
    <3>3. CASE m # Len(old) + 1
      <4>1. m \in DOMAIN old /\ n \in DOMAIN old /\ new[n] = old[n] /\ new[m] = old[m]
        BY <1>5, <3>1, <3>3, SMTT(30)
      <4> QED
        BY <1>1, <3>1, <4>1 DEF RpcInv, InOrderOnce, old
    <3> QED
      BY <3>2, <3>3
  <2> QED
    BY <2>1, <2>2
<1>11. Taken \cup {endpoints[e].pending_msg} \subseteq Taken'
  <2>1. \A m : m \in Taken' <=>
               \E t \in Tasks : \E n \in DOMAIN received'[t] : m = received'[t][n]
    BY DEF Taken
  <2>2. Len(old) + 1 \in DOMAIN received'[r] /\ received'[r][Len(old) + 1] = <<s, sends[s]>>
    BY <1>3, <1>5
  <2>3. <<s, sends[s]>> \in Taken'
    BY <1>1, <2>1, <2>2, ZenonT(30)
  <2>4. ASSUME NEW m \in Taken PROVE m \in Taken'
    <3>1. PICK t \in Tasks : \E n \in DOMAIN received[t] : m = received[t][n]
      BY TakenIs
    <3>2. PICK n \in DOMAIN received[t] : m = received[t][n]
      BY <3>1
    <3>3. n \in DOMAIN received'[t] /\ received'[t][n] = received[t][n]
      BY <1>3, <1>5, <3>2 DEF old
    <3> QED
      BY <2>1, <3>2, <3>3
  <2> QED
    BY <1>2, <2>3, <2>4
<1>12. Pending \subseteq Pending' \cup {endpoints[e].pending_msg}
  BY DEF Pending
<1> QED
  BY <1>6, <1>7, <1>9, <1>10, <1>11, <1>12

-----------------------------------------------------------------------------
(* The steps.                                                                *)

(* Initially there is nothing on the way. *)
LEMMA InitRpc ==
    ASSUME OneEach, Init
    PROVE  RpcInv
<1> USE Parties DEF Init
<1>1. NoMessage \in MessageOrNone /\ 0 \in Endpoints
  BY IpcAssumption DEF NoMessage, MessageOrNone, OneEach, Endpoints
<1>2. Typed
  <2>1. FreshEndpoint \in EndpointRecord
    BY <1>1 DEF FreshEndpoint, EndpointRecord
  <2>2. [FreshEndpoint EXCEPT !.active = FALSE] \in EndpointRecord
    BY <2>1 DEF EndpointRecord
  <2>3. endpoints \in [Endpoints -> EndpointRecord]
    BY <2>2
  <2>4. /\ state \in [Tasks -> TaskStates] /\ pc \in [Tasks -> {"user", "send", "recv"}]
        /\ waits \in [Tasks -> Endpoints] /\ sends \in [Tasks -> Nat]
    BY <1>1 DEF TaskStates
  <2>5. received \in [Tasks -> Seq(Tasks \X Nat)]
    OBVIOUS
  <2> QED
    BY <2>3, <2>4, <2>5 DEF Typed
<1>3. InCall /\ OrphansKnown /\ NobodyForgotten
  BY DEF InCall, OrphansKnown, NobodyForgotten
<1>4. \A e \in Endpoints : /\ ~endpoints[e].has_pending
                           /\ endpoints[e].sender_task = None /\ endpoints[e].receiver_task = None
  BY DEF FreshEndpoint
<1>5. Roles
  BY <1>4 DEF Roles
<1>6. \A t \in Tasks : received[t] = <<>> /\ sends[t] = 0 /\ Len(received[t]) = 0
  OBVIOUS
<1>7. InPipe(Request) = 0 /\ InPipe(Reply) = 0
  BY <1>4 DEF InPipe, Channels
<1>8. InStep
  BY <1>6, <1>7 DEF InStep
<1>9. Numbered
  <2>1. \A t \in Tasks : DOMAIN received[t] = {}
    BY <1>6
  <2> QED
    BY <1>4, <1>6, <2>1, Ends DEF Numbered
<1>10. InOrderOnce
  BY <1>6 DEF InOrderOnce
<1>11. Accounted
  BY DEF Accounted
<1> QED
  BY <1>2, <1>3, <1>5, <1>8, <1>9, <1>10, <1>11 DEF RpcInv

(* What is accounted for stays so, and what a step adds is, too. *)
LEMMA AccountedStep ==
    ASSUME Accounted, NEW M,
           returned' \subseteq returned \cup M,
           \A t \in Tasks : pc'[t] = "send" => \/ pc[t] = "send" /\ sends'[t] = sends[t]
                                             \/ <<t, sends'[t]>> \in M,
           Kept \cup M \subseteq Kept'
    PROVE  Accounted'
<1>1. returned' \subseteq Kept'
  BY DEF Accounted
<1>2. ASSUME NEW t \in Tasks, pc'[t] = "send"
      PROVE  <<t, sends'[t]>> \in Kept'
  BY <1>2 DEF Accounted
<1> QED
  BY <1>1, <1>2 DEF Accounted

(* ipc_send to a receiver that waits. *)
LEMMA SendToReceiverStep ==
    ASSUME OneEach, RpcInv, NEW e \in Channels, MaySend(e), SendToReceiver(From(e), e)
    PROVE  RpcInv'
<1> DEFINE s == From(e)
           r == To(e)
           m == <<s, sends[s] + 1>>
<1> USE DEF RpcInv
<1>1. /\ s \in Tasks /\ r \in Tasks /\ s # r /\ e \in Endpoints /\ r # None
      /\ \A f \in Channels : f # e => f \in Endpoints /\ From(f) = r /\ To(f) = s
  BY Ends
<1>2. /\ cur = s /\ pc[s] = "user" /\ state[s] = "RUNNING"
      /\ endpoints[e].active
      /\ endpoints[e].receiver_task # None
      /\ endpoints' = [endpoints EXCEPT ![e].pending_msg = m,
                                        ![e].has_pending = TRUE,
                                        ![e].receiver_task = None]
      /\ state' = [state EXCEPT ![endpoints[e].receiver_task] = "READY"]
      /\ sends' = [sends EXCEPT ![s] = @ + 1]
      /\ returned' = returned \cup {m}
      /\ UNCHANGED <<cur, pc, waits, received, dropped, orphans, destroys>>
  BY DEF SendToReceiver, Runs
<1>3. endpoints[e].receiver_task = r
  BY <1>2 DEF Roles
<1> HIDE DEF s, r, m
<1>4. /\ endpoints'[e].has_pending /\ endpoints'[e].pending_msg = m
      /\ endpoints'[e].receiver_task = None
      /\ endpoints'[e].active /\ endpoints'[e].sender_task = endpoints[e].sender_task
      /\ \A f \in Endpoints : f # e => endpoints'[f] = endpoints[f]
  BY <1>1, <1>2 DEF Typed
<1>5. /\ InStep' /\ Numbered' /\ InOrderOnce' /\ Taken' = Taken /\ Pending' = Pending \cup {m}
  BY <1>2, <1>4, PutStep DEF s, m
<1>6. Typed'
  <2>1. m \in MessageOrNone
    BY <1>1 DEF Typed, m, MessageOrNone
  <2> QED
    BY <1>1, <1>2, <2>1 DEF Typed, EndpointRecord, TaskStates
<1>7. /\ state'[r] = "READY" /\ \A t \in Tasks : t # r => state'[t] = state[t]
  BY <1>1, <1>2, <1>3 DEF Typed
<1>8. InCall'
  BY <1>1, <1>2, <1>7 DEF InCall
<1>9. Roles' /\ OrphansKnown'
  BY <1>1, <1>2, <1>4, <1>7 DEF Roles, OrphansKnown, Typed
<1>10. NobodyForgotten'
  <2> SUFFICES ASSUME NEW t \in Tasks, state'[t] = "BLOCKED", t \notin orphans
               PROVE  t = IF pc[t] = "send" THEN endpoints'[waits[t]].sender_task
                          ELSE endpoints'[waits[t]].receiver_task
    BY <1>2 DEF NobodyForgotten
  <2>1. t # r /\ state[t] = "BLOCKED"
    BY <1>7
  <2>2. t = IF pc[t] = "send" THEN endpoints[waits[t]].sender_task
            ELSE endpoints[waits[t]].receiver_task
    BY <2>1 DEF NobodyForgotten
  <2>3. waits[t] \in Endpoints /\ pc[t] \in {"user", "send", "recv"}
    BY DEF Typed
  <2>4. CASE waits[t] # e
    BY <1>4, <2>2, <2>3, <2>4
  <2>5. CASE waits[t] = e
    BY <1>3, <1>4, <2>1, <2>2, <2>5
  <2> QED
    BY <2>4, <2>5
<1>11. Accounted'
  <2>1. \A t \in Tasks : pc'[t] = "send" => pc[t] = "send" /\ sends'[t] = sends[t]
    BY <1>1, <1>2 DEF Typed
  <2>2. Kept \cup {m} \subseteq Kept'
    BY <1>2, <1>5 DEF Kept
  <2>3. returned' \subseteq returned \cup {m}
    BY <1>2
  <2> QED
    BY <2>1, <2>2, <2>3, AccountedStep
<1> QED
  BY <1>5, <1>6, <1>8, <1>9, <1>10, <1>11

(* ipc_send with nobody waiting. *)
LEMMA SendAndBlockStep ==
    ASSUME OneEach, RpcInv, NEW e \in Channels, MaySend(e), SendAndBlock(From(e), e)
    PROVE  RpcInv'
<1> DEFINE s == From(e)
           m == <<s, sends[s] + 1>>
<1> USE DEF RpcInv
<1>1. /\ s \in Tasks /\ e \in Endpoints
      /\ \A f \in Channels : f # e => f \in Endpoints /\ From(f) # s
  BY Ends
<1>2. /\ cur = s /\ pc[s] = "user" /\ state[s] = "RUNNING"
      /\ endpoints[e].active
      /\ endpoints' = [endpoints EXCEPT ![e].pending_msg = m,
                                        ![e].has_pending = TRUE,
                                        ![e].sender_task = s]
      /\ state' = [state EXCEPT ![s] = "BLOCKED"]
      /\ sends' = [sends EXCEPT ![s] = @ + 1]
      /\ pc' = [pc EXCEPT ![s] = "send"]
      /\ waits' = [waits EXCEPT ![s] = e]
      /\ UNCHANGED <<cur, received, returned, dropped, orphans, destroys>>
  BY DEF SendAndBlock, Runs
<1> HIDE DEF s, m
<1>3. /\ endpoints'[e].has_pending /\ endpoints'[e].pending_msg = m
      /\ endpoints'[e].sender_task = s
      /\ endpoints'[e].active /\ endpoints'[e].receiver_task = endpoints[e].receiver_task
      /\ \A f \in Endpoints : f # e => endpoints'[f] = endpoints[f]
  BY <1>1, <1>2 DEF Typed
<1>4. /\ InStep' /\ Numbered' /\ InOrderOnce' /\ Taken' = Taken /\ Pending' = Pending \cup {m}
  BY <1>2, <1>3, PutStep DEF s, m
<1>5. Typed'
  <2>1. m \in MessageOrNone
    BY <1>1 DEF Typed, m, MessageOrNone
  <2>2. endpoints' \in [Endpoints -> EndpointRecord]
    <3>1. endpoints' = [endpoints EXCEPT ![e] =
                          [@ EXCEPT !.pending_msg = m, !.has_pending = TRUE, !.sender_task = s]]
      BY <1>2
    <3>2. [endpoints[e] EXCEPT !.pending_msg = m, !.has_pending = TRUE, !.sender_task = s]
            \in EndpointRecord
      <4>1. endpoints[e] \in EndpointRecord
        BY <1>1 DEF Typed
      <4> QED
        BY <1>1, <2>1, <4>1 DEF EndpointRecord
    <3> QED
      BY <1>1, <3>1, <3>2 DEF Typed
  <2>3. state' \in [Tasks -> TaskStates] /\ sends' \in [Tasks -> Nat]
    BY <1>1, <1>2 DEF Typed, TaskStates
  <2>4. pc' \in [Tasks -> {"user", "send", "recv"}] /\ waits' \in [Tasks -> Endpoints]
    BY <1>1, <1>2 DEF Typed
  <2> QED
    BY <1>2, <2>2, <2>3, <2>4 DEF Typed
<1>6. /\ state'[s] = "BLOCKED" /\ pc'[s] = "send" /\ waits'[s] = e /\ sends'[s] = sends[s] + 1
      /\ \A t \in Tasks : t # s =>
            state'[t] = state[t] /\ pc'[t] = pc[t] /\ waits'[t] = waits[t] /\ sends'[t] = sends[t]
  BY <1>1, <1>2 DEF Typed
<1>7. InCall'
  BY <1>1, <1>6 DEF InCall, s
<1>8. Roles'
  BY <1>1, <1>3 DEF Roles, s
<1>9. OrphansKnown'
  BY <1>1, <1>2, <1>3, <1>6 DEF OrphansKnown, Typed
<1>10. NobodyForgotten'
  <2> SUFFICES ASSUME NEW t \in Tasks, state'[t] = "BLOCKED", t \notin orphans
               PROVE  t = IF pc'[t] = "send" THEN endpoints'[waits'[t]].sender_task
                          ELSE endpoints'[waits'[t]].receiver_task
    BY <1>2 DEF NobodyForgotten
  <2>1. CASE t = s
    BY <1>3, <1>6, <2>1
  <2>2. CASE t # s
    <3>1. /\ waits[t] \in Endpoints /\ state[t] = "BLOCKED"
          /\ pc'[t] = pc[t] /\ waits'[t] = waits[t]
      BY <1>6, <2>2 DEF Typed
    <3>2. t = IF pc[t] = "send" THEN endpoints[waits[t]].sender_task
              ELSE endpoints[waits[t]].receiver_task
      BY <3>1 DEF NobodyForgotten
    <3>3. ~ (pc[t] = "send" /\ waits[t] = e)
      BY <2>2 DEF InCall, s
    <3> QED
      BY <1>3, <3>1, <3>2, <3>3
  <2> QED
    BY <2>1, <2>2
<1>11. Accounted'
  <2>1. \A t \in Tasks : pc'[t] = "send" => \/ pc[t] = "send" /\ sends'[t] = sends[t]
                                            \/ <<t, sends'[t]>> \in {m}
    BY <1>6 DEF m
  <2>2. Kept \cup {m} \subseteq Kept'
    BY <1>2, <1>4 DEF Kept
  <2>3. returned' \subseteq returned \cup {m}
    BY <1>2
  <2> QED
    BY <2>1, <2>2, <2>3, AccountedStep
<1> QED
  BY <1>4, <1>5, <1>7, <1>8, <1>9, <1>10, <1>11

(* A blocked ipc_send returns. *)
LEMMA SendReturnsStep ==
    ASSUME OneEach, RpcInv, NEW t \in Tasks, SendReturns(t)
    PROVE  RpcInv'
<1> USE DEF RpcInv
<1>1. /\ cur = t /\ pc[t] = "send" /\ state[t] = "RUNNING"
      /\ returned' = returned \cup {<<t, sends[t]>>}
      /\ pc' = [pc EXCEPT ![t] = "user"]
      /\ UNCHANGED <<state, cur, waits, endpoints, sends, received, dropped, orphans>>
  BY DEF SendReturns
<1>2. pc'[t] = "user" /\ \A u \in Tasks : u # t => pc'[u] = pc[u]
  BY <1>1 DEF Typed
<1>3. Typed' /\ InCall' /\ Roles' /\ OrphansKnown'
  BY <1>1, <1>2 DEF Typed, InCall, Roles, OrphansKnown
<1>4. NobodyForgotten'
  BY <1>1, <1>2 DEF NobodyForgotten
<1>5. InStep' /\ Numbered' /\ InOrderOnce'
  BY <1>1 DEF InStep, InPipe, Numbered, InOrderOnce
<1>6. Kept' = Kept
  BY <1>1 DEF Kept, Taken, Pending
<1>7. Accounted'
  BY <1>1, <1>2, <1>6 DEF Accounted
<1> QED
  BY <1>3, <1>4, <1>5, <1>7

(* ipc_recv with a message pending. *)
LEMMA RecvPendingStep ==
    ASSUME OneEach, RpcInv, NEW e \in Channels, RecvPending(To(e), e)
    PROVE  RpcInv'
<1> DEFINE s == From(e)
           r == To(e)
           w == endpoints[e].sender_task
<1> USE DEF RpcInv
<1>1. /\ s \in Tasks /\ r \in Tasks /\ s # r /\ e \in Endpoints /\ s # None
      /\ \A f \in Channels : f # e => f \in Endpoints
  BY Ends
<1>2. /\ endpoints[e].active /\ endpoints[e].has_pending
      /\ received' = [received EXCEPT ![r] = Append(@, endpoints[e].pending_msg)]
      /\ endpoints' = [endpoints EXCEPT ![e].has_pending = FALSE,
                                        ![e].pending_msg = NoMessage,
                                        ![e].sender_task = None]
      /\ state' = [u \in Tasks |-> IF u = w THEN "READY" ELSE state[u]]
      /\ UNCHANGED <<cur, pc, waits, sends, returned, dropped, orphans>>
  BY DEF RecvPending
<1>3. w \in {None, s}
  BY DEF Roles
<1> HIDE DEF s, r, w
<1>4. /\ ~endpoints'[e].has_pending /\ endpoints'[e].sender_task = None
      /\ endpoints'[e].active = endpoints[e].active
      /\ endpoints'[e].receiver_task = endpoints[e].receiver_task
      /\ \A f \in Endpoints : f # e => endpoints'[f] = endpoints[f]
  BY <1>1, <1>2 DEF Typed, EndpointRecord
<1>5. /\ InStep' /\ Numbered' /\ InOrderOnce'
      /\ Taken \cup {endpoints[e].pending_msg} \subseteq Taken'
      /\ Pending \subseteq Pending' \cup {endpoints[e].pending_msg}
      /\ received' \in [Tasks -> Seq(Tasks \X Nat)]
  BY <1>2, <1>4, GetStep DEF r
<1>6. Typed'
  <2>1. [endpoints[e] EXCEPT !.has_pending = FALSE, !.pending_msg = NoMessage, !.sender_task = None]
          \in EndpointRecord
    <3>1. endpoints[e] \in EndpointRecord /\ NoMessage \in MessageOrNone
      BY <1>1 DEF Typed, NoMessage, MessageOrNone
    <3> QED
      BY <3>1 DEF EndpointRecord
  <2>2. endpoints' = [endpoints EXCEPT ![e] =
          [@ EXCEPT !.has_pending = FALSE, !.pending_msg = NoMessage, !.sender_task = None]]
    BY <1>2
  <2>3. endpoints' \in [Endpoints -> EndpointRecord]
    BY <1>1, <2>1, <2>2 DEF Typed
  <2>4. state' \in [Tasks -> TaskStates]
    BY <1>2 DEF Typed, TaskStates
  <2> QED
    BY <1>2, <1>5, <2>3, <2>4 DEF Typed
<1>7. \A t \in Tasks : state'[t] = "BLOCKED" => state[t] = "BLOCKED" /\ t # w
  BY <1>2 DEF Typed
<1>8. InCall'
  BY <1>2, <1>7 DEF InCall
<1>9. Roles'
  BY <1>1, <1>4 DEF Roles
<1>10. OrphansKnown'
  <2>1. \A f \in Endpoints : endpoints'[f].active = endpoints[f].active
    BY <1>4
  <2> QED
    BY <1>2, <1>7, <2>1 DEF OrphansKnown, Typed
<1>11. NobodyForgotten'
  <2> SUFFICES ASSUME NEW t \in Tasks, state'[t] = "BLOCKED", t \notin orphans
               PROVE  t = IF pc[t] = "send" THEN endpoints'[waits[t]].sender_task
                          ELSE endpoints'[waits[t]].receiver_task
    BY <1>2 DEF NobodyForgotten
  <2>1. t # w /\ state[t] = "BLOCKED" /\ waits[t] \in Endpoints
    BY <1>7 DEF Typed
  <2>2. t = IF pc[t] = "send" THEN endpoints[waits[t]].sender_task
            ELSE endpoints[waits[t]].receiver_task
    BY <2>1 DEF NobodyForgotten
  <2>3. CASE waits[t] # e
    BY <1>4, <2>1, <2>2, <2>3
  <2>4. CASE waits[t] = e
    BY <1>4, <2>1, <2>2, <2>4 DEF w
  <2> QED
    BY <2>3, <2>4
<1>12. Accounted'
  <2>1. Kept \subseteq Kept'
    BY <1>2, <1>5 DEF Kept
  <2> QED
    BY <1>2, <2>1 DEF Accounted
<1> QED
  BY <1>5, <1>6, <1>8, <1>9, <1>10, <1>11, <1>12

(* ipc_recv with no message. *)
LEMMA RecvAndBlockStep ==
    ASSUME OneEach, RpcInv, NEW e \in Channels, RecvAndBlock(To(e), e)
    PROVE  RpcInv'
<1> DEFINE r == To(e)
<1> USE DEF RpcInv
<1>1. /\ r \in Tasks /\ e \in Endpoints
      /\ \A f \in Channels : f # e => f \in Endpoints /\ To(f) # r
  BY Ends
<1>2. /\ pc[r] = "user" /\ endpoints[e].active
      /\ endpoints' = [endpoints EXCEPT ![e].receiver_task = r]
      /\ state' = [state EXCEPT ![r] = "BLOCKED"]
      /\ pc' = [pc EXCEPT ![r] = "recv"]
      /\ waits' = [waits EXCEPT ![r] = e]
      /\ UNCHANGED <<cur, sends, received, returned, dropped, orphans>>
  BY DEF RecvAndBlock, Runs
<1> HIDE DEF r
<1>3. /\ endpoints'[e].receiver_task = r /\ endpoints'[e].active
      /\ endpoints'[e].sender_task = endpoints[e].sender_task
      /\ \A f \in Endpoints : /\ endpoints'[f].has_pending = endpoints[f].has_pending
                              /\ endpoints'[f].pending_msg = endpoints[f].pending_msg
                              /\ f # e => endpoints'[f] = endpoints[f]
  BY <1>1, <1>2 DEF Typed, EndpointRecord
<1>4. Typed'
  <2>1. [endpoints[e] EXCEPT !.receiver_task = r] \in EndpointRecord
    BY <1>1, ZenonT(30) DEF Typed, EndpointRecord
  <2>2. endpoints' \in [Endpoints -> EndpointRecord]
    BY <1>1, <1>2, <2>1 DEF Typed
  <2>3. state' \in [Tasks -> TaskStates]
    BY <1>1, <1>2 DEF Typed, TaskStates
  <2> QED
    BY <1>1, <1>2, <2>2, <2>3 DEF Typed
<1>5. /\ state'[r] = "BLOCKED" /\ pc'[r] = "recv" /\ waits'[r] = e
      /\ \A t \in Tasks : t # r =>
            state'[t] = state[t] /\ pc'[t] = pc[t] /\ waits'[t] = waits[t]
  BY <1>1, <1>2 DEF Typed
<1>6. InCall'
  BY <1>1, <1>5 DEF InCall, r
<1>7. Roles'
  BY <1>1, <1>3 DEF Roles, r
<1>8. OrphansKnown'
  BY <1>1, <1>2, <1>3, <1>5 DEF OrphansKnown, Typed
<1>9. NobodyForgotten'
  <2> SUFFICES ASSUME NEW t \in Tasks, state'[t] = "BLOCKED", t \notin orphans
               PROVE  t = IF pc'[t] = "send" THEN endpoints'[waits'[t]].sender_task
                          ELSE endpoints'[waits'[t]].receiver_task
    BY <1>2 DEF NobodyForgotten
  <2>1. CASE t = r
    BY <1>3, <1>5, <2>1
  <2>2. CASE t # r
    <3>1. /\ waits[t] \in Endpoints /\ state[t] = "BLOCKED"
          /\ pc[t] \in {"send", "recv"} /\ pc'[t] = pc[t] /\ waits'[t] = waits[t]
      BY <1>5, <2>2 DEF Typed, InCall
    <3>2. t = IF pc[t] = "send" THEN endpoints[waits[t]].sender_task
              ELSE endpoints[waits[t]].receiver_task
      BY <3>1 DEF NobodyForgotten
    <3>3. ~ (pc[t] = "recv" /\ waits[t] = e)
      BY <2>2 DEF InCall, r
    <3> QED
      BY <1>3, <3>1, <3>2, <3>3
  <2> QED
    BY <2>1, <2>2
<1>10. InStep' /\ Numbered' /\ InOrderOnce'
  BY <1>2, <1>3, Parties, ZenonT(30) DEF InStep, InPipe, Numbered, InOrderOnce, Channels
<1>11. Kept' = Kept
  <2>1. Pending' = Pending
    BY <1>3 DEF Pending
  <2>2. Taken' = Taken
    BY <1>2 DEF Taken
  <2> QED
    BY <1>2, <2>1, <2>2 DEF Kept
<1>12. Accounted'
  <2>1. \A t \in Tasks : pc'[t] = "send" => pc[t] = "send"
    BY <1>5
  <2> QED
    BY <1>2, <1>11, <2>1 DEF Accounted
<1> QED
  BY <1>4, <1>6, <1>7, <1>8, <1>9, <1>10, <1>12

(* ipc_recv after waking up. *)
LEMMA RecvReturnsStep ==
    ASSUME OneEach, RpcInv, NEW t \in Tasks, RecvReturns(t)
    PROVE  RpcInv'
<1> DEFINE e == waits[t]
<1> USE DEF RpcInv
<1>1. /\ pc[t] = "recv" /\ state[t] = "RUNNING"
      /\ pc' = [pc EXCEPT ![t] = "user"]
      /\ UNCHANGED <<state, cur, waits, sends, returned, dropped, orphans>>
  BY DEF RecvReturns
<1>2. e \in Channels /\ t = To(e)
  BY <1>1 DEF InCall
<1>3. e \in Endpoints
  BY <1>2, Ends
<1>4. pc'[t] = "user" /\ \A u \in Tasks : u # t => pc'[u] = pc[u]
  BY <1>1 DEF Typed
<1>5. pc' \in [Tasks -> {"user", "send", "recv"}]
  BY <1>1 DEF Typed
<1>6. InCall'
  BY <1>1, <1>4 DEF InCall
<1>7. CASE endpoints[e].has_pending
  <2>1. /\ received' = [received EXCEPT ![t] = Append(@, endpoints[e].pending_msg)]
        /\ endpoints' = [endpoints EXCEPT ![e].has_pending = FALSE,
                                          ![e].pending_msg = NoMessage]
    BY <1>7 DEF RecvReturns
  <2> HIDE DEF e
  <2>2. /\ ~endpoints'[e].has_pending
        /\ \A f \in Endpoints : /\ endpoints'[f].active = endpoints[f].active
                                /\ endpoints'[f].sender_task = endpoints[f].sender_task
                                /\ endpoints'[f].receiver_task = endpoints[f].receiver_task
                                /\ f # e => endpoints'[f] = endpoints[f]
    BY <1>3, <2>1 DEF Typed, EndpointRecord
  <2>3. /\ InStep' /\ Numbered' /\ InOrderOnce'
        /\ Taken \cup {endpoints[e].pending_msg} \subseteq Taken'
        /\ Pending \subseteq Pending' \cup {endpoints[e].pending_msg}
        /\ received' \in [Tasks -> Seq(Tasks \X Nat)]
    BY <1>1, <1>2, <1>7, <2>1, <2>2, GetStep
  <2>4. Typed'
    <3>1. [endpoints[e] EXCEPT !.has_pending = FALSE, !.pending_msg = NoMessage] \in EndpointRecord
      <4>1. endpoints[e] \in EndpointRecord /\ NoMessage \in MessageOrNone
        BY <1>3 DEF Typed, NoMessage, MessageOrNone
      <4> QED
        BY <4>1 DEF EndpointRecord
    <3>2. endpoints' = [endpoints EXCEPT ![e] =
            [@ EXCEPT !.has_pending = FALSE, !.pending_msg = NoMessage]]
      BY <2>1
    <3>3. endpoints' \in [Endpoints -> EndpointRecord]
      BY <1>3, <3>1, <3>2 DEF Typed
    <3> QED
      BY <1>1, <1>5, <2>3, <3>3 DEF Typed
  <2>5. Roles'
    BY <1>2, <1>3, <2>2, Ends DEF Roles
  <2>6. OrphansKnown'
    BY <1>1, <2>2 DEF OrphansKnown, Typed
  <2>7. NobodyForgotten'
    BY <1>1, <1>4, <2>2 DEF NobodyForgotten, Typed
  <2>8. Accounted'
    <3>1. Kept \subseteq Kept'
      BY <1>1, <2>3 DEF Kept
    <3> QED
      BY <1>1, <1>4, <3>1 DEF Accounted
  <2> QED
    BY <1>6, <2>3, <2>4, <2>5, <2>6, <2>7, <2>8
<1>8. CASE ~endpoints[e].has_pending
  <2>1. UNCHANGED <<received, endpoints>>
    BY <1>8 DEF RecvReturns
  <2>2. Kept' = Kept
    BY <1>1, <2>1 DEF Kept, Taken, Pending
  <2>3. Typed' /\ Roles' /\ OrphansKnown'
    BY <1>1, <1>5, <2>1 DEF Typed, Roles, OrphansKnown
  <2>4. NobodyForgotten'
    BY <1>1, <1>4, <2>1 DEF NobodyForgotten
  <2>5. InStep' /\ Numbered' /\ InOrderOnce'
    BY <1>1, <2>1 DEF InStep, InPipe, Numbered, InOrderOnce
  <2>6. Accounted'
    BY <1>1, <1>4, <2>2 DEF Accounted
  <2> QED
    BY <1>6, <2>3, <2>4, <2>5, <2>6
<1> QED
  BY <1>7, <1>8

(* ipc_endpoint_create takes an inactive endpoint: what it held is dropped,  *)
(* and whoever is blocked on it had been orphaned.                           *)
LEMMA CreateStep ==
    ASSUME OneEach, RpcInv, NEW t \in Tasks, Create(t)
    PROVE  RpcInv'
<1> USE DEF RpcInv
<1> DEFINE free == {x \in Endpoints : ~endpoints[x].active}
           e == CHOOSE x \in free : \A y \in free : x <= y
<1>1. /\ free # {}
      /\ dropped' = IF endpoints[e].has_pending
                    THEN dropped \cup {endpoints[e].pending_msg} ELSE dropped
      /\ endpoints' = [endpoints EXCEPT ![e] = FreshEndpoint]
      /\ UNCHANGED <<state, cur, pc, waits, sends, received, returned, orphans>>
  BY DEF Create
<1>2. e \in free
  <2>1. free \subseteq Nat
    BY IpcAssumption DEF Endpoints
  <2> HIDE DEF free
  <2>2. \E x \in free : \A y \in free : x <= y
    BY <1>1, <2>1, LeastNatural
  <2> QED
    BY <2>2
<1>3. e \in Endpoints /\ ~endpoints[e].active
  <2> HIDE DEF e
  <2> QED
    BY <1>2
<1> HIDE DEF e, free
<1>4. /\ endpoints'[e] = FreshEndpoint
      /\ \A f \in Endpoints : f # e => endpoints'[f] = endpoints[f]
  BY <1>1, <1>3 DEF Typed
<1>5. Typed'
  <2>1. FreshEndpoint \in EndpointRecord
    BY DEF FreshEndpoint, EndpointRecord, NoMessage, MessageOrNone
  <2>2. endpoints' \in [Endpoints -> EndpointRecord]
    BY <1>1, <1>3, <2>1 DEF Typed
  <2> QED
    BY <1>1, <2>2 DEF Typed
<1>6. InCall'
  BY <1>1 DEF InCall
<1>7. Roles'
  BY <1>4, Parties DEF Roles, FreshEndpoint
<1>8. OrphansKnown'
  BY <1>1, <1>4 DEF OrphansKnown, Typed, FreshEndpoint
<1>9. NobodyForgotten'
  <2> SUFFICES ASSUME NEW u \in Tasks, state[u] = "BLOCKED", u \notin orphans
               PROVE  u = IF pc[u] = "send" THEN endpoints'[waits[u]].sender_task
                          ELSE endpoints'[waits[u]].receiver_task
    BY <1>1 DEF NobodyForgotten
  <2>1. waits[u] # e /\ waits[u] \in Endpoints
    BY <1>3 DEF OrphansKnown, Typed
  <2> QED
    BY <1>4, <2>1 DEF NobodyForgotten
<1>10. InStep'
  <2>1. \A f \in Channels : InPipe(f)' \in Nat /\ InPipe(f) \in Nat /\ InPipe(f)' <= InPipe(f)
    BY <1>4, Parties DEF InPipe, FreshEndpoint
  <2>2. /\ sends[Client] \in Nat /\ sends[Server] \in Nat
        /\ Len(received[Client]) \in Nat /\ Len(received[Server]) \in Nat
    BY Parties DEF Typed
  <2>3. /\ Len(received[Client]) + InPipe(Reply) <= sends[Server]
        /\ sends[Server] <= Len(received[Server])
        /\ Len(received[Server]) + InPipe(Request) <= sends[Client]
        /\ sends[Client] <= Len(received[Client]) + 1
    BY DEF InStep
  <2>4. InStep' <=> /\ Len(received[Client]) + InPipe(Reply)' <= sends[Server]
                    /\ sends[Server] <= Len(received[Server])
                    /\ Len(received[Server]) + InPipe(Request)' <= sends[Client]
                    /\ sends[Client] <= Len(received[Client]) + 1
    BY <1>1 DEF InStep
  <2>5. /\ InPipe(Request)' \in Nat /\ InPipe(Request) \in Nat /\ InPipe(Request)' <= InPipe(Request)
        /\ InPipe(Reply)' \in Nat /\ InPipe(Reply) \in Nat /\ InPipe(Reply)' <= InPipe(Reply)
    BY <2>1 DEF Channels
  <2> QED
    BY <2>2, <2>3, <2>4, <2>5
<1>11. Numbered' /\ InOrderOnce'
  <2>1. \A f \in Channels : endpoints'[f].has_pending => endpoints'[f] = endpoints[f]
    BY <1>4, Parties DEF FreshEndpoint
  <2> QED
    BY <1>1, <2>1 DEF Numbered, InOrderOnce
<1>12. Accounted'
  <2>1. Taken' = Taken
    BY <1>1 DEF Taken
  <2>2. ASSUME NEW m \in Pending PROVE m \in Pending' \cup dropped'
    <3>1. PICK f \in Endpoints : endpoints[f].has_pending /\ m = endpoints[f].pending_msg
      BY DEF Pending
    <3>2. CASE f = e
      BY <1>1, <3>1, <3>2
    <3>3. CASE f # e
      BY <1>4, <3>1, <3>3 DEF Pending
    <3> QED
      BY <3>2, <3>3
  <2>3. dropped \subseteq dropped'
    BY <1>1
  <2>4. Kept \subseteq Kept'
    BY <2>1, <2>2, <2>3 DEF Kept
  <2> QED
    BY <1>1, <2>4 DEF Accounted
<1> QED
  BY <1>5, <1>6, <1>7, <1>8, <1>9, <1>10, <1>11, <1>12

(* ipc_endpoint_destroy: whoever waits there becomes an orphan. *)
LEMMA DestroyStep ==
    ASSUME OneEach, RpcInv, NEW t \in Tasks, NEW e \in Endpoints, Destroy(t, e)
    PROVE  RpcInv'
<1> USE DEF RpcInv
<1>1. /\ endpoints' = [endpoints EXCEPT ![e].active = FALSE]
      /\ orphans' = orphans \cup {u \in Tasks : state[u] = "BLOCKED" /\ waits[u] = e}
      /\ UNCHANGED <<state, cur, pc, waits, sends, received, returned, dropped>>
  BY DEF Destroy
<1>2. \A f \in Endpoints : /\ endpoints'[f].sender_task = endpoints[f].sender_task
                           /\ endpoints'[f].receiver_task = endpoints[f].receiver_task
                           /\ endpoints'[f].has_pending = endpoints[f].has_pending
                           /\ endpoints'[f].pending_msg = endpoints[f].pending_msg
                           /\ f # e => endpoints'[f] = endpoints[f]
  BY <1>1 DEF Typed, EndpointRecord
<1>3. Typed'
  <2>1. endpoints' \in [Endpoints -> EndpointRecord]
    BY <1>1, ZenonT(30) DEF Typed, EndpointRecord
  <2> QED
    BY <1>1, <2>1 DEF Typed
<1>4. InCall' /\ Roles'
  BY <1>1, <1>2, Parties DEF InCall, Roles
<1>5. OrphansKnown'
  BY <1>1, <1>2 DEF OrphansKnown, Typed
<1>6. NobodyForgotten'
  BY <1>1, <1>2 DEF NobodyForgotten, Typed
<1>7. InStep' /\ Numbered' /\ InOrderOnce'
  BY <1>1, <1>2, Parties, ZenonT(30) DEF InStep, InPipe, Numbered, InOrderOnce, Channels
<1>8. Kept' = Kept
  <2>1. Pending' = Pending
    BY <1>2 DEF Pending
  <2>2. Taken' = Taken
    BY <1>1 DEF Taken
  <2> QED
    BY <1>1, <2>1, <2>2 DEF Kept
<1>9. Accounted'
  BY <1>1, <1>8 DEF Accounted
<1> QED
  BY <1>3, <1>4, <1>5, <1>6, <1>7, <1>9

(* schedule() touches no endpoint and neither blocks nor wakes a task. *)
LEMMA ScheduleStep ==
    ASSUME OneEach, RpcInv, Schedule \/ UNCHANGED vars
    PROVE  RpcInv'
<1> USE DEF RpcInv
<1>1. UNCHANGED <<pc, waits, endpoints, sends, received, returned, dropped, orphans>>
  BY DEF Schedule, vars
<1>2. /\ state' \in [Tasks -> TaskStates] /\ cur' \in Tasks \cup {None}
      /\ \A t \in Tasks : state'[t] = "BLOCKED" <=> state[t] = "BLOCKED"
  <2>1. CASE Schedule
    <3>1. state' = Dispatch(state, cur) /\ cur' = NextReady(state, cur)
      BY <2>1 DEF Schedule
    <3>2. state \in [Tasks -> TaskStates] /\ cur \in Tasks \cup {None}
      BY DEF Typed
    <3> QED
      BY <3>1, <3>2, DispatchFacts
  <2>2. CASE UNCHANGED vars
    BY <2>2 DEF vars, Typed
  <2> QED
    BY <2>1, <2>2
<1>3. Typed' /\ InCall' /\ Roles' /\ OrphansKnown' /\ NobodyForgotten'
  BY <1>1, <1>2 DEF Typed, InCall, Roles, OrphansKnown, NobodyForgotten
<1>4. InStep' /\ Numbered' /\ InOrderOnce'
  BY <1>1 DEF InStep, InPipe, Numbered, InOrderOnce
<1>5. Kept' = Kept
  BY <1>1 DEF Kept, Taken, Pending
<1>6. Accounted'
  BY <1>1, <1>5 DEF Accounted
<1> QED
  BY <1>3, <1>4, <1>6

(* Every step of the client, the server, any other task that creates or      *)
(* destroys endpoints, and the scheduler keeps the invariant.                *)
LEMMA RpcStep ==
    ASSUME OneEach, RpcInv, [RpcNext]_vars
    PROVE  RpcInv'
<1> USE Parties DEF Channels
<1>1. CASE ClientCall(Client)
  <2>1. From(Request) = Client /\ To(Reply) = Client
    BY DEF From, To
  <2>2. CASE Served(Client)
    <3>1. MaySend(Request) /\ (SendToReceiver(Client, Request) \/ SendAndBlock(Client, Request))
      BY <1>1, <2>2 DEF ClientCall, Send, Served, MaySend
    <3> QED
      BY <2>1, <3>1, SendToReceiverStep, SendAndBlockStep
  <2>3. CASE ~Served(Client)
    <3>1. RecvPending(Client, Reply) \/ RecvAndBlock(Client, Reply)
      BY <1>1, <2>3 DEF ClientCall, Recv
    <3> QED
      BY <2>1, <3>1, RecvPendingStep, RecvAndBlockStep
  <2> QED
    BY <2>2, <2>3
<1>2. CASE ServerCall(Server)
  <2>1. From(Reply) = Server /\ To(Request) = Server
    BY DEF From, To
  <2>2. CASE Served(Server)
    <3>1. RecvPending(Server, Request) \/ RecvAndBlock(Server, Request)
      BY <1>2, <2>2 DEF ServerCall, Recv
    <3> QED
      BY <2>1, <3>1, RecvPendingStep, RecvAndBlockStep
  <2>3. CASE ~Served(Server)
    <3>1. MaySend(Reply) /\ (SendToReceiver(Server, Reply) \/ SendAndBlock(Server, Reply))
      BY <1>2, <2>3 DEF ServerCall, Send, Served, MaySend
    <3> QED
      BY <2>1, <3>1, SendToReceiverStep, SendAndBlockStep
  <2> QED
    BY <2>2, <2>3
<1>3. ASSUME NEW t \in Tasks, Manage(t) \/ Resume(t)
      PROVE  RpcInv'
  BY <1>3, CreateStep, DestroyStep, SendReturnsStep, RecvReturnsStep DEF Manage, Resume
<1>4. CASE Schedule \/ UNCHANGED vars
  BY <1>4, ScheduleStep
<1> QED
  BY <1>1, <1>2, <1>3, <1>4 DEF RpcNext
-----------------------------------------------------------------------------
(* The theorems.                                                             *)

(* A client and a server that call each other in turn keep the invariant,    *)
(* whatever endpoints other tasks create and destroy under them.             *)
THEOREM RpcInvariant ==
    ASSUME OneEach
    PROVE  RpcSpec => []RpcInv
<1>1. Init => RpcInv
  BY InitRpc
<1>2. RpcInv /\ [RpcNext]_vars => RpcInv'
  BY RpcStep
<1> QED
  BY <1>1, <1>2, PTL DEF RpcSpec

(* No request or answer whose ipc_send has returned 0 disappears unless its  *)
(* endpoint is destroyed and created anew, although an endpoint has room for *)
(* one message and ipc_send does not look whether there is one.              *)
THEOREM RpcNothingLost ==
    ASSUME OneEach
    PROVE  RpcSpec => []NothingLost
<1>1. RpcInv => NothingLost
  BY DEF RpcInv, Accounted, Kept, NothingLost
<1> QED
  BY <1>1, RpcInvariant, PTL

(* Requests and answers arrive in the order of the calls, and none twice. *)
THEOREM RpcInOrderOnce ==
    ASSUME OneEach
    PROVE  RpcSpec => []InOrderOnce
<1>1. RpcInv => InOrderOnce
  BY DEF RpcInv
<1> QED
  BY <1>1, RpcInvariant, PTL

(* Who is blocked in ipc_send or ipc_recv is recorded in its endpoint, as    *)
(* long as the endpoint has not been destroyed under it.                     *)
THEOREM RpcNobodyForgotten ==
    ASSUME OneEach
    PROVE  RpcSpec => []NobodyForgotten
<1>1. RpcInv => NobodyForgotten
  BY DEF RpcInv
<1> QED
  BY <1>1, RpcInvariant, PTL
=============================================================================
