-------------------------- MODULE KVServiceProofs --------------------------
(***************************************************************************)
(* Proofs about KVService, for any number of clients and replicas and any  *)
(* set of replicas that may stop.                                          *)
(***************************************************************************)
EXTENDS KVService, TLAPS

Phases  == {"dial", "put", "get", "disconnect", "done", "failed"}
Calls   == [at : Replicas, Clock : Nat,
            stage : {"idle", "sent", "waiting", "stable", "applied"}]
Updates == [at : Replicas, Clock : Nat, stage : {"idle", "sent"}]
Infos   == [Clock : Nat, Alive : BOOLEAN, LastReq : Nat]

\* TypeOK under these names.
Typed ==
  /\ clientinfomap \in [Replicas -> [Clients -> Infos]]
  /\ kvmap \in [Replicas -> Clients \cup {NoValue}] /\ up \in [Replicas -> BOOLEAN]
  /\ pc \in [Clients -> Phases] /\ Clock \in [Clients -> Nat]
  /\ call \in [Clients -> Calls] /\ num_errors \in [Clients -> 0 .. numReplicas]
  /\ upd \in [Clients -> Updates]
  /\ applied \in [Replicas -> Seq(Request)] /\ late \in [Replicas -> SUBSET Request]
  /\ got \in [Clients -> [from : Replicas \cup {0}, value : Clients \cup {NoValue}]]

Active(c) == call[c].stage # "idle"
Info(r, c) == clientinfomap[r][c]

\* A request of c that replica r has yet to see, and one that it handles.
ToCome(c, r) ==
  \/ Active(c) /\ call[c].at < r
  \/ call[c].at = r /\ call[c].stage = "sent"
Handled(c, r) ==
  call[c].at = r /\ call[c].stage \in {"waiting", "stable", "applied"}
Stable(c, r) == call[c].at = r /\ call[c].stage = "stable"

\* Calls, updates and counts of errors belong to the phase of their client.
CallInv ==
  \A c \in Clients :
    /\ Active(c) => Running(c) /\ call[c].Clock >= 1
    /\ call[c].stage \in {"waiting", "stable", "applied"} => pc[c] \in {"put", "get"}
    /\ upd[c].stage = "sent" => upd[c].Clock >= 1 /\ pc[c] # "dial"
    /\ num_errors[c] # 0 =>
         pc[c] = "put" /\ Active(c) /\ num_errors[c] < call[c].at

\* No replica knows a clock that its client has not had yet, and a clock that
\* goes beyond the request under way was brought by an update: no later update
\* can set it back behind that request.
ClockAt(c) ==
  /\ pc[c] = "dial" => \A r \in Replicas : Info(r, c).Clock = 0
  /\ Running(c) =>
       /\ \A r \in Replicas : Info(r, c).Clock <= Clock[c]
       /\ Active(c) => call[c].Clock <= Clock[c]
       /\ upd[c].stage = "sent" => upd[c].Clock <= Clock[c]
       /\ Active(c) /\ upd[c].stage = "sent" => \A r \in Replicas :
            Info(r, c).Clock > call[c].Clock => upd[c].Clock > call[c].Clock

ClockInv == \A c \in Clients : ClockAt(c)

\* What a replica remembers of the client whose request it handles, and that
\* it takes only those for gone who will ask no more.
SeenAt(r, c) ==
  up[r] =>
    /\ Handled(c, r) => InMap(r, c) /\ Info(r, c).LastReq = call[c].Clock
    /\ InMap(r, c) /\ ~ Info(r, c).Alive => pc[c] \in {"disconnect", "done", "failed"}

SeenInv == \A r \in Replicas, c \in Clients : SeenAt(r, c)

Types == Typed /\ CallInv /\ ClockInv /\ SeenInv

\* A replica that has stopped has forgotten everything.
DownInv == \A r \in Replicas : ~ up[r] => applied[r] = <<>>

\* Whatever client b may still ask of replica r goes after request q, or will be
\* known to be late when it comes.
Ahead(r, q, b) ==
  /\ pc[b] # "dial"
  /\ pc[b] \in {"put", "get"} =>
       /\ q.Clock <= Clock[b]
       /\ ToCome(b, r) => \/ q.Clock < call[b].Clock
                          \/ Info(r, b).Clock > call[b].Clock
       /\ Handled(b, r) /\ call[b].stage # "applied" =>
            Earlier(q, RequestOf(b)) \/ RequestOf(b) \in late[r]

\* That is so for all requests that were applied, and for those that were
\* found stable and are about to be.
AheadInv ==
  \A r \in Replicas, b \in Clients : up[r] =>
    /\ \A i \in 1 .. Len(applied[r]) : Ahead(r, applied[r][i], b)
    /\ \A a \in Clients \ {b} : Stable(a, r) => Ahead(r, RequestOf(a), b)

OrderInv == DownInv /\ AheadInv /\ OrderedUnlessLate

\* A log holds a Put of c; the last Put in it is of v, if there is one; a Get of
\* c that found v came after every Put of c.
IsPut(q, c) == q.op = "put" /\ q.Clientid = c
PutIn(log, c) == \E i \in 1 .. Len(log) : IsPut(log[i], c)
LastPut(log, v) ==
  \/ \A i \in 1 .. Len(log) : log[i].op # "put"
  \/ \E i \in 1 .. Len(log) :
       IsPut(log[i], v) /\ \A j \in 1 .. Len(log) : log[j].op = "put" => j <= i
Reads(log, c, v) ==
  /\ PutIn(log, c)
  /\ \E i \in 1 .. Len(log) :
       IsPut(log[i], v) /\ \A j \in 1 .. Len(log) : IsPut(log[j], c) => j <= i

\* A Put that has gone past a replica that is up was applied there, so all of
\* them have it when the client gets; a client that got puts no more.
PutAt(r, c) ==
  \/ pc[c] = "get"
  \/ /\ pc[c] = "put" /\ Active(c)
     /\ r < call[c].at \/ (r = call[c].at /\ call[c].stage = "applied")

WriteInv ==
  /\ \A r \in Replicas : up[r] =>
       /\ LastPut(applied[r], kvmap[r])
       /\ \A c \in Clients : PutAt(r, c) => PutIn(applied[r], c)
  /\ \A c \in Clients : got[c].from # 0 =>
       /\ pc[c] \notin {"dial", "put"}
       /\ up[got[c].from] => Reads(applied[got[c].from], c, got[c].value)

-----------------------------------------------------------------------------
\* The replicas are numbered from 1.
LEMMA ReplicaFacts ==
  /\ numReplicas \in Nat /\ numReplicas >= 1 /\ Replicas = 1 .. numReplicas
  /\ 1 \in Replicas /\ \A r \in Replicas : r \in Nat /\ r >= 1 /\ r <= numReplicas
BY KVAssumption DEF Replicas

\* An entry that is replaced.
LEMMA InfoReplaced ==
  ASSUME NEW f \in [Replicas -> [Clients -> Infos]], NEW r \in Replicas,
         NEW c \in Clients, NEW info \in Infos
  PROVE  [f EXCEPT ![r][c] = info] \in [Replicas -> [Clients -> Infos]]
<1>1. [f[r] EXCEPT ![c] = info] \in [Clients -> Infos]
  OBVIOUS
<1> QED BY <1>1

\* What updateAddClientClock, addClientRequestInfo and deleteClientRequestInfo
\* make of an entry.
LEMMA InfoFacts ==
  ASSUME NEW info \in Infos, NEW k \in Nat
  PROVE  /\ updateAddClientClock(info, k) \in Infos
         /\ updateAddClientClock(info, k).Clock = k
         /\ info.Clock # 0 =>
              /\ updateAddClientClock(info, k).LastReq = info.LastReq
              /\ updateAddClientClock(info, k).Alive = info.Alive
         /\ info.Clock = 0 => updateAddClientClock(info, k).Alive = TRUE
         /\ addClientRequestInfo(info, k) \in Infos
         /\ addClientRequestInfo(info, k).Clock = info.Clock
         /\ addClientRequestInfo(info, k).Alive = info.Alive
         /\ addClientRequestInfo(info, k).LastReq = k
         /\ deleteClientRequestInfo(info) \in Infos
         /\ deleteClientRequestInfo(info).Clock = info.Clock
         /\ deleteClientRequestInfo(info).Alive = info.Alive
<1>1. /\ updateAddClientClock(info, k) \in Infos
      /\ updateAddClientClock(info, k).Clock = k
      /\ info.Clock # 0 =>
              /\ updateAddClientClock(info, k).LastReq = info.LastReq
              /\ updateAddClientClock(info, k).Alive = info.Alive
      /\ info.Clock = 0 => updateAddClientClock(info, k).Alive = TRUE
  <2>1. CASE info.Clock = 0
    BY <2>1 DEF updateAddClientClock, Infos
  <2>2. CASE info.Clock # 0
    BY <2>2 DEF updateAddClientClock, Infos
  <2> QED BY <2>1, <2>2
<1>2. /\ addClientRequestInfo(info, k) \in Infos
      /\ addClientRequestInfo(info, k).Clock = info.Clock
      /\ addClientRequestInfo(info, k).Alive = info.Alive
      /\ addClientRequestInfo(info, k).LastReq = k
  BY DEF addClientRequestInfo, Infos
<1>3. /\ deleteClientRequestInfo(info) \in Infos
      /\ deleteClientRequestInfo(info).Clock = info.Clock
      /\ deleteClientRequestInfo(info).Alive = info.Alive
  BY DEF deleteClientRequestInfo, Infos
<1> QED BY <1>1, <1>2, <1>3

-----------------------------------------------------------------------------
\* Returning from an RPC either goes on to the next replica with the same
\* clock, or ends the call; nothing of another client changes.
GoesOn(c) ==
  /\ call[c].at < numReplicas
  /\ call' = [call EXCEPT ![c] = [at |-> call[c].at + 1, Clock |-> call[c].Clock,
                                  stage |-> "sent"]]
  /\ UNCHANGED <<pc, Clock, upd>>

Ends(c) ==
  /\ call' = [call EXCEPT ![c] = NoCall]
  /\ \E next \in {"get", "disconnect", "done", "failed"} :
       /\ pc' = [pc EXCEPT ![c] = next]
       /\ next = "get" => pc[c] = "put" /\ call[c].at = numReplicas
       /\ IF next \in {"done", "failed"}
          THEN Clock' = [Clock EXCEPT ![c] = 0] /\ upd' \in {upd, [upd EXCEPT ![c] = NoUpd]}
          ELSE UNCHANGED <<Clock, upd>>

LEMMA ReturnEffect ==
  ASSUME Typed, NEW c \in Clients, NEW ok \in BOOLEAN, Return(c, ok),
         pc[c] \in {"put", "get", "disconnect"}
  PROVE  /\ GoesOn(c) \/ Ends(c)
         /\ \/ pc[c] # "put" /\ UNCHANGED num_errors
            \/ pc[c] = "put" /\ num_errors' = [num_errors EXCEPT ![c] = 0]
            \/ /\ pc[c] = "put" /\ GoesOn(c)
               /\ \E errs \in {num_errors[c], num_errors[c] + 1} :
                    num_errors' = [num_errors EXCEPT ![c] = errs]
<1>0. /\ call[c].at \in 1 .. numReplicas /\ numReplicas \in Nat /\ num_errors[c] \in Nat
      /\ call[c] \in Calls
      /\ call \in [Clients -> Calls]
  BY ReplicaFacts DEF Typed, Calls
<1>1. ASSUME NextReplica(c), call[c].at # numReplicas PROVE GoesOn(c)
  <2>1. call'[c] = [at |-> call[c].at + 1, Clock |-> call[c].Clock, stage |-> "sent"]
    BY <1>0, <1>1 DEF NextReplica, Calls
  <2>2. call' = [call EXCEPT ![c] = call'[c]]
    BY <1>0, <1>1 DEF NextReplica
  <2>3. call[c].at < numReplicas
    BY <1>0, <1>1
  <2>4. UNCHANGED <<pc, Clock, upd>>
    BY <1>1 DEF NextReplica
  <2>5. call' = [call EXCEPT ![c] = [at |-> call[c].at + 1, Clock |-> call[c].Clock,
                                     stage |-> "sent"]]
    BY <2>1, <2>2
  <2> QED BY <2>3, <2>4, <2>5 DEF GoesOn
<1>2. ASSUME NEW next \in {"get", "disconnect", "done", "failed"}, EndCall(c, next),
             next = "get" => pc[c] = "put" /\ call[c].at = numReplicas
      PROVE  Ends(c)
  BY <1>2 DEF EndCall, Ends
<1>3. CASE pc[c] = "put"
  <2>1. PICK errs \in {num_errors[c], num_errors[c] + 1} :
          /\ num_errors' = [num_errors EXCEPT
                              ![c] = IF call[c].at = numReplicas THEN 0 ELSE errs]
          /\ IF call[c].at = numReplicas
             THEN EndCall(c, IF errs = numReplicas THEN "failed" ELSE AfterPut(c))
             ELSE NextReplica(c)
    BY <1>0, <1>3 DEF Return
  <2> QED BY <1>1, <1>2, <1>3, <2>1 DEF AfterPut
<1>4. CASE pc[c] = "get"
  <2>1. /\ \/ EndCall(c, "disconnect") \/ EndCall(c, "failed")
           \/ call[c].at # numReplicas /\ NextReplica(c)
        /\ UNCHANGED num_errors
    BY <1>4 DEF Return
  <2>2. GoesOn(c) \/ Ends(c)
    BY <1>1, <1>2, <2>1
  <2> QED BY <1>4, <2>1, <2>2
<1>5. CASE pc[c] = "disconnect"
  <2>1. /\ \/ EndCall(c, "done") \/ EndCall(c, "failed")
           \/ call[c].at # numReplicas /\ NextReplica(c)
        /\ UNCHANGED num_errors
    BY <1>5 DEF Return
  <2>2. GoesOn(c) \/ Ends(c)
    BY <1>1, <1>2, <2>1
  <2> QED BY <1>5, <2>1, <2>2
<1> QED BY <1>3, <1>4, <1>5

\* A call that returns keeps the types.
LEMMA ReturnTyping ==
  ASSUME Typed, CallInv, NEW c \in Clients, NEW ok \in BOOLEAN, Return(c, ok),
         Active(c)
  PROVE  /\ pc' \in [Clients -> Phases]
         /\ Clock' \in [Clients -> Nat]
         /\ call' \in [Clients -> Calls]
         /\ num_errors' \in [Clients -> 0 .. numReplicas]
         /\ upd' \in [Clients -> Updates]
         /\ CallInv'
<1>0. pc[c] \in {"put", "get", "disconnect"}
  BY DEF CallInv, Running
<1>1. /\ GoesOn(c) \/ Ends(c)
      /\ \/ pc[c] # "put" /\ UNCHANGED num_errors
         \/ pc[c] = "put" /\ num_errors' = [num_errors EXCEPT ![c] = 0]
         \/ /\ pc[c] = "put" /\ GoesOn(c)
            /\ \E errs \in {num_errors[c], num_errors[c] + 1} :
                 num_errors' = [num_errors EXCEPT ![c] = errs]
  BY <1>0, ReturnEffect
<1>2. /\ numReplicas \in Nat /\ numReplicas >= 1 /\ Replicas = 1 .. numReplicas
      /\ call[c].at \in 1 .. numReplicas /\ call[c].Clock \in Nat
      /\ num_errors[c] \in 0 .. numReplicas /\ num_errors[c] < call[c].at
  <2>1. /\ call[c] \in Calls /\ num_errors[c] \in 0 .. numReplicas
        /\ numReplicas \in Nat /\ numReplicas >= 1 /\ Replicas = 1 .. numReplicas
    BY ReplicaFacts DEF Typed, Calls
  <2>2. num_errors[c] # 0 => num_errors[c] < call[c].at
    BY DEF CallInv
  <2> QED BY <2>1, <2>2 DEF Calls
<1>3. /\ NoCall \in Calls
      /\ NoUpd \in Updates
  BY <1>2 DEF NoCall, NoUpd, Calls, Updates
<1>4. /\ num_errors' \in [Clients -> 0 .. numReplicas]
      /\ \A d \in Clients : d # c => num_errors'[d] = num_errors[d]
      /\ num_errors'[c] # 0 =>
           pc[c] = "put" /\ GoesOn(c) /\ num_errors'[c] <= call[c].at
  <2>1. CASE UNCHANGED num_errors /\ pc[c] # "put"
    BY <2>1 DEF Typed, CallInv
  <2>2. CASE num_errors' = [num_errors EXCEPT ![c] = 0]
    BY <1>2, <2>2 DEF Typed
  <2>3. CASE /\ pc[c] = "put" /\ GoesOn(c)
             /\ \E errs \in {num_errors[c], num_errors[c] + 1} :
                  num_errors' = [num_errors EXCEPT ![c] = errs]
    <3>1. call[c].at < numReplicas
      BY <2>3 DEF GoesOn
    <3>2. PICK errs \in {num_errors[c], num_errors[c] + 1} :
            num_errors' = [num_errors EXCEPT ![c] = errs]
      BY <2>3
    <3>3. errs \in 0 .. numReplicas /\ errs <= call[c].at
      BY <1>2, <3>1
    <3>4. num_errors \in [Clients -> 0 .. numReplicas]
      BY DEF Typed
    <3> QED BY <2>3, <3>2, <3>3, <3>4
  <2> QED BY <1>1, <2>1, <2>2, <2>3
<1>5. CASE GoesOn(c)
  <2>1. call'[c] = [at |-> call[c].at + 1, Clock |-> call[c].Clock, stage |-> "sent"]
    BY <1>5 DEF GoesOn, Typed
  <2>2. /\ call' = [call EXCEPT ![c] = call'[c]]
        /\ UNCHANGED <<pc, Clock, upd>> /\ call[c].at < numReplicas
    BY <1>5, <2>1 DEF GoesOn
  <2>3. call'[c] \in Calls
    BY <1>2, <2>1, <2>2 DEF Calls
  <2>4. \A d \in Clients : d # c => call'[d] = call[d]
    BY <2>2 DEF Typed
  <2>5. call' \in [Clients -> Calls]
    BY <2>2, <2>3 DEF Typed
  <2>6. CallInv'
    BY <1>0, <1>2, <1>4, <2>1, <2>2, <2>4 DEF CallInv, Active, Running
  <2> QED BY <1>4, <2>2, <2>5, <2>6 DEF Typed
<1>6. CASE Ends(c)
  <2>1. PICK next \in {"get", "disconnect", "done", "failed"} :
          /\ pc' = [pc EXCEPT ![c] = next]
          /\ \/ UNCHANGED <<Clock, upd>>
             \/ /\ Clock' = [Clock EXCEPT ![c] = 0]
                /\ upd' \in {upd, [upd EXCEPT ![c] = NoUpd]}
    BY <1>6 DEF Ends
  <2>2. call' = [call EXCEPT ![c] = NoCall] /\ call'[c] = NoCall
    BY <1>6 DEF Ends, Typed
  <2>3. /\ call' \in [Clients -> Calls]
        /\ pc' \in [Clients -> Phases]
        /\ Clock' \in [Clients -> Nat]
        /\ upd' \in [Clients -> Updates]
    <3>1. call \in [Clients -> Calls] /\ pc \in [Clients -> Phases]
          /\ Clock \in [Clients -> Nat] /\ upd \in [Clients -> Updates]
      BY DEF Typed
    <3>2. next \in Phases
      BY DEF Phases
    <3> QED BY <1>3, <2>1, <2>2, <3>1, <3>2
  <2>4. /\ \A d \in Clients : d # c => call'[d] = call[d] /\ pc'[d] = pc[d]
        /\ \A d \in Clients : upd'[d] = upd[d] \/ upd'[d] = NoUpd
        /\ pc'[c] = next /\ call'[c].stage = "idle"
    BY <2>1, <2>2 DEF Typed, NoCall
  <2>5. num_errors'[c] = 0
    <3>1. ~ (GoesOn(c) /\ Ends(c))
      BY <2>2 DEF GoesOn, NoCall, Typed
    <3> QED BY <1>4, <1>6, <3>1
  <2>6. CallInv'
    BY <1>4, <2>4, <2>5 DEF CallInv, Active, Running, NoUpd
  <2> QED BY <1>4, <2>3, <2>6
<1> QED BY <1>1, <1>5, <1>6

\* A tick of the clockUpdate goroutine never sets the clock back.
LEMMA NextTickFacts ==
  ASSUME Typed, CallInv, NEW c \in Clients, UpdTick(c)
  PROVE  \E k \in Nat :
           /\ k >= 1 /\ k >= Clock[c]
           /\ Clock' = [Clock EXCEPT ![c] = k]
           /\ upd' = [upd EXCEPT ![c] = [at |-> 1, Clock |-> k, stage |-> "sent"]]
<1> DEFINE k == IF Clock[c] < NextTick(c) THEN NextTick(c) ELSE Clock[c]
<1>1. Clock[c] \in Nat /\ NextTick(c) \in Nat
  <2>1. Clock[c] \in Nat /\ MaxClock \in Nat
    BY KVAssumption DEF Typed, MaxClock
  <2> QED BY <2>1 DEF NextTick
<1>2. k \in Nat /\ k >= Clock[c]
  BY <1>1
<1>3. k >= 1
  <2>1. CASE Clock[c] < NextTick(c)
    BY <1>1, <2>1
  <2>2. CASE ~ (Clock[c] < NextTick(c))
    <3>1. PICK r \in Replicas : clientinfomap[r][c].Clock < Clock[c]
      BY <2>2 DEF UpdTick, Behind
    <3>2. clientinfomap[r][c].Clock \in Nat
      BY DEF Typed, Infos
    <3> QED BY <1>1, <1>2, <3>1, <3>2
  <2> QED BY <2>1, <2>2
<1>4. /\ Clock' = [Clock EXCEPT ![c] = k]
      /\ upd' = [upd EXCEPT ![c] = [at |-> 1, Clock |-> k, stage |-> "sent"]]
  BY DEF UpdTick
<1> HIDE DEF k
<1> QED BY <1>2, <1>3, <1>4

-----------------------------------------------------------------------------
\* Every step keeps the types.
LEMMA TypeStep ==
  ASSUME Typed, CallInv, [Next]_vars
  PROVE  Typed' /\ CallInv'
<1>0. /\ numReplicas \in Nat /\ numReplicas >= 1 /\ Replicas = 1 .. numReplicas
      /\ numClients \in Nat
      /\ clientinfomap \in [Replicas -> [Clients -> Infos]]
      /\ call \in [Clients -> Calls] /\ pc \in [Clients -> Phases]
      /\ Clock \in [Clients -> Nat] /\ upd \in [Clients -> Updates]
  BY ReplicaFacts, KVAssumption DEF Typed
<1>1. ASSUME NEW c \in Clients, NEW r \in Replicas, Register(c, r)
      PROVE  Typed' /\ CallInv'
  <2>1. call' = [call EXCEPT ![c].stage = "waiting"]
    BY <1>1 DEF Register, Proceed
  <2>2. call' \in [Clients -> Calls]
    BY <1>0, <2>1 DEF Calls
  <2>3. RequestOf(c) \in Request
    BY <1>0, <1>1 DEF RequestOf, Request, Register, Serving, Calls
  <2>4. /\ clientinfomap' = [clientinfomap EXCEPT ![r][c] =
             addClientRequestInfo(updateAddClientClock(@, call[c].Clock), call[c].Clock)]
        /\ late' \in {late, [late EXCEPT ![r] = @ \cup {RequestOf(c)}]}
    BY <1>1 DEF Register
  <2>9. call[c].Clock \in Nat /\ clientinfomap[r][c] \in Infos
    BY <1>0 DEF Calls
  <2>5. addClientRequestInfo(updateAddClientClock(clientinfomap[r][c], call[c].Clock),
                             call[c].Clock)
          \in Infos
    BY <1>0, <2>9, InfoFacts
  <2>6. clientinfomap' \in [Replicas -> [Clients -> Infos]]
    BY <1>0, <2>4, <2>5
  <2>7. late' \in [Replicas -> SUBSET Request]
    <3>1. late \in [Replicas -> SUBSET Request]
      BY DEF Typed
    <3> QED BY <2>3, <2>4, <3>1
  <2>8. CallInv'
    BY <1>0, <1>1, <2>1 DEF CallInv, Active, Running, Register, Serving, Calls
  <2> QED BY <1>1, <2>2, <2>6, <2>7, <2>8 DEF Register, Typed
<1>2. ASSUME NEW c \in Clients, NEW r \in Replicas, returnWhenStable(c, r)
      PROVE  Typed' /\ CallInv'
  <2>1. call' = [call EXCEPT ![c].stage = "stable"]
    BY <1>2 DEF returnWhenStable, Proceed
  <2>2. call' \in [Clients -> Calls]
    BY <1>0, <2>1 DEF Calls
  <2>3. CallInv'
    BY <1>0, <1>2, <2>1 DEF CallInv, Active, Running, returnWhenStable, Serving, Calls
  <2> QED BY <1>2, <2>2, <2>3
       DEF returnWhenStable, Typed, server, history
<1>3. ASSUME NEW c \in Clients, NEW r \in Replicas, ApplyPut(c, r)
      PROVE  Typed' /\ CallInv'
  <2>1. call' = [call EXCEPT ![c].stage = "applied"]
    BY <1>3 DEF ApplyPut, Proceed
  <2>2. call' \in [Clients -> Calls]
    BY <1>0, <2>1 DEF Calls
  <2>3. RequestOf(c) \in Request
    BY <1>0, <1>3 DEF RequestOf, Request, ApplyPut, Serving, Calls
  <2>4. /\ applied' \in [Replicas -> Seq(Request)]
        /\ kvmap' \in [Replicas -> Clients \cup {NoValue}]
    BY <1>3, <2>3 DEF ApplyPut, Typed
  <2>5. CallInv'
    BY <1>0, <1>3, <2>1 DEF CallInv, Active, Running, ApplyPut, Serving, Calls
  <2> QED BY <1>3, <2>2, <2>4, <2>5 DEF ApplyPut, Typed
<1>4. ASSUME NEW c \in Clients, NEW r \in Replicas, ApplyGet(c, r)
      PROVE  Typed' /\ CallInv'
  <2>1. call' = [call EXCEPT ![c].stage = "applied"]
    BY <1>4 DEF ApplyGet, Proceed
  <2>2. call' \in [Clients -> Calls]
    BY <1>0, <2>1 DEF Calls
  <2>3. RequestOf(c) \in Request
    BY <1>0, <1>4 DEF RequestOf, Request, ApplyGet, Serving, Calls
  <2>4. /\ applied' \in [Replicas -> Seq(Request)]
        /\ got' \in [Clients -> [from : Replicas \cup {0}, value : Clients \cup {NoValue}]]
    BY <1>4, <2>3 DEF ApplyGet, Typed
  <2>5. CallInv'
    BY <1>0, <1>4, <2>1 DEF CallInv, Active, Running, ApplyGet, Serving, Calls
  <2> QED BY <1>4, <2>2, <2>4, <2>5 DEF ApplyGet, Typed, server
<1>5. ASSUME NEW c \in Clients, NEW r \in Replicas, Answer(c, r)
      PROVE  Typed' /\ CallInv'
  <2>1. Active(c) /\ Return(c, TRUE)
    BY <1>5 DEF Answer, Serving, Active
  <2>2. clientinfomap' \in [Replicas -> [Clients -> Infos]]
    <3>1. deleteClientRequestInfo(clientinfomap[r][c]) \in Infos
      <4>1. clientinfomap[r][c] \in Infos
        BY <1>0
      <4> QED BY <4>1 DEF Infos, deleteClientRequestInfo
    <3> QED BY <1>0, <1>5, <3>1, InfoReplaced DEF Answer
  <2> QED BY <1>5, <2>1, <2>2, ReturnTyping
       DEF Answer, Typed, history
<1>6. ASSUME NEW c \in Clients, NEW r \in Replicas, DisconnectAt(c, r)
      PROVE  Typed' /\ CallInv'
  <2>1. Active(c) /\ Return(c, TRUE)
    BY <1>6 DEF DisconnectAt, Serving, Active
  <2>2. clientinfomap' \in [Replicas -> [Clients -> Infos]]
    <3>1. [clientinfomap[r][c] EXCEPT !.Alive = FALSE] \in Infos
      <4>1. clientinfomap[r][c] \in Infos
        BY <1>0
      <4> QED BY <4>1 DEF Infos
    <3>2. \/ clientinfomap' = clientinfomap
          \/ clientinfomap' = [clientinfomap EXCEPT ![r][c] =
                                 [clientinfomap[r][c] EXCEPT !.Alive = FALSE]]
      BY <1>0, <1>6 DEF DisconnectAt
    <3>3. [clientinfomap EXCEPT ![r][c] = [clientinfomap[r][c] EXCEPT !.Alive = FALSE]]
            \in [Replicas -> [Clients -> Infos]]
      BY <1>0, <3>1, InfoReplaced
    <3> QED BY <1>0, <3>2, <3>3
  <2> QED BY <1>6, <2>1, <2>2, ReturnTyping
       DEF DisconnectAt, Typed, history
<1>7. ASSUME NEW c \in Clients, CallFails(c) PROVE Typed' /\ CallInv'
  <2>1. Active(c) /\ Return(c, FALSE)
    BY <1>7 DEF CallFails, Active
  <2> QED BY <1>7, <2>1, ReturnTyping
       DEF CallFails, Typed, server, history
<1>8. ASSUME NEW c \in Clients, Dial(c) PROVE Typed' /\ CallInv'
  BY <1>0, <1>8 DEF Dial, Typed, CallInv, Active, Running, server, history, Phases
<1>9. ASSUME NEW c \in Clients, Issue(c) PROVE Typed' /\ CallInv'
  <2>1. call' = [call EXCEPT ![c] = [at |-> 1, Clock |-> Clock[c] + 1, stage |-> "sent"]]
    BY <1>9 DEF Issue
  <2>2. call' \in [Clients -> Calls] /\ Clock' \in [Clients -> Nat]
    BY <1>0, <1>9, <2>1 DEF Calls, Issue
  <2>3. \/ UNCHANGED upd
        \/ upd[c].stage = "sent" /\ upd' = [upd EXCEPT ![c].Clock = Clock[c] + 1]
    BY <1>9 DEF Issue
  <2>4. upd' \in [Clients -> Updates]
    <3>1. [upd[c] EXCEPT !.Clock = Clock[c] + 1] \in Updates
      <4>1. upd[c] \in Updates /\ Clock[c] + 1 \in Nat
        BY <1>0
      <4> QED BY <4>1 DEF Updates
    <3> QED BY <1>0, <2>3, <3>1
  <2>5. /\ \A d \in Clients : d # c => call'[d] = call[d] /\ upd'[d] = upd[d]
        /\ call'[c].stage = "sent" /\ call'[c].Clock >= 1
        /\ upd'[c].stage = upd[c].stage
        /\ upd'[c].Clock = upd[c].Clock \/ upd'[c].Clock >= 1
    BY <1>0, <2>1, <2>3 DEF Calls, Updates
  <2>6. /\ ~ Active(c) /\ pc[c] \in {"put", "get", "disconnect"}
        /\ UNCHANGED <<pc, num_errors>>
    BY <1>9 DEF Issue, Active
  <2>7. CallInv'
    BY <2>5, <2>6 DEF CallInv, Active, Running
  <2> QED BY <1>9, <2>2, <2>4, <2>7
       DEF Issue, Typed, server, history
<1>10. ASSUME NEW c \in Clients, UpdTick(c) PROVE Typed' /\ CallInv'
  <2>1. PICK k \in Nat :
          /\ k >= 1 /\ Clock' = [Clock EXCEPT ![c] = k]
          /\ upd' = [upd EXCEPT ![c] = [at |-> 1, Clock |-> k, stage |-> "sent"]]
    BY <1>0, <1>10, NextTickFacts
  <2>2. upd' \in [Clients -> Updates] /\ Clock' \in [Clients -> Nat]
    BY <1>0, <2>1 DEF Updates
  <2>3. CallInv'
    BY <1>0, <1>10, <2>1 DEF UpdTick, CallInv, Active, Running
  <2> QED BY <1>10, <2>2, <2>3 DEF UpdTick, Typed, server, history
<1>11. ASSUME NEW c \in Clients, ClockUpdate(c) PROVE Typed' /\ CallInv'
  <2>1. /\ upd[c] \in Updates
        /\ upd' = [upd EXCEPT ![c] = IF upd[c].at = numReplicas \/ ~ Running(c) THEN NoUpd
                                     ELSE [upd[c] EXCEPT !.at = upd[c].at + 1]]
        /\ upd[c].stage = "sent"
    BY <1>0, <1>11 DEF ClockUpdate
  <2>2. /\ upd'[c] \in Updates
        /\ upd'[c].stage = "sent" => upd'[c].Clock = upd[c].Clock /\ upd[c].stage = "sent"
    <3>1. CASE upd[c].at = numReplicas \/ ~ Running(c)
      BY <1>0, <2>1, <3>1 DEF Updates, NoUpd
    <3>2. CASE ~ (upd[c].at = numReplicas \/ ~ Running(c))
      <4>1. upd'[c] = [upd[c] EXCEPT !.at = upd[c].at + 1]
        BY <1>0, <2>1, <3>2
      <4>2. upd[c].at + 1 \in Replicas
        BY <1>0, <2>1, <3>2 DEF Updates
      <4> QED BY <2>1, <4>1, <4>2 DEF Updates
    <3> QED BY <3>1, <3>2
  <2>3. upd' \in [Clients -> Updates] /\ \A d \in Clients \ {c} : upd'[d] = upd[d]
    BY <1>0, <2>1, <2>2
  <2>4. updateAddClientClock(clientinfomap[upd[c].at][c], upd[c].Clock)
          \in Infos
    <3>1. clientinfomap[upd[c].at][c] \in Infos /\ upd[c].Clock \in Nat
      BY <1>0, <2>1 DEF Updates
    <3> QED BY <3>1, InfoFacts
  <2>5. clientinfomap' \in [Replicas -> [Clients -> Infos]]
    BY <1>0, <1>11, <2>4 DEF ClockUpdate
  <2>6. CallInv'
    BY <1>11, <2>2, <2>3 DEF ClockUpdate, CallInv, Active, Running
  <2> QED BY <1>11, <2>3, <2>5, <2>6 DEF ClockUpdate, Typed, history
<1>12. ASSUME NEW r \in Replicas, Crash(r) PROVE Typed' /\ CallInv'
  <2>1. NoInfo \in Infos
      BY DEF NoInfo, Infos
  <2>2. Typed'
    <3>1. [c \in Clients |-> NoInfo] \in [Clients -> Infos]
      BY <2>1
    <3>2. clientinfomap' \in [Replicas -> [Clients -> Infos]]
      BY <1>12, <3>1 DEF Crash, Typed
    <3>3. applied' \in [Replicas -> Seq(Request)] /\ late' \in [Replicas -> SUBSET Request]
      BY <1>12 DEF Crash, Typed
    <3> QED BY <1>12, <3>2, <3>3 DEF Crash, Typed, client
  <2> QED BY <1>12, <2>2 DEF Crash, client, CallInv, Active, Running
<1>13. CASE UNCHANGED vars
  BY <1>13 DEF vars, server, client, history, Typed, CallInv, Active, Running
<1> QED BY <1>1, <1>2, <1>3, <1>4, <1>5, <1>6, <1>7, <1>8, <1>9, <1>10, <1>11, <1>12,
           <1>13 DEF Next, Serve, Main, Updater

-----------------------------------------------------------------------------
\* A step of one client leaves the others alone, and no replica comes back.
Others(c) ==
  /\ \A d \in Clients \ {c} :
       /\ pc'[d] = pc[d] /\ Clock'[d] = Clock[d]
       /\ call'[d] = call[d] /\ upd'[d] = upd[d]
       /\ \A r \in Replicas : clientinfomap'[r][d] = clientinfomap[r][d]
  /\ up' = up

LEMMA OthersKept ==
  ASSUME Typed, CallInv, NEW c \in Clients, Serve(c) \/ Main(c) \/ Updater(c)
  PROVE  Others(c)
<1>0. /\ clientinfomap \in [Replicas -> [Clients -> Infos]]
      /\ call \in [Clients -> Calls] /\ pc \in [Clients -> Phases]
      /\ Clock \in [Clients -> Nat] /\ upd \in [Clients -> Updates]
      /\ Replicas = 1 .. numReplicas
  BY ReplicaFacts, KVAssumption DEF Typed
<1>1. ASSUME NEW ok \in BOOLEAN, Active(c), Return(c, ok)
      PROVE  \A d \in Clients \ {c} : /\ pc'[d] = pc[d] /\ Clock'[d] = Clock[d]
                                      /\ call'[d] = call[d] /\ upd'[d] = upd[d]
  <2>1. GoesOn(c) \/ Ends(c)
    BY <1>1, ReturnEffect DEF CallInv, Running
  <2>2. CASE GoesOn(c)
    BY <1>0, <2>2 DEF GoesOn
  <2>3. CASE Ends(c)
    BY <1>0, <2>3 DEF Ends
  <2> QED BY <2>1, <2>2, <2>3
<1>2. ASSUME NEW r \in Replicas, Register(c, r) PROVE Others(c)
  BY <1>0, <1>2 DEF Register, Proceed, Others
<1>3. ASSUME NEW r \in Replicas, returnWhenStable(c, r) \/ ApplyGet(c, r) PROVE Others(c)
  BY <1>0, <1>3 DEF returnWhenStable, ApplyGet, Proceed, Others, server
<1>4. ASSUME NEW r \in Replicas, ApplyPut(c, r) PROVE Others(c)
  BY <1>0, <1>4 DEF ApplyPut, Proceed, Others
<1>5. ASSUME NEW r \in Replicas, Answer(c, r) PROVE Others(c)
  BY <1>0, <1>1, <1>5 DEF Answer, Serving, Active, Others
<1>6. ASSUME NEW r \in Replicas, DisconnectAt(c, r) PROVE Others(c)
  BY <1>0, <1>1, <1>6 DEF DisconnectAt, Serving, Active, Others
<1>7. ASSUME CallFails(c) PROVE Others(c)
  BY <1>1, <1>7 DEF CallFails, Active, Others, server
<1>8. ASSUME Dial(c) PROVE Others(c)
  BY <1>0, <1>8 DEF Dial, Others, server
<1>9. ASSUME Issue(c) PROVE Others(c)
  BY <1>0, <1>9 DEF Issue, Others, server
<1>10. ASSUME UpdTick(c) PROVE Others(c)
  BY <1>0, <1>10 DEF UpdTick, Others, server
<1>11. ASSUME ClockUpdate(c) PROVE Others(c)
  BY <1>0, <1>11 DEF ClockUpdate, Others, Updates
<1> QED BY <1>2, <1>3, <1>4, <1>5, <1>6, <1>7, <1>8, <1>9, <1>10, <1>11
        DEF Serve, Main, Updater

\* What a handled update does to the entry of its client and to the update.
LEMMA UpdateEffect ==
  ASSUME Typed, CallInv, NEW c \in Clients, ClockUpdate(c)
  PROVE  /\ upd[c].at \in Replicas /\ upd[c].Clock \in Nat /\ upd[c].Clock >= 1
         /\ upd[c].stage = "sent" /\ pc[c] # "dial"
         /\ UNCHANGED <<pc, Clock, call, up>>
         /\ upd'[c].stage = "sent" => upd'[c].Clock = upd[c].Clock
         /\ \A r \in Replicas :
              \/ Info(r, c)' = Info(r, c)
              \/ /\ Info(r, c)'.Clock = upd[c].Clock
                 /\ Info(r, c).Clock # 0 => /\ Info(r, c)'.LastReq = Info(r, c).LastReq
                                            /\ Info(r, c)'.Alive = Info(r, c).Alive
                 /\ Info(r, c).Clock = 0 => Info(r, c)'.Alive = TRUE
<1>0. /\ clientinfomap \in [Replicas -> [Clients -> Infos]]
      /\ upd \in [Clients -> Updates] /\ upd[c] \in Updates
      /\ Replicas = 1 .. numReplicas
  BY ReplicaFacts, KVAssumption DEF Typed
<1>1. /\ upd[c].stage = "sent" /\ upd[c].Clock >= 1 /\ pc[c] # "dial"
      /\ UNCHANGED <<pc, Clock, call, up>>
  BY DEF ClockUpdate, CallInv
<1>2. upd[c].at \in Replicas /\ upd[c].Clock \in Nat
  BY <1>0 DEF Updates
<1>3. upd'[c].stage = "sent" => upd'[c].Clock = upd[c].Clock
  <2>1. upd'[c] = IF upd[c].at = numReplicas \/ ~ Running(c) THEN NoUpd
                  ELSE [upd[c] EXCEPT !.at = upd[c].at + 1]
    BY <1>0 DEF ClockUpdate
  <2> QED BY <1>0, <2>1 DEF NoUpd, Updates
<1>4. ASSUME NEW r \in Replicas
      PROVE  \/ Info(r, c)' = Info(r, c)
             \/ /\ Info(r, c)'.Clock = upd[c].Clock
                /\ Info(r, c).Clock # 0 => /\ Info(r, c)'.LastReq = Info(r, c).LastReq
                                           /\ Info(r, c)'.Alive = Info(r, c).Alive
                /\ Info(r, c).Clock = 0 => Info(r, c)'.Alive = TRUE
  <2>1. \/ Info(r, c)' = Info(r, c)
        \/ Info(r, c)' = updateAddClientClock(Info(r, c), upd[c].Clock)
    BY <1>0, <1>2 DEF ClockUpdate, Info
  <2>2. PICK k \in Nat : k = upd[c].Clock
    BY <1>2
  <2>3. PICK info \in Infos : info = Info(r, c)
    BY <1>0 DEF Info
  <2>4. /\ updateAddClientClock(info, k).Clock = k
        /\ info.Clock # 0 => /\ updateAddClientClock(info, k).LastReq = info.LastReq
                             /\ updateAddClientClock(info, k).Alive = info.Alive
        /\ info.Clock = 0 => updateAddClientClock(info, k).Alive = TRUE
    BY <2>2, <2>3, InfoFacts
  <2> QED BY <2>1, <2>2, <2>3, <2>4
<1> QED BY <1>1, <1>2, <1>3, <1>4

\* What a request that arrives does to the entry of its client.
LEMMA RegisterEffect ==
  ASSUME Typed, CallInv, NEW c \in Clients, NEW r \in Replicas, Register(c, r)
  PROVE  /\ call'[c].at = r /\ call'[c].stage = "waiting"
         /\ call'[c].Clock = call[c].Clock
         /\ call[c].Clock \in Nat /\ call[c].Clock >= 1
         /\ Info(r, c)'.Clock = call[c].Clock /\ Info(r, c)'.LastReq = call[c].Clock
         /\ Info(r, c).Clock # 0 => Info(r, c)'.Alive = Info(r, c).Alive
         /\ Info(r, c).Clock = 0 => Info(r, c)'.Alive = TRUE
         /\ \A s \in Replicas \ {r} : Info(s, c)' = Info(s, c)
<1>0. /\ clientinfomap \in [Replicas -> [Clients -> Infos]]
      /\ call \in [Clients -> Calls] /\ Info(r, c) \in Infos
      /\ call[c].Clock \in Nat
  BY DEF Typed, Info, Calls
<1>1. /\ call'[c].at = r /\ call'[c].stage = "waiting"
      /\ call'[c].Clock = call[c].Clock
  BY <1>0 DEF Register, Serving, Proceed, Calls
<1>2. call[c].Clock >= 1
  BY DEF Register, Serving, CallInv, Active
<1>3. /\ Info(r, c)' = addClientRequestInfo(
                         updateAddClientClock(Info(r, c), call[c].Clock), call[c].Clock)
      /\ \A s \in Replicas \ {r} : Info(s, c)' = Info(s, c)
  BY <1>0 DEF Register, Info
<1>4. PICK k : k = call[c].Clock
  OBVIOUS
<1>5. PICK info \in Infos : info = updateAddClientClock(Info(r, c), k)
  BY <1>0, <1>4, InfoFacts
<1>6. /\ info.Clock = k
      /\ Info(r, c).Clock # 0 => info.Alive = Info(r, c).Alive
      /\ Info(r, c).Clock = 0 => info.Alive = TRUE
  BY <1>0, <1>4, <1>5, InfoFacts
<1>7. /\ Info(r, c)'.Clock = info.Clock /\ Info(r, c)'.LastReq = k
      /\ Info(r, c)'.Alive = info.Alive
  <2>1. Info(r, c)' = addClientRequestInfo(info, k)
    BY <1>3, <1>4, <1>5
  <2>2. /\ addClientRequestInfo(info, k).Clock = info.Clock
        /\ addClientRequestInfo(info, k).LastReq = k
        /\ addClientRequestInfo(info, k).Alive = info.Alive
    BY <1>0, <1>4, InfoFacts
  <2> QED BY <2>1, <2>2
<1> QED BY <1>0, <1>1, <1>2, <1>3, <1>4, <1>6, <1>7

-----------------------------------------------------------------------------
\* A call that returns does not disturb what replicas know of clocks.
LEMMA ReturnClock ==
  ASSUME Typed, CallInv, NEW c \in Clients, NEW ok \in BOOLEAN, ClockAt(c),
         Return(c, ok), Active(c),
         \A r \in Replicas : Info(r, c)'.Clock = Info(r, c).Clock
  PROVE  ClockAt(c)'
<1>0. call \in [Clients -> Calls] /\ pc \in [Clients -> Phases]
  BY DEF Typed
<1>1. Running(c) /\ (GoesOn(c) \/ Ends(c))
  BY ReturnEffect DEF CallInv, Running
<1>2. CASE GoesOn(c)
  <2>1. call'[c].Clock = call[c].Clock
    BY <1>0, <1>2 DEF GoesOn
  <2> QED BY <1>1, <1>2, <2>1 DEF GoesOn, ClockAt, Running, Active
<1>3. CASE Ends(c)
  <2>1. ~ Active(c)' /\ pc'[c] # "dial"
    BY <1>0, <1>3 DEF Ends, NoCall, Active
  <2>2. Running(c)' => Clock' = Clock /\ upd' = upd
    BY <1>0, <1>3 DEF Ends, Running
  <2> QED BY <1>1, <2>1, <2>2 DEF ClockAt, Running
<1> QED BY <1>1, <1>2, <1>3

\* Every step keeps what is known of clocks.
LEMMA ClockStep ==
  ASSUME Typed, CallInv, ClockInv, [Next]_vars
  PROVE  ClockInv'
<1>0. /\ clientinfomap \in [Replicas -> [Clients -> Infos]]
      /\ call \in [Clients -> Calls] /\ pc \in [Clients -> Phases]
      /\ Clock \in [Clients -> Nat] /\ upd \in [Clients -> Updates]
      /\ \A r \in Replicas, c \in Clients : Info(r, c) \in Infos /\ Info(r, c).Clock \in Nat
      /\ \A c \in Clients : call[c].Clock \in Nat /\ upd[c].Clock \in Nat
  BY DEF Typed, Info, Infos, Calls, Updates
<1>1. ASSUME NEW c \in Clients, Serve(c) \/ Main(c) \/ Updater(c) PROVE ClockInv'
  <2>0. ClockAt(c) /\ Others(c)
    BY <1>1, OthersKept DEF ClockInv
  <2> SUFFICES ClockAt(c)'
    BY <2>0 DEF ClockInv, ClockAt, Others, Running, Active, Info
  <2>1. ASSUME NEW r \in Replicas, Register(c, r) PROVE ClockAt(c)'
    <3>1. /\ \A s \in Replicas \ {r} : Info(s, c)' = Info(s, c)
          /\ Info(r, c)'.Clock = call[c].Clock /\ call'[c].Clock = call[c].Clock
      BY <2>1, RegisterEffect
    <3>2. Running(c) /\ Active(c) /\ UNCHANGED <<pc, Clock, upd>>
      BY <2>1 DEF Register, Serving, Running, Active
    <3>3. \A s \in Replicas : Info(s, c)'.Clock \in {Info(s, c).Clock, call[c].Clock}
      BY <3>1
    <3>4. \A s \in Replicas : Info(s, c)'.Clock <= Clock[c]
      BY <2>0, <3>2, <3>3 DEF ClockAt
    <3>5. upd[c].stage = "sent" => \A s \in Replicas :
            Info(s, c)'.Clock > call[c].Clock => upd[c].Clock > call[c].Clock
      BY <1>0, <2>0, <3>2, <3>3 DEF ClockAt
    <3>6. call[c].Clock <= Clock[c] /\ (upd[c].stage = "sent" => upd[c].Clock <= Clock[c])
      BY <2>0, <3>2 DEF ClockAt
    <3> QED BY <3>1, <3>2, <3>4, <3>5, <3>6 DEF ClockAt, Running
  <2>2. ASSUME NEW r \in Replicas, returnWhenStable(c, r) \/ ApplyPut(c, r) \/ ApplyGet(c, r)
        PROVE  ClockAt(c)'
    <3>1. /\ UNCHANGED <<clientinfomap, pc, Clock, upd>> /\ Active(c)
          /\ \E stage \in {"stable", "applied"} : Proceed(c, stage)
      BY <2>2 DEF returnWhenStable, ApplyPut, ApplyGet, Serving, Active, server
    <3>2. call'[c].Clock = call[c].Clock
      BY <1>0, <3>1 DEF Proceed, Calls
    <3> QED BY <2>0, <3>1, <3>2 DEF ClockAt, Running, Active, Info
  <2>3. ASSUME NEW r \in Replicas, Answer(c, r) PROVE ClockAt(c)'
    <3>1. \A s \in Replicas : Info(s, c)'.Clock = Info(s, c).Clock
      <4>1. deleteClientRequestInfo(Info(r, c)).Clock = Info(r, c).Clock
        BY <1>0 DEF deleteClientRequestInfo, Infos
      <4> QED BY <1>0, <2>3, <4>1 DEF Answer, Info
    <3> QED BY <2>0, <2>3, <3>1, ReturnClock DEF Answer, Serving, Active
  <2>4. ASSUME NEW r \in Replicas, DisconnectAt(c, r) PROVE ClockAt(c)'
    <3>1. \A s \in Replicas : Info(s, c)'.Clock = Info(s, c).Clock
      BY <1>0, <2>4 DEF DisconnectAt, Info, Infos
    <3> QED BY <2>0, <2>4, <3>1, ReturnClock DEF DisconnectAt, Serving, Active
  <2>5. CASE CallFails(c)
    BY <2>0, <2>5, ReturnClock DEF CallFails, Active, server, Info
  <2>6. CASE Dial(c)
    <3>1. /\ pc[c] = "dial" /\ UNCHANGED <<clientinfomap, Clock, call, upd>>
          /\ pc'[c] # "dial" /\ ~ Active(c) /\ upd[c].stage # "sent"
      BY <1>0, <2>6 DEF Dial, server, CallInv, Running
    <3> QED BY <1>0, <2>0, <3>1 DEF ClockAt, Running, Active, Info
  <2>7. CASE Issue(c)
    <3>1. /\ Running(c) /\ UNCHANGED <<pc, clientinfomap>> /\ Clock'[c] = Clock[c] + 1
          /\ call'[c].Clock = Clock[c] + 1
      BY <1>0, <2>7 DEF Issue, Running, server
    <3>2. upd'[c].stage = "sent" => upd[c].stage = "sent" /\ upd'[c].Clock <= Clock[c] + 1
      BY <1>0, <2>0, <2>7, <3>1 DEF Issue, ClockAt, Updates
    <3> QED BY <1>0, <2>0, <3>1, <3>2 DEF ClockAt, Running, Active, Info
  <2>8. CASE UpdTick(c)
    <3>1. PICK k \in Nat :
            /\ k >= Clock[c] /\ Clock' = [Clock EXCEPT ![c] = k]
            /\ upd' = [upd EXCEPT ![c] = [at |-> 1, Clock |-> k, stage |-> "sent"]]
      BY <2>8, NextTickFacts
    <3>2. /\ Running(c) /\ UNCHANGED <<pc, call, clientinfomap>>
          /\ Clock'[c] = k /\ upd'[c].Clock = k
      BY <1>0, <2>8, <3>1 DEF UpdTick, server
    <3> QED BY <1>0, <2>0, <3>1, <3>2 DEF ClockAt, Running, Active, Info
  <2>9. CASE ClockUpdate(c)
    <3>1. /\ pc[c] # "dial" /\ upd[c].stage = "sent"
          /\ upd'[c].stage = "sent" => upd'[c].Clock = upd[c].Clock
          /\ \A r \in Replicas : Info(r, c)'.Clock \in {Info(r, c).Clock, upd[c].Clock}
      BY <2>9, UpdateEffect
    <3>2. UNCHANGED <<pc, call, Clock>>
      BY <2>9, UpdateEffect
    <3> QED BY <1>0, <2>0, <3>1, <3>2 DEF ClockAt, Running, Active
  <2> QED BY <1>1, <2>1, <2>2, <2>3, <2>4, <2>5, <2>6, <2>7, <2>8, <2>9
       DEF Serve, Main, Updater
<1>2. ASSUME NEW r \in Replicas, Crash(r) PROVE ClockInv'
  <2>1. UNCHANGED <<pc, Clock, call, upd>>
    BY <1>2 DEF Crash, client
  <2>2. \A s \in Replicas, c \in Clients :
          Info(s, c)'.Clock = 0 \/ Info(s, c)'.Clock = Info(s, c).Clock
    BY <1>0, <1>2 DEF Crash, Info, NoInfo
  <2>3. ASSUME NEW c \in Clients PROVE ClockAt(c)'
    <3>1. \A s \in Replicas : Info(s, c)'.Clock = 0 \/ Info(s, c)'.Clock = Info(s, c).Clock
      BY <2>2
    <3>2. ClockAt(c) /\ Clock[c] \in Nat /\ call[c].Clock \in Nat
      BY <1>0 DEF ClockInv
    <3> QED BY <2>1, <3>1, <3>2 DEF ClockAt, Running, Active
  <2> QED BY <2>3 DEF ClockInv
<1>3. CASE UNCHANGED vars
  BY <1>3 DEF vars, server, client, ClockInv, ClockAt, Running, Active, Info
<1> QED BY <1>1, <1>2, <1>3 DEF Next

\* Every step keeps what replicas remember of their clients.
LEMMA SeenStep ==
  ASSUME Typed, CallInv, ClockInv, SeenInv, [Next]_vars
  PROVE  SeenInv'
<1>0. /\ clientinfomap \in [Replicas -> [Clients -> Infos]]
      /\ call \in [Clients -> Calls] /\ pc \in [Clients -> Phases]
      /\ up \in [Replicas -> BOOLEAN]
      /\ \A r \in Replicas, c \in Clients : Info(r, c) \in Infos
  BY DEF Typed, Info
<1>1. ASSUME NEW c \in Clients, Serve(c) \/ Main(c) \/ Updater(c) PROVE SeenInv'
  <2>0. Others(c) /\ \A s \in Replicas : SeenAt(s, c)
    BY <1>1, OthersKept DEF SeenInv
  <2> SUFFICES ASSUME NEW s \in Replicas PROVE SeenAt(s, c)'
    BY <2>0 DEF SeenInv, SeenAt, Others, Handled, InMap, Info
  <2>1. ASSUME NEW r \in Replicas, Register(c, r) PROVE SeenAt(s, c)'
    <3>1. /\ pc[c] \in {"put", "get"} /\ pc' = pc /\ up' = up
      BY <2>1 DEF Register, Serving
    <3>2. /\ call'[c].at = r /\ call'[c].Clock = call[c].Clock
          /\ call[c].Clock \in Nat /\ call[c].Clock >= 1
          /\ s = r => /\ Info(s, c)'.Clock = call[c].Clock
                      /\ Info(s, c)'.LastReq = call[c].Clock
                      /\ Info(s, c).Clock # 0 => Info(s, c)'.Alive = Info(s, c).Alive
                      /\ Info(s, c).Clock = 0 => Info(s, c)'.Alive = TRUE
          /\ s # r => Info(s, c)' = Info(s, c)
      BY <2>1, RegisterEffect
    <3>3. Handled(c, s)' => s = r
      BY <3>2 DEF Handled
    <3>4. up[s] /\ Info(s, c).Clock # 0 => Info(s, c).Alive = TRUE
      BY <1>0, <2>0, <3>1 DEF SeenAt, InMap, Info, Infos
    <3>5. up[s] /\ Info(s, c)'.Clock # 0 => Info(s, c)'.Alive = TRUE
      BY <3>2, <3>4
    <3>6. Handled(c, s)' => Info(s, c)'.Clock # 0 /\ Info(s, c)'.LastReq = call'[c].Clock
      BY <3>2, <3>3
    <3> QED BY <3>1, <3>5, <3>6 DEF SeenAt, InMap, Info
  <2>2. ASSUME NEW r \in Replicas, returnWhenStable(c, r) \/ ApplyPut(c, r) \/ ApplyGet(c, r)
        PROVE  SeenAt(s, c)'
    <3>1. /\ UNCHANGED <<clientinfomap, pc, up>>
          /\ call[c].stage \in {"waiting", "stable"}
          /\ \E stage \in {"stable", "applied"} : Proceed(c, stage)
      BY <2>2 DEF returnWhenStable, ApplyPut, ApplyGet, Serving, server
    <3>2. /\ call'[c].Clock = call[c].Clock /\ call'[c].at = call[c].at
          /\ Handled(c, s)' <=> Handled(c, s)
      BY <1>0, <3>1 DEF Proceed, Calls, Handled
    <3> QED BY <2>0, <3>1, <3>2 DEF SeenAt, InMap, Info
  <2>3. ASSUME NEW ok \in BOOLEAN, Active(c), Return(c, ok)
        PROVE  /\ ~ Handled(c, s)'
               /\ pc[c] \in {"disconnect", "done", "failed"} =>
                    pc'[c] \in {"disconnect", "done", "failed"}
    <3>1. GoesOn(c) \/ Ends(c)
      BY <2>3, ReturnEffect DEF CallInv, Running
    <3>2. CASE GoesOn(c)
      BY <1>0, <3>2 DEF GoesOn, Handled
    <3>3. CASE Ends(c)
      BY <1>0, <3>3 DEF Ends, Handled, NoCall
    <3> QED BY <3>1, <3>2, <3>3
  <2>4. ASSUME NEW r \in Replicas, Answer(c, r) PROVE SeenAt(s, c)'
    <3>1. Info(s, c)'.Clock = Info(s, c).Clock /\ Info(s, c)'.Alive = Info(s, c).Alive
      <4>1. /\ deleteClientRequestInfo(Info(r, c)).Clock = Info(r, c).Clock
            /\ deleteClientRequestInfo(Info(r, c)).Alive = Info(r, c).Alive
        BY <1>0 DEF deleteClientRequestInfo, Infos
      <4> QED BY <1>0, <2>4, <4>1 DEF Answer, Info
    <3>2. Active(c) /\ Return(c, TRUE) /\ up' = up
      BY <2>4 DEF Answer, Serving, Active
    <3> QED BY <2>0, <2>3, <3>1, <3>2 DEF SeenAt, InMap, Info
  <2>5. ASSUME NEW r \in Replicas, DisconnectAt(c, r) PROVE SeenAt(s, c)'
    <3>1. Active(c) /\ Return(c, TRUE) /\ pc[c] = "disconnect"
      BY <2>5 DEF DisconnectAt, Serving, Active
    <3>2. /\ ~ Handled(c, s)' /\ pc'[c] \in {"disconnect", "done", "failed"}
      BY <2>3, <3>1
    <3> QED BY <3>2 DEF SeenAt
  <2>6. CASE CallFails(c)
    <3>1. Active(c) /\ Return(c, FALSE) /\ UNCHANGED <<clientinfomap, up>>
      BY <2>6 DEF CallFails, Active, server
    <3> QED BY <2>0, <2>3, <3>1 DEF SeenAt, InMap, Info
  <2>7. CASE Dial(c)
    <3>1. /\ UNCHANGED <<clientinfomap, up, call>> /\ pc[c] = "dial" /\ ~ InMap(s, c)
      BY <2>7 DEF Dial, server, ClockInv, ClockAt, InMap, Info
    <3> QED BY <2>0, <3>1 DEF SeenAt, InMap, Info, Handled
  <2>8. CASE Issue(c)
    <3>1. /\ UNCHANGED <<clientinfomap, up, pc>> /\ ~ Handled(c, s)'
      BY <1>0, <2>8 DEF Issue, server, Handled
    <3> QED BY <2>0, <3>1 DEF SeenAt, InMap, Info
  <2>9. CASE UpdTick(c)
    BY <2>0, <2>9 DEF UpdTick, server, SeenAt, InMap, Info, Handled
  <2>10. CASE ClockUpdate(c)
    <3>1. /\ UNCHANGED <<pc, call, up>> /\ upd[c].Clock \in Nat /\ upd[c].Clock >= 1
          /\ \/ Info(s, c)' = Info(s, c)
             \/ /\ Info(s, c)'.Clock = upd[c].Clock
                /\ Info(s, c).Clock # 0 => /\ Info(s, c)'.LastReq = Info(s, c).LastReq
                                           /\ Info(s, c)'.Alive = Info(s, c).Alive
                /\ Info(s, c).Clock = 0 => Info(s, c)'.Alive = TRUE
      BY <2>10, UpdateEffect
    <3>2. Handled(c, s)' = Handled(c, s)
      BY <3>1 DEF Handled
    <3>3. /\ Info(s, c).Clock # 0 => /\ Info(s, c)'.Clock # 0
                                     /\ Info(s, c)'.LastReq = Info(s, c).LastReq
                                     /\ Info(s, c)'.Alive = Info(s, c).Alive
          /\ Info(s, c).Clock = 0 /\ Info(s, c)'.Clock # 0 => Info(s, c)'.Alive = TRUE
      BY <3>1
    <3>4. up[s] => /\ Handled(c, s) => Info(s, c).Clock # 0 /\ Info(s, c).LastReq = call[c].Clock
                   /\ Info(s, c).Clock # 0 /\ ~ Info(s, c).Alive =>
                        pc[c] \in {"disconnect", "done", "failed"}
      BY <2>0 DEF SeenAt, InMap, Info
    <3> QED BY <3>1, <3>2, <3>3, <3>4 DEF SeenAt, InMap, Info
  <2> QED BY <1>1, <2>1, <2>2, <2>4, <2>5, <2>6, <2>7, <2>8, <2>9, <2>10
       DEF Serve, Main, Updater
<1>2. ASSUME NEW r \in Replicas, Crash(r) PROVE SeenInv'
  <2>1. UNCHANGED <<pc, call>> /\ ~ up'[r]
    BY <1>0, <1>2 DEF Crash, client
  <2>2. \A s \in Replicas \ {r} : clientinfomap'[s] = clientinfomap[s] /\ up'[s] = up[s]
    BY <1>0, <1>2 DEF Crash
  <2>3. ASSUME NEW s \in Replicas, NEW c \in Clients PROVE SeenAt(s, c)'
    BY <2>1, <2>2 DEF SeenInv, SeenAt, InMap, Info, Handled
  <2> QED BY <2>3 DEF SeenInv
<1>3. CASE UNCHANGED vars
  BY <1>3 DEF vars, server, client, SeenInv, SeenAt, InMap, Info, Handled
<1> QED BY <1>1, <1>2, <1>3 DEF Next

-----------------------------------------------------------------------------
\* Late requests stay late, unless the replica stops.
LEMMA LateKept ==
  ASSUME Typed, NEW c \in Clients, Serve(c) \/ Main(c) \/ Updater(c), NEW s \in Replicas
  PROVE  late[s] \subseteq late'[s]
<1>0. late \in [Replicas -> SUBSET Request]
  BY DEF Typed
<1>1. ASSUME NEW r \in Replicas, Register(c, r) PROVE late[s] \subseteq late'[s]
  BY <1>0, <1>1 DEF Register
<1>2. ASSUME Main(c) \/ Updater(c) PROVE UNCHANGED late
  BY <1>2 DEF Main, Updater, Dial, Issue, CallFails, UpdTick, ClockUpdate, history
<1>3. ASSUME NEW r \in Replicas,
             \/ returnWhenStable(c, r) \/ ApplyPut(c, r) \/ ApplyGet(c, r)
             \/ Answer(c, r) \/ DisconnectAt(c, r)
      PROVE  UNCHANGED late
  BY <1>3 DEF returnWhenStable, ApplyPut, ApplyGet, Answer, DisconnectAt, history
<1> QED BY <1>1, <1>2, <1>3 DEF Serve

\* A step of b keeps what is said of its own requests.
LEMMA AheadOwn ==
  ASSUME Typed, CallInv, ClockInv, NEW b \in Clients, Serve(b) \/ Main(b) \/ Updater(b),
         NEW r \in Replicas, NEW q, q.Clock \in Nat, Ahead(r, q, b)
  PROVE  Ahead(r, q, b)'
<1>0. /\ call \in [Clients -> Calls] /\ pc \in [Clients -> Phases]
      /\ Clock \in [Clients -> Nat]
      /\ call[b].at \in Nat /\ call[b].Clock \in Nat /\ Clock[b] \in Nat
      /\ Info(r, b).Clock \in Nat /\ upd[b].Clock \in Nat /\ r \in Nat
  <2>1. /\ call[b] \in Calls /\ clientinfomap[r][b] \in Infos /\ upd[b] \in Updates
        /\ call[b].at \in Replicas
    BY DEF Typed, Calls
  <2>2. r \in Nat /\ call[b].at \in Nat
    BY <2>1, ReplicaFacts
  <2> QED BY <2>1, <2>2 DEF Typed, Calls, Info, Infos, Updates
<1>1. late[r] \subseteq late'[r] /\ pc[b] # "dial"
  BY LateKept DEF Ahead
<1>2. ASSUME NEW s \in Replicas, Register(b, s) PROVE Ahead(r, q, b)'
  <2>1. /\ call'[b].at = s /\ call'[b].stage = "waiting" /\ call'[b].Clock = call[b].Clock
        /\ s # r => Info(r, b)' = Info(r, b)
    BY <1>2, RegisterEffect
  <2>2. /\ pc[b] \in {"put", "get"} /\ pc' = pc /\ Clock' = Clock
        /\ call[b].at = s /\ call[b].stage = "sent"
        /\ late' = IF Info(s, b).Clock > call[b].Clock
                   THEN [late EXCEPT ![s] = @ \cup {RequestOf(b)}] ELSE late
    BY <1>2 DEF Register, Serving, Info
  <2>3. RequestOf(b)' = RequestOf(b)
    BY <2>1, <2>2 DEF RequestOf
  <2>4. s = r /\ Info(r, b).Clock > call[b].Clock => RequestOf(b) \in late'[r]
    BY <2>2 DEF Typed
  <2>5. q.Clock < call[b].Clock => Earlier(q, RequestOf(b))
    BY DEF Earlier, RequestOf
  <2>6. /\ ToCome(b, r)' => ToCome(b, r) /\ s # r
        /\ Handled(b, r)' => s = r
        /\ s = r => ToCome(b, r)
    BY <1>0, <2>1, <2>2 DEF ToCome, Handled, Active
  <2>7. /\ q.Clock <= Clock[b]
        /\ ToCome(b, r) => q.Clock < call[b].Clock \/ Info(r, b).Clock > call[b].Clock
    BY <2>2 DEF Ahead
  <2>8. Handled(b, r)' => Earlier(q, RequestOf(b)) \/ RequestOf(b) \in late'[r]
    BY <2>4, <2>5, <2>6, <2>7
  <2>9. ToCome(b, r)' => q.Clock < call'[b].Clock \/ Info(r, b)'.Clock > call'[b].Clock
    BY <2>1, <2>6, <2>7
  <2> QED BY <1>1, <2>2, <2>3, <2>7, <2>8, <2>9 DEF Ahead
<1>3. ASSUME NEW s \in Replicas, returnWhenStable(b, s) \/ ApplyPut(b, s) \/ ApplyGet(b, s)
      PROVE  Ahead(r, q, b)'
  <2>1. /\ pc' = pc /\ Clock' = Clock /\ clientinfomap' = clientinfomap
        /\ call[b].stage \in {"waiting", "stable"}
        /\ \E stage \in {"stable", "applied"} : Proceed(b, stage)
    BY <1>3 DEF returnWhenStable, ApplyPut, ApplyGet, Serving, server
  <2>2. /\ call'[b].at = call[b].at /\ call'[b].Clock = call[b].Clock
        /\ call'[b].stage \in {"stable", "applied"}
    BY <1>0, <2>1 DEF Proceed, Calls
  <2>3. /\ RequestOf(b)' = RequestOf(b) /\ Info(r, b)' = Info(r, b)
        /\ ToCome(b, r)' <=> ToCome(b, r)
        /\ Handled(b, r)' <=> Handled(b, r)
    BY <2>1, <2>2 DEF RequestOf, ToCome, Handled, Active, Info
  <2> QED BY <1>1, <2>1, <2>2, <2>3 DEF Ahead
<1>4. ASSUME NEW ok \in BOOLEAN, Active(b), Return(b, ok), Info(r, b)'.Clock = Info(r, b).Clock
      PROVE  Ahead(r, q, b)'
  <2>1. GoesOn(b) \/ Ends(b)
    BY <1>4, ReturnEffect DEF CallInv, Running
  <2>2. CASE GoesOn(b)
    <3>1. /\ call'[b].at = call[b].at + 1 /\ call'[b].Clock = call[b].Clock
          /\ call'[b].stage = "sent" /\ pc' = pc /\ Clock' = Clock
      BY <1>0, <2>2 DEF GoesOn
    <3>2. ~ Handled(b, r)'
      BY <3>1 DEF Handled
    <3>3. ToCome(b, r)' => ToCome(b, r)
      BY <1>0, <1>4, <3>1 DEF ToCome, Active
    <3> QED BY <1>4, <3>1, <3>2, <3>3 DEF Ahead
  <2>3. CASE Ends(b)
    <3>1. /\ ~ ToCome(b, r)' /\ ~ Handled(b, r)' /\ pc'[b] # "dial"
          /\ pc'[b] \in {"put", "get"} => pc[b] = "put" /\ Clock' = Clock
      BY <1>0, <2>3 DEF Ends, NoCall, ToCome, Handled, Active
    <3> QED BY <3>1 DEF Ahead
  <2> QED BY <2>1, <2>2, <2>3
<1>5. ASSUME NEW s \in Replicas, Answer(b, s) PROVE Ahead(r, q, b)'
  <2>1. Info(r, b)'.Clock = Info(r, b).Clock
    <3>1. PICK info \in Infos : info = Info(s, b)
      BY DEF Typed, Info
    <3>2. deleteClientRequestInfo(info).Clock = info.Clock
      BY DEF deleteClientRequestInfo, Infos
    <3> QED BY <1>5, <3>1, <3>2 DEF Answer, Info, Typed
  <2> QED BY <1>4, <1>5, <2>1 DEF Answer, Serving, Active
<1>6. ASSUME NEW s \in Replicas, DisconnectAt(b, s) PROVE Ahead(r, q, b)'
  <2>1. Info(r, b)'.Clock = Info(r, b).Clock
    BY <1>6 DEF DisconnectAt, Info, Infos, Typed
  <2> QED BY <1>4, <1>6, <2>1 DEF DisconnectAt, Serving, Active
<1>7. CASE CallFails(b)
  BY <1>4, <1>7 DEF CallFails, Active, server, Info
<1>8. CASE Issue(b)
  <2>1. /\ pc' = pc /\ Clock'[b] = Clock[b] + 1 /\ call'[b].Clock = Clock[b] + 1
        /\ call'[b].stage = "sent"
    BY <1>0, <1>8 DEF Issue
  <2>2. ~ Handled(b, r)'
    BY <2>1 DEF Handled
  <2> QED BY <1>0, <2>1, <2>2 DEF Ahead
<1>9. CASE UpdTick(b)
  <2>1. PICK k \in Nat : k >= Clock[b] /\ Clock' = [Clock EXCEPT ![b] = k]
    BY <1>9, NextTickFacts
  <2>2. /\ UNCHANGED <<pc, call, clientinfomap>> /\ Clock'[b] = k
    BY <1>0, <1>9, <2>1 DEF UpdTick, server
  <2>3. /\ RequestOf(b)' = RequestOf(b) /\ Info(r, b)' = Info(r, b)
        /\ ToCome(b, r)' <=> ToCome(b, r)
        /\ Handled(b, r)' <=> Handled(b, r)
    BY <2>2 DEF RequestOf, ToCome, Handled, Active, Info
  <2> QED BY <1>0, <1>1, <2>1, <2>2, <2>3 DEF Ahead
<1>10. CASE ClockUpdate(b)
  <2>1. /\ UNCHANGED <<pc, call, Clock>> /\ upd[b].stage = "sent"
        /\ Info(r, b)'.Clock \in {Info(r, b).Clock, upd[b].Clock}
    BY <1>10, UpdateEffect
  <2>2. /\ RequestOf(b)' = RequestOf(b)
        /\ ToCome(b, r)' <=> ToCome(b, r)
        /\ Handled(b, r)' <=> Handled(b, r)
    BY <2>1 DEF RequestOf, ToCome, Handled, Active
  <2>3. ToCome(b, r) /\ Info(r, b).Clock > call[b].Clock => Info(r, b)'.Clock > call[b].Clock
    <3>1. ToCome(b, r) => Active(b) /\ Running(b)
      BY DEF ToCome, Active, CallInv
    <3> QED BY <2>1, <3>1 DEF ClockInv, ClockAt
  <2> QED BY <1>1, <2>1, <2>2, <2>3 DEF Ahead
<1>11. ~ Dial(b)
  BY <1>1 DEF Dial
<1> QED BY <1>2, <1>3, <1>5, <1>6, <1>7, <1>8, <1>9, <1>10, <1>11
        DEF Serve, Main, Updater

\* Nor does any other step disturb it while the replica is up.
LEMMA AheadStep ==
  ASSUME Typed, CallInv, ClockInv, [Next]_vars, NEW b \in Clients,
         NEW r \in Replicas, NEW q, q.Clock \in Nat, Ahead(r, q, b), up'[r]
  PROVE  Ahead(r, q, b)'
<1>1. ASSUME NEW c \in Clients, Serve(c) \/ Main(c) \/ Updater(c) PROVE Ahead(r, q, b)'
  <2>1. CASE b = c
    BY <1>1, <2>1, AheadOwn
  <2>2. CASE b # c
    <3>1. late[r] \subseteq late'[r]
      BY <1>1, LateKept
    <3>2. /\ pc'[b] = pc[b] /\ Clock'[b] = Clock[b] /\ call'[b] = call[b]
          /\ Info(r, b)' = Info(r, b)
      BY <1>1, <2>2, OthersKept DEF Others, Info
    <3>3. /\ RequestOf(b)' = RequestOf(b)
          /\ ToCome(b, r)' <=> ToCome(b, r)
          /\ Handled(b, r)' <=> Handled(b, r)
      BY <3>2 DEF RequestOf, ToCome, Handled, Active
    <3> QED BY <3>1, <3>2, <3>3 DEF Ahead
  <2> QED BY <2>1, <2>2
<1>2. ASSUME NEW s \in Replicas, Crash(s) PROVE Ahead(r, q, b)'
  <2>1. s # r
    BY <1>2 DEF Crash, Typed
  <2>2. /\ pc' = pc /\ Clock' = Clock /\ call' = call
        /\ Info(r, b)' = Info(r, b) /\ late'[r] = late[r]
    BY <1>2, <2>1 DEF Crash, client, Info, Typed
  <2> QED BY <2>2 DEF Ahead, RequestOf, ToCome, Handled, Active
<1>3. CASE UNCHANGED vars
  BY <1>3 DEF vars, server, client, history, Ahead, RequestOf, ToCome, Handled, Active, Info
<1> QED BY <1>1, <1>2, <1>3 DEF Next

\* A request that is found stable goes before whatever the others may still ask.
LEMMA StableAhead ==
  ASSUME Typed, CallInv, ClockInv, SeenInv, NEW a \in Clients, NEW b \in Clients \ {a},
         NEW r \in Replicas, returnWhenStable(a, r)
  PROVE  Ahead(r, RequestOf(a), b)
<1> DEFINE k == call[a].Clock
<1>1. /\ call[a] \in Calls /\ call[b] \in Calls /\ Info(r, b) \in Infos
      /\ Clock[b] \in Nat /\ a \in Int /\ b \in Int
  BY KVAssumption DEF Typed, Info, Clients
<1>2. /\ k \in Nat /\ call[b].Clock \in Nat
      /\ Info(r, b).Clock \in Nat /\ Info(r, b).LastReq \in Nat
      /\ RequestOf(a).Clock = k /\ RequestOf(a).Clientid = a
      /\ RequestOf(b).Clock = call[b].Clock /\ RequestOf(b).Clientid = b
  BY <1>1 DEF Calls, Infos, RequestOf
<1>3. /\ up[r] /\ Info(r, b).Clock # 0
      /\ Info(r, b).Alive => /\ Info(r, b).Clock > k
                             /\ Info(r, b).LastReq = 0 \/ Info(r, b).LastReq >= k
                             /\ ~ (Info(r, b).LastReq = k /\ b < a)
  BY DEF returnWhenStable, Serving, check_stability, InMap, Info
<1>4. pc[b] # "dial"
  BY <1>3 DEF ClockInv, ClockAt
<1>5. ASSUME pc[b] \in {"put", "get"}
      PROVE  /\ k <= Clock[b]
             /\ ToCome(b, r) => k < call[b].Clock \/ Info(r, b).Clock > call[b].Clock
             /\ Handled(b, r) => Earlier(RequestOf(a), RequestOf(b))
  <2>1. SeenAt(r, b)
    BY DEF SeenInv
  <2>2. Info(r, b).Alive
    BY <1>1, <1>3, <1>5, <2>1 DEF SeenAt, InMap, Info, Infos
  <2>3. Info(r, b).Clock <= Clock[b]
    BY <1>5 DEF ClockInv, ClockAt, Running
  <2>4. k < Info(r, b).Clock
    BY <1>2, <1>3, <2>2
  <2>5. Handled(b, r) => Info(r, b).LastReq = call[b].Clock /\ call[b].Clock >= 1
    BY <1>3, <2>1 DEF SeenAt, CallInv, Handled, Active
  <2>6. Handled(b, r) => k < call[b].Clock \/ (k = call[b].Clock /\ a < b)
    BY <1>1, <1>2, <1>3, <2>2, <2>5
  <2>7. Handled(b, r) => Earlier(RequestOf(a), RequestOf(b))
    BY <1>2, <2>6 DEF Earlier
  <2>8. k <= Clock[b] /\ (k < call[b].Clock \/ Info(r, b).Clock > call[b].Clock)
    BY <1>1, <1>2, <2>3, <2>4
  <2> QED BY <2>7, <2>8
<1> QED BY <1>2, <1>4, <1>5 DEF Ahead

\* What a step does to the requests a replica has applied.
LEMMA AppliedStep ==
  ASSUME Typed, [Next]_vars, NEW r \in Replicas
  PROVE  \/ applied'[r] = applied[r] /\ up'[r] = up[r] /\ late[r] \subseteq late'[r]
         \/ applied'[r] = <<>>
         \/ /\ up[r] /\ up'[r] /\ UNCHANGED late
            /\ \E a \in Clients :
                 /\ Stable(a, r) /\ pc[a] \in {"put", "get"}
                 /\ applied'[r] = Append(applied[r], RequestOf(a))
                 /\ UNCHANGED <<pc, Clock>>
                 /\ call'[a].at = r /\ call'[a].stage = "applied"
<1>0. /\ applied \in [Replicas -> Seq(Request)] /\ call \in [Clients -> Calls]
  BY DEF Typed
<1>1. ASSUME NEW a \in Clients, NEW s \in Replicas, ApplyPut(a, s) \/ ApplyGet(a, s)
      PROVE  \/ applied'[r] = applied[r] /\ up' = up /\ UNCHANGED late
             \/ /\ up[r] /\ up'[r] /\ UNCHANGED late
                /\ Stable(a, r) /\ pc[a] \in {"put", "get"}
                /\ applied'[r] = Append(applied[r], RequestOf(a))
                /\ UNCHANGED <<pc, Clock>>
                /\ call'[a].at = r /\ call'[a].stage = "applied"
  <2>1. /\ up' = up /\ UNCHANGED <<late, pc, Clock>> /\ up[s]
        /\ Stable(a, s) /\ pc[a] \in {"put", "get"}
        /\ applied' = [applied EXCEPT ![s] = Append(@, RequestOf(a))]
        /\ call' = [call EXCEPT ![a].stage = "applied"]
    BY <1>1 DEF ApplyPut, ApplyGet, Serving, Stable, server, Proceed
  <2>2. call'[a].at = s /\ call'[a].stage = "applied"
    BY <1>0, <2>1 DEF Stable, Calls
  <2> QED BY <1>0, <2>1, <2>2
<1>2. ASSUME NEW c \in Clients, Main(c) \/ Updater(c) PROVE UNCHANGED <<applied, late, up>>
  BY <1>2 DEF Main, Updater, Dial, Issue, CallFails, UpdTick, ClockUpdate, server, history
<1>3. ASSUME NEW c \in Clients, NEW s \in Replicas,
             returnWhenStable(c, s) \/ Answer(c, s) \/ DisconnectAt(c, s)
      PROVE  UNCHANGED <<applied, late, up>>
  BY <1>3 DEF returnWhenStable, Answer, DisconnectAt, server, history
<1>4. ASSUME NEW c \in Clients, NEW s \in Replicas, Register(c, s)
      PROVE  UNCHANGED <<applied, up>> /\ late[r] \subseteq late'[r]
  BY <1>4, LateKept DEF Serve, Register
<1>5. ASSUME NEW s \in Replicas, Crash(s)
      PROVE  \/ applied'[r] = <<>>
             \/ applied'[r] = applied[r] /\ up'[r] = up[r] /\ late'[r] = late[r]
  BY <1>0, <1>5 DEF Crash, Typed
<1>6. CASE UNCHANGED vars
  BY <1>6 DEF vars, server, history
<1> QED BY <1>1, <1>2, <1>3, <1>4, <1>5, <1>6 DEF Next, Serve

\* A request becomes stable in one way only.
LEMMA StableStep ==
  ASSUME Typed, CallInv, [Next]_vars, NEW a \in Clients, NEW r \in Replicas, Stable(a, r)',
         up'[r]
  PROVE  /\ RequestOf(a)' = RequestOf(a)
         /\ up[r]
         /\ Stable(a, r) \/ returnWhenStable(a, r)
<1>0. /\ call \in [Clients -> Calls]
      /\ call'[a].at = r /\ call'[a].stage = "stable"
  BY DEF Typed, Stable
<1>1. ASSUME NEW c \in Clients, Serve(c) \/ Main(c) \/ Updater(c), c # a
      PROVE  /\ call'[a] = call[a] /\ pc'[a] = pc[a] /\ up' = up
  BY <1>1, OthersKept DEF Others
<1>2. ASSUME NEW s \in Replicas, returnWhenStable(a, s)
      PROVE  /\ returnWhenStable(a, r) /\ RequestOf(a)' = RequestOf(a) /\ up' = up
  <2>1. /\ call[a].at = s /\ pc' = pc /\ up' = up
        /\ call' = [call EXCEPT ![a].stage = "stable"]
    BY <1>2 DEF returnWhenStable, Serving, Proceed, server
  <2>2. call'[a].at = call[a].at /\ call'[a].Clock = call[a].Clock
    BY <1>0, <2>1 DEF Calls
  <2> QED BY <1>0, <1>2, <2>1, <2>2 DEF RequestOf
<1>3. ASSUME NEW s \in Replicas, Register(a, s) \/ ApplyPut(a, s) \/ ApplyGet(a, s)
      PROVE  FALSE
  <2>1. \E stage \in {"waiting", "applied"} : Proceed(a, stage)
    BY <1>3 DEF Register, ApplyPut, ApplyGet
  <2>2. call'[a].stage \in {"waiting", "applied"}
    BY <1>0, <2>1 DEF Proceed, Calls
  <2> QED BY <1>0, <2>2
<1>4. ASSUME NEW ok \in BOOLEAN, Active(a), Return(a, ok) PROVE FALSE
  <2>1. GoesOn(a) \/ Ends(a)
    BY <1>4, ReturnEffect DEF CallInv, Running
  <2> QED BY <1>0, <2>1 DEF GoesOn, Ends, NoCall
<1>5. ASSUME NEW s \in Replicas, Answer(a, s) \/ DisconnectAt(a, s) PROVE FALSE
  BY <1>4, <1>5 DEF Answer, DisconnectAt, Serving, Active
<1>6. CASE CallFails(a)
  BY <1>4, <1>6 DEF CallFails, Active
<1>7. CASE Issue(a)
  BY <1>0, <1>7 DEF Issue
<1>8. CASE Dial(a)
  <2>1. ~ Active(a) /\ call' = call
    BY <1>8 DEF Dial, CallInv, Running
  <2> QED BY <1>0, <2>1 DEF Active
<1>9. CASE Updater(a)
  BY <1>9, <1>0 DEF Updater, UpdTick, ClockUpdate, RequestOf, Stable, server
<1>10. ASSUME NEW s \in Replicas, Crash(s)
       PROVE  call' = call /\ pc' = pc /\ up[r]
  BY <1>10 DEF Crash, client, Typed
<1>11. CASE UNCHANGED vars
  BY <1>11 DEF vars, server, client, RequestOf, Stable
<1>12. ASSUME call'[a] = call[a], pc'[a] = pc[a]
       PROVE  RequestOf(a)' = RequestOf(a) /\ Stable(a, r)
  BY <1>0, <1>12 DEF RequestOf, Stable
<1>13. ASSUME NEW c \in Clients, Serve(c) \/ Main(c) \/ Updater(c)
       PROVE  /\ RequestOf(a)' = RequestOf(a) /\ up[r]
              /\ Stable(a, r) \/ returnWhenStable(a, r)
  <2>1. CASE c # a
    BY <1>1, <1>12, <1>13, <2>1
  <2>2. CASE c = a
    BY <1>2, <1>3, <1>5, <1>6, <1>7, <1>8, <1>9, <1>13, <2>2 DEF Serve, Main
  <2> QED BY <2>1, <2>2
<1> QED BY <1>10, <1>11, <1>12, <1>13 DEF Next

\* Every step keeps the order.
LEMMA OrderStep ==
  ASSUME Typed, CallInv, ClockInv, SeenInv, OrderInv, [Next]_vars, Typed'
  PROVE  OrderInv'
<1>0. /\ \A r \in Replicas : applied[r] \in Seq(Request)
      /\ \A r \in Replicas : applied'[r] \in Seq(Request)
      /\ \A a \in Clients : RequestOf(a).Clock \in Nat
  BY DEF Typed, RequestOf, Calls
<1>1. ASSUME NEW r \in Replicas
      PROVE  ~ up'[r] => applied'[r] = <<>>
  BY AppliedStep DEF OrderInv, DownInv
<1>2. ASSUME NEW r \in Replicas, NEW b \in Clients, up'[r],
             NEW i \in 1 .. Len(applied'[r])
      PROVE  Ahead(r, applied[r][i], b)'
  <2>1. PICK q : q = applied'[r][i]
    OBVIOUS
  <2>2. q \in Request /\ q.Clock \in Nat
    <3>1. q \in Request
      BY <1>0, <1>2, <2>1
    <3> QED BY <3>1 DEF Request
  <2>3. ASSUME applied'[r] = applied[r], up'[r] = up[r]
        PROVE  Ahead(r, q, b)'
    <3>1. Ahead(r, q, b)
      BY <1>2, <2>1, <2>3 DEF OrderInv, AheadInv
    <3> QED BY <1>2, <2>2, <3>1, AheadStep
  <2>4. applied'[r] # <<>>
    BY <1>2
  <2>5. ASSUME NEW a \in Clients, up[r], Stable(a, r), pc[a] \in {"put", "get"},
               applied'[r] = Append(applied[r], RequestOf(a)), UNCHANGED <<pc, Clock>>,
               call'[a].at = r, call'[a].stage = "applied"
        PROVE  Ahead(r, q, b)'
    <3>1. CASE i <= Len(applied[r])
      <4>1. i \in 1 .. Len(applied[r]) /\ q = applied[r][i]
        BY <1>0, <2>1, <2>5, <3>1
      <4>2. Ahead(r, q, b)
        BY <2>5, <4>1 DEF OrderInv, AheadInv
      <4> QED BY <1>2, <2>2, <4>2, AheadStep
    <3>2. CASE i > Len(applied[r])
      <4>1. q = RequestOf(a)
        BY <1>0, <2>1, <2>5, <3>2
      <4>2. CASE a # b
        <5>1. Ahead(r, q, b)
          BY <2>5, <4>1, <4>2 DEF OrderInv, AheadInv
        <5> QED BY <1>2, <2>2, <5>1, AheadStep
      <4>3. CASE a = b
        <5>1. q.Clock = call[b].Clock /\ call[b].Clock <= Clock[b]
          BY <2>5, <4>1, <4>3 DEF ClockInv, ClockAt, Running, Active, Stable, RequestOf
        <5>2. ~ ToCome(b, r)'
          BY <2>5, <4>3, ReplicaFacts DEF ToCome, Active
        <5> QED BY <2>5, <4>3, <5>1, <5>2 DEF Ahead
      <4> QED BY <4>2, <4>3
    <3> QED BY <1>0, <3>1, <3>2
  <2>6. Ahead(r, q, b)'
    BY <2>3, <2>4, <2>5, AppliedStep
  <2> QED BY <2>1, <2>6 DEF Ahead
<1>3. ASSUME NEW r \in Replicas, NEW b \in Clients, up'[r], NEW a \in Clients \ {b}, Stable(a, r)'
      PROVE  Ahead(r, RequestOf(a), b)'
  <2>1. PICK q : q = RequestOf(a)
    OBVIOUS
  <2>2. q.Clock \in Nat /\ RequestOf(a)' = q
    BY <1>0, <1>3, <2>1, StableStep
  <2>3. Ahead(r, q, b)
    <3>1. CASE Stable(a, r)
      BY <1>3, <2>1, <3>1, StableStep DEF OrderInv, AheadInv
    <3>2. CASE returnWhenStable(a, r)
      BY <2>1, <3>2, StableAhead
    <3> QED BY <1>3, <3>1, <3>2, StableStep
  <2>4. Ahead(r, q, b)'
    BY <1>3, <2>2, <2>3, AheadStep
  <2> QED BY <2>2, <2>4
<1>4. ASSUME NEW r \in Replicas, NEW j \in 1 .. Len(applied'[r]), NEW i \in 1 .. j - 1
      PROVE  Earlier(applied'[r][i], applied'[r][j]) \/ applied'[r][j] \in late'[r]
  <2>1. CASE applied'[r] = applied[r] /\ late[r] \subseteq late'[r]
    BY <2>1, <1>4 DEF OrderInv, OrderedUnlessLate
  <2>2. CASE applied'[r] = <<>>
    BY <2>2, <1>4
  <2>3. ASSUME NEW a \in Clients, up[r], Stable(a, r), pc[a] \in {"put", "get"},
               applied'[r] = Append(applied[r], RequestOf(a)), UNCHANGED late
        PROVE  Earlier(applied'[r][i], applied'[r][j]) \/ applied'[r][j] \in late'[r]
    <3>1. i \in 1 .. Len(applied[r]) /\ applied'[r][i] = applied[r][i]
      BY <1>0, <2>3
    <3>2. CASE j <= Len(applied[r])
      <4>1. j \in 1 .. Len(applied[r]) /\ applied'[r][j] = applied[r][j]
        BY <1>0, <2>3, <3>2
      <4> QED BY <2>3, <3>1, <4>1 DEF OrderInv, OrderedUnlessLate
    <3>3. CASE j > Len(applied[r])
      <4>1. applied'[r][j] = RequestOf(a)
        BY <1>0, <2>3, <3>3
      <4>2. Ahead(r, applied[r][i], a)
        BY <2>3, <3>1 DEF OrderInv, AheadInv
      <4>3. Earlier(applied[r][i], RequestOf(a)) \/ RequestOf(a) \in late[r]
        BY <2>3, <4>2 DEF Ahead, Stable, Handled
      <4> QED BY <2>3, <3>1, <4>1, <4>3
    <3> QED BY <1>0, <3>2, <3>3
  <2> QED BY <2>1, <2>2, <2>3, AppliedStep
<1> QED BY <1>1, <1>2, <1>3, <1>4 DEF OrderInv, DownInv, AheadInv, OrderedUnlessLate

-----------------------------------------------------------------------------
\* A request at the end of a log.
LEMMA PutAppended ==
  ASSUME NEW log \in Seq(Request), NEW q \in Request, NEW c, NEW v
  PROVE  /\ PutIn(log, c) => PutIn(Append(log, q), c)
         /\ IsPut(q, c) => PutIn(Append(log, q), c)
         /\ IsPut(q, v) \/ (q.op # "put" /\ LastPut(log, v)) => LastPut(Append(log, q), v)
         /\ Reads(log, c, v) /\ ~ IsPut(q, c) => Reads(Append(log, q), c, v)
<1>1. PICK new : new = Append(log, q)
  OBVIOUS
<1>2. PICK n \in Nat : n = Len(log)
  OBVIOUS
<1>3. /\ Len(new) = n + 1 /\ new[n + 1] = q
      /\ \A i \in 1 .. n : new[i] = log[i]
  BY <1>1, <1>2
<1>4. /\ PutIn(log, c) => PutIn(new, c)
      /\ IsPut(q, c) => PutIn(new, c)
  BY <1>2, <1>3 DEF PutIn
<1>5. IsPut(q, v) => LastPut(new, v)
  BY <1>2, <1>3 DEF LastPut, IsPut
<1>6. ASSUME q.op # "put", LastPut(log, v) PROVE LastPut(new, v)
  BY <1>2, <1>3, <1>6 DEF LastPut, IsPut
<1>7. ASSUME Reads(log, c, v), ~ IsPut(q, c) PROVE Reads(new, c, v)
  <2>1. PICK i \in 1 .. n : IsPut(log[i], v) /\ \A j \in 1 .. n : IsPut(log[j], c) => j <= i
    BY <1>2, <1>7 DEF Reads
  <2>2. i \in 1 .. n + 1 /\ IsPut(new[i], v)
    BY <1>3, <2>1
  <2>3. ASSUME NEW j \in 1 .. n + 1, IsPut(new[j], c) PROVE j <= i
    BY <1>2, <1>3, <1>7, <2>1, <2>3
  <2> QED BY <1>3, <1>4, <1>7, <2>2, <2>3 DEF Reads
<1> QED BY <1>1, <1>4, <1>5, <1>6, <1>7

\* What a step does to the log and the map of a replica.
LEMMA LogStep ==
  ASSUME Typed, [Next]_vars, NEW r \in Replicas
  PROVE  \/ applied'[r] = applied[r] /\ kvmap'[r] = kvmap[r] /\ up'[r] = up[r]
         \/ ~ up'[r]
         \/ /\ up[r]
            /\ \E a \in Clients :
                 /\ applied'[r] = Append(applied[r], RequestOf(a))
                 /\ RequestOf(a) \in Request /\ pc' = pc
                 /\ \/ pc[a] = "put" /\ kvmap'[r] = a
                    \/ pc[a] = "get" /\ kvmap'[r] = kvmap[r]
<1>0. /\ applied \in [Replicas -> Seq(Request)] /\ call \in [Clients -> Calls]
      /\ up \in [Replicas -> BOOLEAN]
      /\ kvmap \in [Replicas -> Clients \cup {NoValue}]
  BY DEF Typed
<1>1. ASSUME NEW a \in Clients, pc[a] \in {"put", "get"} PROVE RequestOf(a) \in Request
  BY <1>0, <1>1 DEF RequestOf, Request, Calls
<1>2. ASSUME NEW a \in Clients, NEW s \in Replicas, ApplyPut(a, s)
      PROVE  \/ applied'[r] = applied[r] /\ kvmap'[r] = kvmap[r] /\ up'[r] = up[r]
             \/ /\ up[r] /\ applied'[r] = Append(applied[r], RequestOf(a))
                /\ pc' = pc /\ pc[a] = "put" /\ kvmap'[r] = a
  BY <1>0, <1>2 DEF ApplyPut, Serving
<1>3. ASSUME NEW a \in Clients, NEW s \in Replicas, ApplyGet(a, s)
      PROVE  \/ applied'[r] = applied[r] /\ kvmap'[r] = kvmap[r] /\ up'[r] = up[r]
             \/ /\ up[r] /\ applied'[r] = Append(applied[r], RequestOf(a))
                /\ pc' = pc /\ pc[a] = "get" /\ kvmap'[r] = kvmap[r]
  BY <1>0, <1>3 DEF ApplyGet, Serving, server
<1>4. ASSUME NEW c \in Clients, Main(c) \/ Updater(c) PROVE UNCHANGED <<applied, kvmap, up>>
  BY <1>4 DEF Main, Updater, Dial, Issue, CallFails, UpdTick, ClockUpdate, server, history
<1>5. ASSUME NEW c \in Clients, NEW s \in Replicas,
             \/ Register(c, s) \/ returnWhenStable(c, s) \/ Answer(c, s)
             \/ DisconnectAt(c, s)
      PROVE  UNCHANGED <<applied, kvmap, up>>
  BY <1>5 DEF Register, returnWhenStable, Answer, DisconnectAt, server, history
<1>6. ASSUME NEW s \in Replicas, Crash(s)
      PROVE  \/ applied'[r] = applied[r] /\ kvmap'[r] = kvmap[r] /\ up'[r] = up[r]
             \/ ~ up'[r]
  BY <1>0, <1>6 DEF Crash
<1>7. CASE UNCHANGED vars
  BY <1>7 DEF vars, server, history
<1> QED BY <1>1, <1>2, <1>3, <1>4, <1>5, <1>6, <1>7 DEF Next, Serve

\* What was in the log of a replica that is up stays there.
LEMMA PutKept ==
  ASSUME Typed, [Next]_vars, NEW r \in Replicas, NEW c \in Clients, up'[r],
         PutIn(applied[r], c)
  PROVE  PutIn(applied'[r], c)
<1>1. applied[r] \in Seq(Request)
  BY DEF Typed
<1> QED BY <1>1, LogStep, PutAppended

\* A Put goes past a replica that is up only when it was applied there.
LEMMA PutAtStep ==
  ASSUME Typed, CallInv, WriteInv, [Next]_vars, NEW r \in Replicas, NEW c \in Clients,
         up'[r], PutAt(r, c)'
  PROVE  PutIn(applied'[r], c)
<1>0. /\ call \in [Clients -> Calls] /\ pc \in [Clients -> Phases]
      /\ applied[r] \in Seq(Request)
      /\ call[c].at \in Nat /\ r \in Nat /\ r >= 1 /\ call[c].at >= 1
      /\ r <= numReplicas
  <2>1. call[c].at \in Replicas
    BY DEF Typed, Calls
  <2> QED BY <2>1, ReplicaFacts DEF Typed
<1>1. ASSUME up[r], PutAt(r, c) PROVE PutIn(applied'[r], c)
  <2>1. PutIn(applied[r], c)
    BY <1>1 DEF WriteInv
  <2> QED BY <2>1, PutKept
<1>2. ASSUME pc'[c] = pc[c], call'[c] = call[c], up[r] PROVE PutIn(applied'[r], c)
  BY <1>1, <1>2 DEF PutAt, Active
<1>3. ASSUME NEW ok \in BOOLEAN, Active(c), Return(c, ok), up[r],
             pc[c] = "put" /\ r = call[c].at => call[c].stage = "applied"
      PROVE  PutIn(applied'[r], c)
  <2>1. GoesOn(c) \/ Ends(c)
    BY <1>3, ReturnEffect DEF CallInv, Running
  <2>2. CASE GoesOn(c)
    <3>1. pc' = pc /\ call'[c].at = call[c].at + 1 /\ call'[c].stage = "sent"
      BY <1>0, <2>2 DEF GoesOn
    <3>2. pc[c] = "get" \/ (pc[c] = "put" /\ r <= call[c].at)
      BY <1>0, <3>1 DEF PutAt, Active
    <3>3. PutAt(r, c)
      BY <1>0, <1>3, <3>2 DEF PutAt
    <3> QED BY <1>1, <1>3, <3>3
  <2>3. CASE Ends(c)
    <3>1. ~ Active(c)' /\ (pc'[c] = "get" => pc[c] = "put" /\ call[c].at = numReplicas)
      BY <1>0, <2>3 DEF Ends, NoCall, Active
    <3>2. pc[c] = "put" /\ r <= call[c].at
      BY <1>0, <3>1 DEF PutAt
    <3>3. PutAt(r, c)
      BY <1>0, <1>3, <3>2 DEF PutAt
    <3> QED BY <1>1, <1>3, <3>3
  <2> QED BY <2>1, <2>2, <2>3
<1>4. ASSUME NEW s \in Replicas, Register(c, s) \/ returnWhenStable(c, s) PROVE PutIn(applied'[r], c)
  <2>1. /\ pc' = pc /\ up' = up /\ Active(c)
        /\ \E stage \in {"waiting", "stable"} : Proceed(c, stage)
    BY <1>4 DEF Register, returnWhenStable, Serving, Active, server
  <2>2. call'[c].at = call[c].at /\ call'[c].stage \in {"waiting", "stable"}
    BY <1>0, <2>1 DEF Proceed, Calls
  <2>3. PutAt(r, c)
    BY <2>1, <2>2 DEF PutAt
  <2> QED BY <1>1, <2>1, <2>3
<1>5. ASSUME NEW s \in Replicas, ApplyPut(c, s) PROVE PutIn(applied'[r], c)
  <2>1. /\ pc[c] = "put" /\ pc' = pc /\ up' = up /\ Active(c) /\ call[c].at = s
        /\ Proceed(c, "applied")
        /\ applied' = [applied EXCEPT ![s] = Append(@, RequestOf(c))]
    BY <1>5 DEF ApplyPut, Serving, Active
  <2>2. CASE r = s
    <3>1. applied'[r] = Append(applied[r], RequestOf(c))
      BY <2>1, <2>2 DEF Typed
    <3>2. RequestOf(c) \in Request /\ IsPut(RequestOf(c), c)
      BY <1>0, <2>1 DEF RequestOf, Request, Calls, IsPut
    <3> QED BY <1>0, <3>1, <3>2, PutAppended
  <2>3. CASE r # s
    <3>1. call'[c].at = call[c].at
      BY <1>0, <2>1 DEF Proceed, Calls
    <3>2. PutAt(r, c)
      BY <2>1, <2>3, <3>1 DEF PutAt
    <3> QED BY <1>1, <2>1, <3>2
  <2> QED BY <2>2, <2>3
<1>6. ASSUME NEW s \in Replicas, ApplyGet(c, s) PROVE PutIn(applied'[r], c)
  <2>1. pc[c] = "get" /\ up' = up
    BY <1>6 DEF ApplyGet, Serving, server
  <2> QED BY <1>1, <2>1 DEF PutAt
<1>7. ASSUME NEW s \in Replicas, Answer(c, s) PROVE PutIn(applied'[r], c)
  BY <1>3, <1>7 DEF Answer, Serving, Active
<1>8. ASSUME NEW s \in Replicas, DisconnectAt(c, s) PROVE PutIn(applied'[r], c)
  BY <1>3, <1>8 DEF DisconnectAt, Serving, Active
<1>9. CASE CallFails(c)
  BY <1>3, <1>9 DEF CallFails, Active, server
<1>10. CASE Issue(c)
  <2>1. /\ pc' = pc /\ up' = up /\ call'[c].at = 1 /\ call'[c].stage = "sent"
    BY <1>0, <1>10 DEF Issue, server
  <2>2. pc[c] = "get"
    BY <1>0, <2>1 DEF PutAt
  <2> QED BY <1>1, <2>1, <2>2 DEF PutAt
<1>11. ~ Dial(c)
  <2>1. ASSUME Dial(c) PROVE FALSE
    <3>1. ~ Active(c) /\ call' = call /\ pc'[c] # "get"
      BY <1>0, <2>1 DEF Dial, CallInv, Running
    <3> QED BY <3>1 DEF PutAt, Active
  <2> QED BY <2>1
<1>12. CASE Updater(c)
  BY <1>2, <1>12 DEF Updater, UpdTick, ClockUpdate, server
<1>13. ASSUME NEW d \in Clients \ {c}, Serve(d) \/ Main(d) \/ Updater(d)
       PROVE  PutIn(applied'[r], c)
  BY <1>2, <1>13, OthersKept DEF Others
<1>14. ASSUME NEW s \in Replicas, Crash(s) PROVE PutIn(applied'[r], c)
  <2>1. up[r]
    BY <1>14 DEF Crash, Typed
  <2> QED BY <1>2, <1>14, <2>1 DEF Crash, client
<1>15. CASE UNCHANGED vars
  BY <1>2, <1>15 DEF vars, server, client
<1>16. ASSUME Serve(c) PROVE PutIn(applied'[r], c)
  BY <1>4, <1>5, <1>6, <1>7, <1>8, <1>16 DEF Serve
<1>17. ASSUME Main(c) PROVE PutIn(applied'[r], c)
  BY <1>9, <1>10, <1>11, <1>17 DEF Main
<1> QED BY <1>12, <1>13, <1>14, <1>15, <1>16, <1>17 DEF Next

\* A client never goes back to its Put.
LEMMA PutOnce ==
  ASSUME Typed, CallInv, [Next]_vars, NEW c \in Clients, pc[c] \notin {"dial", "put"}
  PROVE  pc'[c] \notin {"dial", "put"}
<1>0. pc \in [Clients -> Phases]
  BY DEF Typed
<1>1. ASSUME NEW ok \in BOOLEAN, Active(c), Return(c, ok) PROVE pc'[c] \notin {"dial", "put"}
  <2>1. GoesOn(c) \/ Ends(c)
    BY <1>1, ReturnEffect DEF CallInv, Running
  <2> QED BY <1>0, <2>1 DEF GoesOn, Ends
<1>2. ASSUME NEW r \in Replicas, Answer(c, r) \/ DisconnectAt(c, r)
      PROVE  pc'[c] \notin {"dial", "put"}
  BY <1>1, <1>2 DEF Answer, DisconnectAt, Serving, Active
<1>3. ASSUME NEW r \in Replicas,
             Register(c, r) \/ returnWhenStable(c, r) \/ ApplyPut(c, r) \/ ApplyGet(c, r)
      PROVE  pc' = pc
  BY <1>3 DEF Register, returnWhenStable, ApplyPut, ApplyGet
<1>4. CASE CallFails(c)
  BY <1>1, <1>4 DEF CallFails, Active
<1>5. CASE Issue(c) \/ Updater(c)
  BY <1>5 DEF Issue, Updater, UpdTick, ClockUpdate
<1>6. ~ Dial(c)
  BY DEF Dial
<1>7. ASSUME NEW d \in Clients \ {c}, Serve(d) \/ Main(d) \/ Updater(d)
      PROVE  pc'[c] = pc[c]
  BY <1>7, OthersKept DEF Others
<1>8. ASSUME NEW r \in Replicas, Crash(r) PROVE pc' = pc
  BY <1>8 DEF Crash, client
<1>9. CASE UNCHANGED vars
  BY <1>9 DEF vars, client
<1> QED BY <1>2, <1>3, <1>4, <1>5, <1>6, <1>7, <1>8, <1>9 DEF Next, Serve, Main

\* Every step keeps what was written and read.
LEMMA WriteStep ==
  ASSUME Typed, CallInv, WriteInv, [Next]_vars
  PROVE  WriteInv'
<1>0. /\ \A r \in Replicas : applied[r] \in Seq(Request)
      /\ \A c \in Clients : got[c].from \in Replicas \cup {0}
      /\ got \in [Clients -> [from : Replicas \cup {0}, value : Clients \cup {NoValue}]]
  BY DEF Typed
<1>1. ASSUME NEW r \in Replicas, up'[r] PROVE LastPut(applied'[r], kvmap'[r])
  <2>1. up[r]
    BY <1>1, LogStep
  <2>2. LastPut(applied[r], kvmap[r])
    BY <2>1 DEF WriteInv
  <2>3. ASSUME NEW a \in Clients, RequestOf(a) \in Request,
               applied'[r] = Append(applied[r], RequestOf(a)),
               \/ pc[a] = "put" /\ kvmap'[r] = a
               \/ pc[a] = "get" /\ kvmap'[r] = kvmap[r]
        PROVE  LastPut(applied'[r], kvmap'[r])
    <3>1. \/ IsPut(RequestOf(a), kvmap'[r])
          \/ RequestOf(a).op # "put" /\ LastPut(applied[r], kvmap'[r])
      BY <2>2, <2>3 DEF RequestOf, IsPut
    <3> QED BY <1>0, <2>3, <3>1, PutAppended
  <2> QED BY <1>1, <2>2, <2>3, LogStep
<1>2. ASSUME NEW r \in Replicas, up'[r], NEW c \in Clients, PutAt(r, c)'
      PROVE  PutIn(applied'[r], c)
  BY <1>2, PutAtStep
<1>3. ASSUME NEW c \in Clients, NEW r \in Replicas, up'[r], NEW v,
             Reads(applied[r], c, v), pc[c] # "put"
      PROVE  Reads(applied'[r], c, v)
  <2>1. ASSUME NEW a \in Clients, RequestOf(a) \in Request,
               applied'[r] = Append(applied[r], RequestOf(a))
        PROVE  Reads(applied'[r], c, v)
    <3>1. ~ IsPut(RequestOf(a), c)
      BY <1>3 DEF RequestOf, IsPut
    <3> QED BY <1>0, <1>3, <2>1, <3>1, PutAppended
  <2> QED BY <1>3, <2>1, LogStep
<1>4. ASSUME NEW c \in Clients, NEW r \in Replicas, ApplyGet(c, r)
      PROVE  /\ got'[c].from = r /\ pc[c] = "get"
             /\ Reads(applied[r], c, got'[c].value)
             /\ \A d \in Clients \ {c} : got'[d] = got[d]
  <2>1. /\ pc[c] = "get" /\ up[r]
        /\ got' = [got EXCEPT ![c] = [from |-> r, value |-> kvmap[r]]]
    BY <1>4 DEF ApplyGet, Serving
  <2>2. PutIn(applied[r], c) /\ LastPut(applied[r], kvmap[r])
    BY <2>1 DEF WriteInv, PutAt
  <2>3. Reads(applied[r], c, kvmap[r])
    BY <2>2 DEF PutIn, LastPut, Reads, IsPut
  <2> QED BY <1>0, <2>1, <2>3
<1>5. \/ got' = got
      \/ \E c \in Clients, r \in Replicas : ApplyGet(c, r)
  <2>1. ASSUME NEW c \in Clients, Main(c) \/ Updater(c) PROVE got' = got
    BY <2>1 DEF Main, Updater, Dial, Issue, CallFails, UpdTick, ClockUpdate, history
  <2>2. ASSUME NEW c \in Clients, NEW r \in Replicas,
               \/ Register(c, r) \/ returnWhenStable(c, r) \/ ApplyPut(c, r)
               \/ Answer(c, r) \/ DisconnectAt(c, r)
        PROVE  got' = got
    BY <2>2 DEF Register, returnWhenStable, ApplyPut, Answer, DisconnectAt, history
  <2>3. ASSUME NEW r \in Replicas, Crash(r) PROVE got' = got
    BY <2>3 DEF Crash
  <2>4. CASE UNCHANGED vars
    BY <2>4 DEF vars, history
  <2> QED BY <2>1, <2>2, <2>3, <2>4 DEF Next, Serve
<1>6. ASSUME NEW c \in Clients, got'[c].from # 0
      PROVE  /\ pc'[c] \notin {"dial", "put"}
             /\ up'[got'[c].from] => Reads(applied'[got'[c].from], c, got'[c].value)
  <2>1. ASSUME NEW r \in Replicas, NEW v, pc[c] \notin {"dial", "put"},
               got'[c].from = r, got'[c].value = v, up[r] => Reads(applied[r], c, v)
        PROVE  /\ pc'[c] \notin {"dial", "put"}
               /\ up'[got'[c].from] => Reads(applied'[got'[c].from], c, got'[c].value)
    <3>1. pc'[c] \notin {"dial", "put"}
      BY <2>1, PutOnce
    <3>2. up'[r] => up[r]
      BY LogStep
    <3>3. up'[r] => Reads(applied'[r], c, v)
      BY <1>3, <2>1, <3>2
    <3> QED BY <2>1, <3>1, <3>3
  <2>2. CASE got'[c] = got[c]
    <3>1. got[c].from \in Replicas
      BY <1>0, <1>6, <2>2
    <3> QED BY <1>6, <2>1, <2>2, <3>1 DEF WriteInv
  <2>3. ASSUME NEW r \in Replicas, ApplyGet(c, r)
        PROVE  /\ pc'[c] \notin {"dial", "put"}
               /\ up'[got'[c].from] => Reads(applied'[got'[c].from], c, got'[c].value)
    BY <1>4, <2>1, <2>3
  <2> QED BY <1>4, <1>5, <2>2, <2>3
<1> QED BY <1>1, <1>2, <1>6 DEF WriteInv

-----------------------------------------------------------------------------
\* The inductive invariant.
KVInv == Types /\ OrderInv /\ WriteInv

LEMMA InitInv == Init => KVInv
<1> SUFFICES ASSUME Init PROVE KVInv
  OBVIOUS
<1>1. 1 \in Replicas /\ numReplicas \in Nat
  BY ReplicaFacts
<1>2. Typed
  BY <1>1 DEF Init, Typed, Infos, Phases, Calls, Updates, NoInfo, NoCall, NoUpd, NoValue
<1>3. CallInv
  BY DEF Init, CallInv, Active, Running, NoCall, NoUpd
<1>4. ClockInv
  BY DEF Init, ClockInv, ClockAt, Info, NoInfo, Running
<1>5. SeenInv
  BY DEF Init, SeenInv, SeenAt, Handled, InMap, Info, NoInfo, NoCall
<1>6. OrderInv
  BY DEF Init, OrderInv, DownInv, AheadInv, OrderedUnlessLate, Stable, NoCall
<1>7. WriteInv
  BY DEF Init, WriteInv, LastPut, PutAt, Active
<1> QED BY <1>2, <1>3, <1>4, <1>5, <1>6, <1>7 DEF KVInv, Types

LEMMA NextInv == KVInv /\ [Next]_vars => KVInv'
<1> SUFFICES ASSUME Typed, CallInv, ClockInv, SeenInv, OrderInv, WriteInv, [Next]_vars
             PROVE  KVInv'
  BY DEF KVInv, Types
<1>1. Typed' /\ CallInv'
  BY TypeStep
<1>2. ClockInv' /\ SeenInv'
  BY ClockStep, SeenStep
<1>3. OrderInv'
  BY <1>1, OrderStep
<1>4. WriteInv'
  BY WriteStep
<1> QED BY <1>1, <1>2, <1>3, <1>4 DEF KVInv, Types

LEMMA Invariance == Spec => []KVInv
<1> QED BY InitInv, NextInv, PTL DEF Spec

\* Every variable has its type; no index of a replica in the client library
\* leaves the list of addresses.
THEOREM KVTyping == Spec => []TypeOK
<1>1. KVInv => TypeOK
  BY DEF KVInv, Types, Typed, TypeOK, Infos, Phases, Calls, Updates
<1> QED BY <1>1, Invariance, PTL

\* Every replica applies the requests in the order of their clocks and clients,
\* except for those that an update of their own client has overtaken: what
\* returnWhenStable lets pass goes before everything that may still come.
THEOREM KVOrder == Spec => []OrderedUnlessLate
<1>1. KVInv => OrderedUnlessLate
  BY DEF KVInv, OrderInv
<1> QED BY <1>1, Invariance, PTL

\* A Get answers with its client's own Put or with one applied after it, on
\* whatever replica, as long as it is up: Put goes on to every replica and Get
\* starts when it has been to all.
THEOREM KVReads == Spec => []ReadsOwnWrite
<1>1. KVInv => ReadsOwnWrite
  <2> SUFFICES ASSUME KVInv, NEW c \in Clients, got[c].from # 0, up[got[c].from]
               PROVE  LET log == applied[got[c].from]
                          own == {i \in 1 .. Len(log) :
                                    log[i].op = "put" /\ log[i].Clientid = c}
                      IN  own # {} /\ \E i \in 1 .. Len(log) :
                            /\ log[i].op = "put" /\ log[i].Clientid = got[c].value
                            /\ \A j \in own : j <= i
    BY Zenon DEF ReadsOwnWrite
  <2>1. Reads(applied[got[c].from], c, got[c].value)
    BY DEF KVInv, WriteInv
  <2> QED BY <2>1 DEF Reads, PutIn, IsPut
<1> QED BY <1>1, Invariance, PTL

=============================================================================
