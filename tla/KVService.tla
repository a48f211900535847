----------------------------- MODULE KVService -----------------------------
(***************************************************************************)
(* The key-value service of src/structured/rsm: replicas that serve the    *)
(* requests of numClients clients in the order of the clients' Lamport     *)
(* clocks (kvservicemain.go), the client library that calls one replica    *)
(* after the other (kvlib.go) and a client that puts, gets and disconnects *)
(* (kvclientmain.go).  Every RPC is handled by a goroutine of its own, so  *)
(* a clock update and a request of the same client may overtake each       *)
(* other.  One key is modelled; a value is the client that wrote it.       *)
(***************************************************************************)
EXTENDS Integers, Sequences

CONSTANTS
  numClients,       \* unique clients the service expects
  numReplicas,      \* addresses every client is given
  Readers,          \* the clients that Get before they disconnect
  MaxPutClock,      \* bound: the largest clock of a Put
  MayStop           \* bound: the replicas that may stop

Clients  == 1 .. numClients
Replicas == 1 .. numReplicas
NoValue  == 0

ASSUME KVAssumption ==
  /\ numClients \in Nat \ {0} /\ numReplicas \in Nat \ {0}
  /\ Readers \subseteq Clients
  /\ MaxPutClock \in Nat \ {0} /\ MayStop \subseteq Replicas

VARIABLES
  clientinfomap,    \* per replica and client: Clock (0: no entry), Alive, LastReq
  kvmap,            \* per replica: the value of the key
  up,               \* per replica: it runs
  pc,               \* per client: the API call its main is in
  Clock,            \* per client: KVService.Clock
  call,             \* per client: the RPC of that call: replica, clock, progress
  num_errors,       \* per client: replicas that failed during a Put
  upd,              \* per client: the clockUpdate goroutine
  applied,          \* history, per replica: requests in the order of their effect
  late,             \* history, per replica: requests that arrived after a larger
                    \* clock of their own client
  got               \* history, per client: what Get returned and from where

server  == <<clientinfomap, kvmap, up>>
client  == <<pc, Clock, call, num_errors, upd>>
history == <<applied, late, got>>
vars    == <<server, client, history>>

Request == [op : {"put", "get"}, Clientid : Clients, Clock : Nat]
RequestOf(c) == [op |-> pc[c], Clientid |-> c, Clock |-> call[c].Clock]

\* The order the service promises: by clock, ties by client id.
Earlier(q, s) ==
  \/ q.Clock < s.Clock
  \/ q.Clock = s.Clock /\ q.Clientid < s.Clientid

NoInfo == [Clock |-> 0, Alive |-> FALSE, LastReq |-> 0]
NoCall == [at |-> 1, Clock |-> 0, stage |-> "idle"]
NoUpd  == [at |-> 1, Clock |-> 0, stage |-> "idle"]

Init ==
  /\ clientinfomap = [r \in Replicas |-> [c \in Clients |-> NoInfo]]
  /\ kvmap = [r \in Replicas |-> NoValue]
  /\ up = [r \in Replicas |-> TRUE]
  /\ pc = [c \in Clients |-> "dial"]
  /\ Clock = [c \in Clients |-> 0]
  /\ call = [c \in Clients |-> NoCall]
  /\ num_errors = [c \in Clients |-> 0]
  /\ upd = [c \in Clients |-> NoUpd]
  /\ applied = [r \in Replicas |-> <<>>] /\ late = [r \in Replicas |-> {}]
  /\ got = [c \in Clients |-> [from |-> 0, value |-> NoValue]]

-----------------------------------------------------------------------------
(***************************************************************************)
(* The service.                                                            *)
(***************************************************************************)
InMap(r, c) == clientinfomap[r][c].Clock # 0

updateAddClientClock(info, k) ==
  IF info.Clock = 0 THEN [Clock |-> k, Alive |-> TRUE, LastReq |-> 0]
  ELSE [info EXCEPT !.Clock = k]

addClientRequestInfo(info, k) == [info EXCEPT !.LastReq = k]

deleteClientRequestInfo(info) == [info EXCEPT !.LastReq = 0]

\* Mutant: two requests with the same clock are both first.
check_stability_NoTies(r, c, k) ==
  /\ \A d \in Clients : InMap(r, d)
  /\ \A d \in Clients \ {c} :
       LET info == clientinfomap[r][d]
       IN  info.Alive => info.Clock >= k /\ (info.LastReq = 0 \/ info.LastReq >= k)

\* Mutant: clients that have gone are waited for.
check_stability_Dead(r, c, k) ==
  \A d \in Clients :
    LET info == clientinfomap[r][d]
    IN  /\ InMap(r, d)
        /\ d # c => info.Clock > k /\ info.LastReq = 0

\* Every client is known, and every other client that is not known to be gone
\* has a larger clock and no request that goes first.
check_stability(r, c, k) ==
  /\ \A d \in Clients : InMap(r, d)
  /\ \A d \in Clients \ {c} :
       LET info == clientinfomap[r][d]
       IN  info.Alive =>
             /\ info.Clock > k
             /\ info.LastReq = 0 \/ info.LastReq >= k
             /\ ~ (info.LastReq = k /\ d < c)

\* The call of c is at replica r, which is alive, at the given point.
Serving(c, r, ops, stage) ==
  pc[c] \in ops /\ call[c].at = r /\ call[c].stage = stage /\ up[r]

Proceed(c, stage) == call' = [call EXCEPT ![c].stage = stage]

\* A Get or Put arrives: the client's clock and its pending request.
Register(c, r) ==
  /\ Serving(c, r, {"put", "get"}, "sent")
  /\ LET k == call[c].Clock
     IN  /\ clientinfomap' = [clientinfomap EXCEPT ![r][c] =
                                addClientRequestInfo(updateAddClientClock(@, k), k)]
         /\ late' = IF clientinfomap[r][c].Clock > k
                    THEN [late EXCEPT ![r] = @ \cup {RequestOf(c)}] ELSE late
  /\ Proceed(c, "waiting")
  /\ UNCHANGED <<kvmap, up, pc, Clock, num_errors, upd, applied, got>>

\* A tick of returnWhenStable that finds the request stable; one that does not
\* changes nothing.
returnWhenStable(c, r) ==
  /\ Serving(c, r, {"put", "get"}, "waiting")
  /\ check_stability(r, c, call[c].Clock)
  /\ Proceed(c, "stable")
  /\ UNCHANGED <<server, pc, Clock, num_errors, upd, history>>

\* Under kvMux, after cliMux was given back.
ApplyPut(c, r) ==
  /\ Serving(c, r, {"put"}, "stable")
  /\ kvmap' = [kvmap EXCEPT ![r] = c]
  /\ applied' = [applied EXCEPT ![r] = Append(@, RequestOf(c))]
  /\ Proceed(c, "applied")
  /\ UNCHANGED <<clientinfomap, up, pc, Clock, num_errors, upd, late, got>>

ApplyGet(c, r) ==
  /\ Serving(c, r, {"get"}, "stable")
  /\ got' = [got EXCEPT ![c] = [from |-> r, value |-> kvmap[r]]]
  /\ applied' = [applied EXCEPT ![r] = Append(@, RequestOf(c))]
  /\ Proceed(c, "applied")
  /\ UNCHANGED <<server, pc, Clock, num_errors, upd, late>>

-----------------------------------------------------------------------------
(***************************************************************************)
(* The client library and the main of the client.                          *)
(***************************************************************************)
NextReplica(c) ==
  /\ call' = [call EXCEPT ![c].at = @ + 1, ![c].stage = "sent"]
  /\ UNCHANGED <<pc, Clock, upd>>

\* After the last call the process exits; only an update may be under way.
EndCall(c, next) ==
  /\ pc' = [pc EXCEPT ![c] = next]
  /\ call' = [call EXCEPT ![c] = NoCall]
  /\ IF next \in {"done", "failed"}
     THEN /\ Clock' = [Clock EXCEPT ![c] = 0]
          /\ upd' = IF upd[c].stage = "sent" THEN upd ELSE [upd EXCEPT ![c] = NoUpd]
     ELSE UNCHANGED <<Clock, upd>>

AfterPut(c) == IF c \in Readers THEN "get" ELSE "disconnect"

\* Mutant: a Put ends with the first replica that takes it.
Return_FirstPut(c, ok) ==
  LET last == call[c].at = numReplicas
      errs == num_errors[c] + (IF ok THEN 0 ELSE 1)
  IN  \/ /\ pc[c] = "put"
         /\ num_errors' = [num_errors EXCEPT ![c] = IF last THEN 0 ELSE errs]
         /\ IF ok \/ last THEN EndCall(c, IF errs = numReplicas THEN "failed" ELSE AfterPut(c))
                          ELSE NextReplica(c)
      \/ /\ pc[c] # "put"
         /\ IF last THEN EndCall(c, IF pc[c] = "get" THEN "disconnect" ELSE "done")
                    ELSE NextReplica(c)
         /\ UNCHANGED num_errors

\* The RPC of c returns, with or without an error: a Put and a Disconnect go on
\* to the next replica, a Get only after an error.
Return(c, ok) ==
  LET last == call[c].at = numReplicas
      errs == num_errors[c] + (IF ok THEN 0 ELSE 1)
  IN  \/ /\ pc[c] = "put"
         /\ num_errors' = [num_errors EXCEPT ![c] = IF last THEN 0 ELSE errs]
         /\ IF last THEN EndCall(c, IF errs = numReplicas THEN "failed" ELSE AfterPut(c))
                    ELSE NextReplica(c)
      \/ /\ pc[c] = "get"
         /\ IF ok \/ last THEN EndCall(c, IF ok THEN "disconnect" ELSE "failed")
                          ELSE NextReplica(c)
         /\ UNCHANGED num_errors
      \/ /\ pc[c] = "disconnect"
         /\ IF last THEN EndCall(c, IF ok THEN "done" ELSE "failed")
                    ELSE NextReplica(c)
         /\ UNCHANGED num_errors

\* The handler forgets the request and answers.
Answer(c, r) ==
  /\ Serving(c, r, {"put", "get"}, "applied")
  /\ clientinfomap' = [clientinfomap EXCEPT ![r][c] = deleteClientRequestInfo(@)]
  /\ Return(c, TRUE)
  /\ UNCHANGED <<kvmap, up, history>>

DisconnectAt(c, r) ==
  /\ Serving(c, r, {"disconnect"}, "sent")
  /\ clientinfomap' = IF InMap(r, c)
                      THEN [clientinfomap EXCEPT ![r][c].Alive = FALSE]
                      ELSE clientinfomap
  /\ Return(c, TRUE)
  /\ UNCHANGED <<kvmap, up, history>>

\* The replica that c has called has stopped, before or after the effect.
CallFails(c) ==
  /\ call[c].stage # "idle"
  /\ ~ up[call[c].at]
  /\ Return(c, FALSE)
  /\ UNCHANGED <<server, history>>

\* Init dials every replica; an address that does not answer ends the client.
Dial(c) ==
  /\ pc[c] = "dial"
  /\ pc' = [pc EXCEPT ![c] = IF \A r \in Replicas : up[r] THEN "put" ELSE "failed"]
  /\ UNCHANGED <<server, Clock, call, num_errors, upd, history>>

\* Get, Put or Disconnect: a new clock, then the first replica.  An update that
\* has ticked but not yet read the clock again, without the mutex, sends the
\* new one.
Issue(c) ==
  /\ pc[c] \in {"put", "get", "disconnect"}
  /\ call[c].stage = "idle"
  /\ Clock' = [Clock EXCEPT ![c] = @ + 1]
  /\ call' = [call EXCEPT ![c] = [at |-> 1, Clock |-> Clock[c] + 1, stage |-> "sent"]]
  /\ \/ UNCHANGED upd
     \/ /\ upd[c] = [at |-> 1, Clock |-> Clock[c], stage |-> "sent"]
        /\ upd' = [upd EXCEPT ![c].Clock = Clock[c] + 1]
  /\ UNCHANGED <<server, pc, num_errors, history>>

-----------------------------------------------------------------------------
(***************************************************************************)
(* The clockUpdate goroutine: one update at a time, for every replica.     *)
(***************************************************************************)
Running(c) == pc[c] \in {"put", "get", "disconnect"}

\* Bound: before the Put the clock may reach MaxPutClock - 1, before the Get
\* one more than every Put; after its last request one tick stands for all that
\* follow, and it repeats as long as a replica is behind.
MaxClock == MaxPutClock + 3

NextTick(c) ==
  LET cap == IF pc[c] = "put" /\ call[c].stage = "idle" THEN MaxPutClock - 1
             ELSE MaxPutClock + 1
      requestsLeft == pc[c] = "put" \/ (pc[c] = "get" /\ call[c].stage = "idle")
  IN  IF ~ requestsLeft THEN MaxClock
      ELSE IF Clock[c] < cap THEN Clock[c] + 1 ELSE Clock[c]

Behind(c) ==
  /\ call[c].stage # "idle"
  /\ \E r \in Replicas : up[r] /\ clientinfomap[r][c].Clock < Clock[c]

UpdTick(c) ==
  /\ Running(c) /\ upd[c].stage = "idle"
  /\ Clock[c] < NextTick(c) \/ Behind(c)
  /\ LET k == IF Clock[c] < NextTick(c) THEN NextTick(c) ELSE Clock[c]
     IN  /\ Clock' = [Clock EXCEPT ![c] = k]
         /\ upd' = [upd EXCEPT ![c] = [at |-> 1, Clock |-> k, stage |-> "sent"]]
  /\ UNCHANGED <<server, pc, call, num_errors, history>>

\* The handler ClockUpdate of one replica, or an error that nobody looks at.
\* An update that is under way when the client exits is the last one.
ClockUpdate(c) ==
  LET r == upd[c].at
  IN  /\ upd[c].stage = "sent"
      /\ clientinfomap' = IF up[r]
                          THEN [clientinfomap EXCEPT ![r][c] =
                                  updateAddClientClock(@, upd[c].Clock)]
                          ELSE clientinfomap
      /\ upd' = [upd EXCEPT ![c] = IF r = numReplicas \/ ~ Running(c) THEN NoUpd
                                   ELSE [upd[c] EXCEPT !.at = r + 1]]
      /\ UNCHANGED <<kvmap, up, pc, Clock, call, num_errors, history>>

-----------------------------------------------------------------------------
\* A replica stops, its memory is lost, and nobody dials it again.
Crash(r) ==
  /\ r \in MayStop /\ up[r]
  /\ up' = [up EXCEPT ![r] = FALSE]
  /\ clientinfomap' = [clientinfomap EXCEPT ![r] = [c \in Clients |-> NoInfo]]
  /\ kvmap' = [kvmap EXCEPT ![r] = NoValue]
  /\ applied' = [applied EXCEPT ![r] = <<>>] /\ late' = [late EXCEPT ![r] = {}]
  /\ UNCHANGED <<client, got>>

Serve(c) ==
  \E r \in Replicas :
    \/ Register(c, r) \/ returnWhenStable(c, r) \/ ApplyPut(c, r)
    \/ ApplyGet(c, r) \/ Answer(c, r) \/ DisconnectAt(c, r)

Main(c) == Dial(c) \/ Issue(c) \/ CallFails(c)

Updater(c) == UpdTick(c) \/ ClockUpdate(c)

Next ==
  \/ \E c \in Clients : Serve(c) \/ Main(c) \/ Updater(c)
  \/ \E r \in Replicas : Crash(r)

Spec == Init /\ [][Next]_vars

(***************************************************************************)
(* Goroutines are scheduled, the ticker of returnWhenStable comes back and *)
(* TCP delivers.                                                           *)
(***************************************************************************)
FairSpec ==
  /\ Spec
  /\ \A c \in Clients :
       WF_vars(Main(c)) /\ WF_vars(Updater(c)) /\ WF_vars(Serve(c))

-----------------------------------------------------------------------------
\* Every variable has its type.
TypeOK ==
  /\ clientinfomap \in [Replicas -> [Clients ->
       [Clock : Nat, Alive : BOOLEAN, LastReq : Nat]]]
  /\ kvmap \in [Replicas -> Clients \cup {NoValue}]
  /\ up \in [Replicas -> BOOLEAN]
  /\ pc \in [Clients -> {"dial", "put", "get", "disconnect", "done", "failed"}]
  /\ Clock \in [Clients -> Nat]
  /\ call \in [Clients -> [at : Replicas, Clock : Nat,
                           stage : {"idle", "sent", "waiting", "stable", "applied"}]]
  /\ num_errors \in [Clients -> 0 .. numReplicas]
  /\ upd \in [Clients -> [at : Replicas, Clock : Nat,
                          stage : {"idle", "sent"}]]
  /\ applied \in [Replicas -> Seq(Request)]
  /\ late \in [Replicas -> SUBSET Request]
  /\ got \in [Clients -> [from : Replicas \cup {0}, value : Clients \cup {NoValue}]]

\* A replica applies requests in the order of their clocks and client ids,
\* but for those that a clock update of their own client has overtaken: a
\* request is found stable only if no earlier one can still arrive in time.
OrderedUnlessLate ==
  \A r \in Replicas : \A j \in 1 .. Len(applied[r]) : \A i \in 1 .. j - 1 :
    Earlier(applied[r][i], applied[r][j]) \/ applied[r][j] \in late[r]

\* A Get that follows a Put of the same client returns that Put or one that the
\* answering replica applied after it, even if replicas stop in between.
ReadsOwnWrite ==
  \A c \in Clients : got[c].from # 0 /\ up[got[c].from] =>
    LET log == applied[got[c].from]
        own == {i \in 1 .. Len(log) : log[i].op = "put" /\ log[i].Clientid = c}
    IN  own # {} /\ \E i \in 1 .. Len(log) :
          /\ log[i].op = "put" /\ log[i].Clientid = got[c].value
          /\ \A j \in own : j <= i

\* If no client fails, every client gets its answers and disconnects.
Served == <>((\A c \in Clients : pc[c] = "done") \/ (\E c \in Clients : pc[c] = "failed"))
=============================================================================
