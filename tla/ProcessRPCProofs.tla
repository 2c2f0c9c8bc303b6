--------------------------- MODULE ProcessRPCProofs ----------------------------
(***************************************************************************)
(* Theorems about ProcessRPC, for any callers, workers, pools and number   *)
(* of instances.                                                           *)
(***************************************************************************)
EXTENDS ProcessRPC, TLAPS

(* A worker is reserved only while its session serves.                     *)
ReservedServes ==
  \A w \in Workers :
    /\ call[w] # None => phase[w] = "serving"
    /\ phase[w] # "absent" => registered[w]

(* A worker is reserved for a call its caller made of it, whose channel is *)
(* empty and, from the look at the session on, on the session it took.     *)
ReservedFor ==
  \A w \in Workers, c \in Callers : call[w] = c =>
    /\ pc[c] \in {"reserved", "writing", "sent", "done"}
    /\ at[c] = w
    /\ channel[c] = "empty"
    /\ pc[c] = "writing" => taken[c] = instance[w]

(* A request in an inbox was written, and its caller looks for its answer. *)
WrittenOnce ==
  /\ \A w \in Workers : \A c \in inbox[w] : pc[c] \in {"sent", "done"}
  /\ \A c \in Callers :
       /\ pc[c] \in {"reserving", "waiting", "reserved", "writing"}
            => written[c] = 0 /\ result[c] = "none"
       /\ pc[c] = "sent" => written[c] = 1 /\ result[c] = "none"

IInv == TypeOK /\ ReservedServes /\ ReservedFor /\ WrittenOnce
          /\ NoLostWakeup /\ CallIsHonest

-----------------------------------------------------------------------------
(* The rotation cursor stays inside its pool.                              *)
LEMMA ModuloBelow ==
  ASSUME NEW a \in Nat, NEW n \in Nat \ {0}
  PROVE  a % n \in Nat /\ a % n < n
  BY SMT

(* A pool is a sequence of workers with at least one.                      *)
LEMMA PoolsAreNonempty ==
  \A p \in Pools : p \in Seq(Workers) /\ Len(p) \in Nat \ {0}
  BY ProcessRPCAssumption DEF Pools

(* Bounds are numbers.                                                     *)
LEMMA BoundsAreNumbers == MaxInstances \in [Workers -> Nat]
  BY ProcessRPCAssumption

(* Pools name workers.                                                     *)
LEMMA PoolMembers ==
  ASSUME NEW c \in Callers
  PROVE  Members(Pool[c]) \subseteq Workers
  BY ProcessRPCAssumption DEF Members

(* The absence of a call is no caller.                                     *)
LEMMA NoneIsNobody == None \notin Callers
  BY ProcessRPCAssumption

(* The initial state satisfies the invariant.                              *)
LEMMA InitInv == Init => IInv
  <1> SUFFICES ASSUME Init PROVE IInv
    OBVIOUS
  <1>1. TypeOK
    BY ProcessRPCAssumption, PoolsAreNonempty DEF Init, TypeOK
  <1>2. QED
    BY <1>1, ProcessRPCAssumption DEF Init, IInv, ReservedServes, ReservedFor, WrittenOnce,
       NoLostWakeup, CallIsHonest

-----------------------------------------------------------------------------
(* What an action must do to keep a part of the invariant.                 *)
ReservationsKept ==
  \A v \in Workers, d \in Callers : call'[v] = d =>
    /\ call[v] = d /\ channel'[d] = channel[d]
    /\ at'[d] = at[d] /\ taken'[d] = taken[d] /\ instance'[v] = instance[v]
    /\ pc'[d] = pc[d] \/ pc'[d] \in {"sent", "done"}

(* Steps that only take reservations away leave the others with their      *)
(* callers.                                                                *)
LEMMA ReservedForKept ==
  ASSUME ReservedFor, ReservationsKept
  PROVE  ReservedFor'
  BY DEF ReservedFor, ReservationsKept

NobodyLeftAsleep ==
  \A d \in Callers : pc'[d] = "waiting" /\ d \notin woken' =>
    /\ pc[d] = "waiting" /\ d \notin woken
    /\ \A v \in Workers : registered'[v] = registered[v] /\ (Idle(v)' => Idle(v))

(* Steps that make no worker idle put nobody to sleep beside an idle       *)
(* worker.                                                                 *)
LEMMA NoLostWakeupKept ==
  ASSUME NoLostWakeup, NobodyLeftAsleep
  PROVE  NoLostWakeup'
  BY PoolMembers DEF NoLostWakeup, NobodyLeftAsleep, Members

(* The steps of the worker's side leave the calls' books alone.            *)
LEMMA BooksKept ==
  ASSUME WrittenOnce, CallIsHonest, UNCHANGED <<pc, written, result>>,
         \A v \in Workers : inbox'[v] \subseteq inbox[v],
         \A d \in Callers : channel'[d] # "blocked"
  PROVE  WrittenOnce' /\ CallIsHonest'
  BY DEF WrittenOnce, CallIsHonest

Domains ==
  /\ \A f \in {registered, instance, phase, call, inbox} : DOMAIN f = Workers
  /\ \A f \in {pc, at, taken, expired, channel, written, result} : DOMAIN f = Callers

(* Types determine the domains of the functions.                           *)
LEMMA TypedDomains == TypeOK => Domains
  BY DEF TypeOK, Domains

(* detach frees the worker, answers its call and signals, or does nothing. *)
LEMMA DetachEffect ==
  ASSUME IInv, NEW w \in Workers, Detach(w)
  PROVE  /\ call' \in [Workers -> Callers \union {None}]
         /\ channel' \in [Callers -> {"empty", "closed", "answer", "blocked"}]
         /\ woken' \subseteq Callers
         /\ call'[w] = None
         /\ \A v \in Workers \ {w} : call'[v] = call[v]
         /\ \A d \in Callers : call[w] # d => channel'[d] = channel[d]
         /\ \A d \in Callers : channel'[d] # "blocked"
         /\ \/ call' = call /\ woken' = woken
            \/ woken' = woken \union {d \in Callers : pc[d] = "waiting"}
  <1>1. /\ call \in [Workers -> Callers \union {None}]
        /\ channel \in [Callers -> {"empty", "closed", "answer", "blocked"}]
        /\ woken \subseteq Callers
        /\ \A d \in Callers : channel[d] # "blocked"
        /\ \A d \in Callers : call[w] = d => channel[d] = "empty"
    BY DEF IInv, TypeOK, CallIsHonest, ReservedFor
  <1>2. CASE phase[w] = "serving" /\ call[w] = None
    BY <1>1, <1>2, NoneIsNobody DEF Detach, Send, Signal
  <1>3. CASE phase[w] = "serving" /\ call[w] # None
    <2>1. channel' = [channel EXCEPT ![call[w]] = "closed"]
      BY <1>1, <1>3 DEF Detach, Send
    <2>2. call' = [call EXCEPT ![w] = None]
          /\ woken' = woken \union {d \in Callers : pc[d] = "waiting"}
      BY <1>3 DEF Detach, Signal
    <2>3. QED
      BY <1>1, <1>3, <2>1, <2>2
  <1>4. CASE phase[w] # "serving"
    BY <1>1, <1>4 DEF Detach, IInv, ReservedServes
  <1>5. QED
    BY <1>2, <1>3, <1>4

(* Release frees the session at most once and then wakes everyone.         *)
LEMMA ReleaseEffect ==
  ASSUME IInv, NEW c \in Callers, at[c] \in Workers, Release(at[c], c)
  PROVE  /\ call' \in [Workers -> Callers \union {None}]
         /\ woken' \subseteq Callers
         /\ \A v \in Workers : call'[v] # c
         /\ \A v \in Workers, d \in Callers : call'[v] = d => call[v] = d
         /\ \/ call' = call /\ woken' = woken
            \/ woken' = woken \union {d \in Callers : pc[d] = "waiting"}
  <1>1. /\ call \in [Workers -> Callers \union {None}] /\ woken \subseteq Callers
        /\ \A v \in Workers : call[v] = c => at[c] = v
        /\ \A v \in Workers : call[v] # None => registered[v]
    BY NoneIsNobody DEF IInv, TypeOK, ReservedFor, ReservedServes
  <1>2. QED
    BY <1>1, NoneIsNobody DEF Release, Signal

-----------------------------------------------------------------------------
(* The lifecycle's steps.                                                  *)
LEMMA LaunchKeeps ==
  ASSUME IInv, NEW w \in Workers, Launch(w)
  PROVE  IInv'
  <1> USE DEF IInv
  <1>1. TypeOK'
    <2>1. /\ instance \in [Workers -> Nat] /\ instance' = [instance EXCEPT ![w] = @ + 1]
          /\ instance[w] < MaxInstances[w]
          /\ \A v \in Workers : instance[v] <= MaxInstances[v]
      BY DEF Launch, TypeOK
    <2>2. instance' \in [Workers -> Nat] /\ \A v \in Workers : instance'[v] <= MaxInstances[v]
      <3>1. instance[w] + 1 <= MaxInstances[w] /\ instance[w] + 1 \in Nat
        <4>1. instance[w] \in Nat /\ MaxInstances[w] \in Nat
          BY <2>1, BoundsAreNumbers
        <4>2. QED
          BY <2>1, <4>1
      <3>2. QED
        BY <2>1, <3>1
    <2>3. QED
      BY <2>2 DEF Launch, callers, TypeOK
  <1>2. ReservedServes'
    BY TypedDomains DEF Domains, Launch, ReservedServes
  <1>3. ReservedFor'
    <2>1. \A d \in Callers : call[w] # d
      BY NoneIsNobody DEF Launch, ReservedServes
    <2>2. ReservationsKept
      BY <2>1, TypedDomains DEF Domains, Launch, callers, ReservationsKept
    <2>3. QED
      BY <2>2, ReservedForKept
  <1>4. NobodyLeftAsleep
    BY TypedDomains DEF Domains, Launch, callers, NobodyLeftAsleep, Idle
  <1>5. WrittenOnce' /\ CallIsHonest'
    BY BooksKept DEF Launch, callers, CallIsHonest
  <1>6. QED
    BY <1>1, <1>2, <1>3, <1>4, <1>5, NoLostWakeupKept

(* A worker that attaches is idle and wakes the waiters.                   *)
LEMMA AttachKeeps ==
  ASSUME IInv, NEW w \in Workers, Attach(w)
  PROVE  IInv'
  <1> USE DEF IInv
  <1>1. TypeOK'
    BY DEF Attach, Signal, callers, TypeOK
  <1>2. ReservedServes'
    BY TypedDomains DEF Domains, Attach, ReservedServes
  <1>3. ReservationsKept
    BY DEF Attach, callers, ReservationsKept
  <1>4. NobodyLeftAsleep
    BY DEF Attach, Signal, callers, NobodyLeftAsleep
  <1>5. WrittenOnce' /\ CallIsHonest'
    BY BooksKept DEF Attach, callers, CallIsHonest
  <1>6. QED
    BY <1>1, <1>2, <1>3, <1>4, <1>5, ReservedForKept, NoLostWakeupKept

(* What closing or failing a session keeps, by the effect of its detach.   *)
LEMMA DetachKeeps ==
  ASSUME IInv, NEW w \in Workers, Detach(w),
         registered' = registered, instance' = instance, at' = at, taken' = taken,
         phase'[w] = "absent" \/ (phase'[w] = "failed" /\ phase[w] # "absent"),
         \A v \in Workers \ {w} : phase'[v] = phase[v],
         \A d \in Callers : pc'[d] = "waiting" => pc[d] = "waiting",
         \A v \in Workers, d \in Callers : call'[v] = d => pc'[d] = pc[d]
  PROVE  ReservedServes' /\ ReservedFor' /\ NoLostWakeup'
  <1>1. ReservedServes'
    BY DetachEffect, TypedDomains DEF IInv, Domains, ReservedServes
  <1>2. \A v \in Workers, d \in Callers : call'[v] = d =>
          v # w /\ call[v] = d /\ channel'[d] = channel[d] /\ at[d] = v
    BY DetachEffect, NoneIsNobody DEF IInv, ReservedFor
  <1>3. ReservationsKept
    BY <1>2 DEF ReservationsKept
  <1>4. NobodyLeftAsleep
    BY DetachEffect, TypedDomains DEF IInv, Domains, NobodyLeftAsleep, Idle
  <1>5. QED
    BY <1>1, <1>3, <1>4, ReservedForKept, NoLostWakeupKept DEF IInv

(* A session that is closed tells its caller and frees the worker.         *)
LEMMA CloseKeeps ==
  ASSUME IInv, NEW w \in Workers, Close(w)
  PROVE  IInv'
  <1>1. Detach(w)
    BY DEF Close
  <1>2. TypeOK'
    BY <1>1, DetachEffect DEF IInv, TypeOK, Close
  <1>3. ReservedServes' /\ ReservedFor' /\ NoLostWakeup'
    <2>1. /\ phase'[w] = "absent" \/ (phase'[w] = "failed" /\ phase[w] # "absent")
          /\ \A v \in Workers \ {w} : phase'[v] = phase[v]
      BY TypedDomains DEF IInv, Domains, Close
    <2>2. registered' = registered /\ instance' = instance /\ at' = at /\ taken' = taken
          /\ pc' = pc
      BY DEF Close
    <2>3. QED
      BY <1>1, <2>1, <2>2, DetachKeeps
  <1>4. \A v \in Workers : inbox'[v] \subseteq inbox[v]
    BY TypedDomains DEF IInv, Domains, Close
  <1>5. WrittenOnce' /\ CallIsHonest'
    BY <1>1, <1>4, DetachEffect, BooksKept DEF IInv, Close
  <1>6. QED
    BY <1>2, <1>3, <1>5 DEF IInv

(* A malformed message ends the session.                                   *)
LEMMA MalformedKeeps ==
  ASSUME IInv, NEW w \in Workers, Malformed(w)
  PROVE  IInv'
  <1>1. Detach(w) /\ phase' = [phase EXCEPT ![w] = "failed"] /\ phase[w] # "absent"
    BY DEF Malformed, FailSession
  <1>2. TypeOK'
    BY <1>1, DetachEffect DEF IInv, TypeOK, Malformed
  <1>3. ReservedServes' /\ ReservedFor' /\ NoLostWakeup'
    <2>1. phase'[w] = "failed" /\ \A v \in Workers \ {w} : phase'[v] = phase[v]
      BY <1>1, TypedDomains DEF IInv, Domains
    <2>2. registered' = registered /\ instance' = instance /\ at' = at /\ taken' = taken
          /\ pc' = pc
      BY DEF Malformed
    <2>3. QED
      BY <1>1, <2>1, <2>2, DetachKeeps
  <1>4. WrittenOnce' /\ CallIsHonest'
    BY <1>1, DetachEffect, BooksKept DEF IInv, Malformed
  <1>5. QED
    BY <1>2, <1>3, <1>4 DEF IInv

(* A worker that is unregistered is absent, and its last caller is told.   *)
LEMMA ForgetKeeps ==
  ASSUME IInv, NEW w \in Workers, Forget(w)
  PROVE  IInv'
  <1>1. call[w] = None /\ call \in [Workers -> Callers \union {None}]
    BY DEF IInv, TypeOK, ReservedServes, Forget
  <1>2. call' = call /\ channel' = channel
    BY <1>1 DEF Forget, Send
  <1>3. TypeOK'
    BY <1>2 DEF IInv, TypeOK, Forget, Signal
  <1>4. ReservedServes'
    BY <1>2, TypedDomains DEF IInv, Domains, Forget, ReservedServes
  <1>5. ReservationsKept
    BY <1>2 DEF Forget, ReservationsKept
  <1>6. NobodyLeftAsleep
    BY DEF Forget, Signal, NobodyLeftAsleep
  <1>7. WrittenOnce' /\ CallIsHonest'
    BY <1>2, BooksKept DEF IInv, Forget, CallIsHonest
  <1>8. QED
    BY <1>3, <1>4, <1>5, <1>6, <1>7, ReservedForKept, NoLostWakeupKept DEF IInv

(* An answer goes to the caller the worker is reserved for, or ends the    *)
(* session.                                                                *)
LEMMA AnswerKeeps ==
  ASSUME IInv, NEW w \in Workers, NEW c \in Callers, Answer(w, c)
  PROVE  IInv'
  <1>1. \A v \in Workers : inbox'[v] \subseteq inbox[v]
    BY TypedDomains DEF IInv, Domains, Answer
  <1>2. CASE phase[w] = "serving" /\ call[w] = c
    <2>1. channel[c] = "empty" /\ at[c] = w
      BY <1>2 DEF IInv, ReservedFor
    <2>2. channel' = [channel EXCEPT ![c] = "answer"]
      BY <1>2, <2>1, NoneIsNobody, TypedDomains DEF IInv, Domains, Answer, Send
    <2>3. call' = [call EXCEPT ![w] = None] /\ UNCHANGED phase /\ Signal
      BY <1>2 DEF Answer
    <2>4. TypeOK'
      BY <1>2, <2>2, <2>3 DEF IInv, TypeOK, Answer, Signal
    <2>5. ReservedServes'
      BY <2>3, TypedDomains DEF IInv, Domains, Answer, ReservedServes
    <2>6. \A v \in Workers, d \in Callers : call'[v] = d => call[v] = d /\ d # c
      BY <2>1, <2>3, TypedDomains, NoneIsNobody DEF IInv, Domains, ReservedFor
    <2>7. ReservationsKept
      BY <2>2, <2>6, TypedDomains DEF IInv, Domains, Answer, ReservationsKept
    <2>8. NobodyLeftAsleep
      BY <2>3 DEF Answer, Signal, NobodyLeftAsleep
    <2>9. WrittenOnce' /\ CallIsHonest'
      BY <1>1, <2>2, BooksKept, TypedDomains DEF IInv, Domains, Answer, CallIsHonest
    <2>10. QED
      BY <2>4, <2>5, <2>7, <2>8, <2>9, ReservedForKept, NoLostWakeupKept DEF IInv
  <1>3. CASE ~(phase[w] = "serving" /\ call[w] = c)
    <2>1. Detach(w) /\ registered' = registered /\ instance' = instance
          /\ at' = at /\ taken' = taken /\ pc' = pc /\ written' = written /\ result' = result
      BY <1>3 DEF Answer, FailSession
    <2>2. /\ phase'[w] = "absent" \/ (phase'[w] = "failed" /\ phase[w] # "absent")
          /\ \A v \in Workers \ {w} : phase'[v] = phase[v]
      <3>1. DOMAIN phase = Workers
        BY TypedDomains DEF IInv, Domains
      <3>2. phase' = [phase EXCEPT ![w] = IF phase[w] = "absent" THEN phase[w] ELSE "failed"]
        BY <1>3, <3>1 DEF Answer, FailSession
      <3>3. phase'[w] = IF phase[w] = "absent" THEN phase[w] ELSE "failed"
        BY <3>1, <3>2
      <3>4. \A v \in Workers \ {w} : phase'[v] = phase[v]
        BY <3>1, <3>2
      <3>5. QED
        BY <3>3, <3>4
    <2>3. TypeOK'
      BY <1>3, <2>1, DetachEffect DEF IInv, TypeOK, Answer, FailSession
    <2>4. ReservedServes' /\ ReservedFor' /\ NoLostWakeup'
      BY <2>1, <2>2, DetachKeeps
    <2>5. WrittenOnce' /\ CallIsHonest'
      BY <1>1, <2>1, DetachEffect, BooksKept DEF IInv
    <2>6. QED
      BY <2>3, <2>4, <2>5 DEF IInv
  <1>4. QED
    BY <1>2, <1>3

-----------------------------------------------------------------------------
(* The caller's steps.  Those that only move its own control:              *)
LEMMA OwnStepKeeps ==
  ASSUME IInv, NEW c \in Callers, UNCHANGED workers, at' = at, channel' = channel,
         \A d \in Callers \ {c} : pc'[d] = pc[d] /\ taken'[d] = taken[d] /\ (d \in woken' <=> d \in woken),
         \A v \in Workers : call[v] = c => pc'[c] \in {"sent", "done"},
         pc'[c] # "waiting"
  PROVE  ReservedServes' /\ ReservedFor' /\ NoLostWakeup'
  <1> USE DEF workers
  <1>1. ReservedServes'
    BY DEF IInv, ReservedServes
  <1>2. ReservedFor'
    BY DEF IInv, ReservedFor
  <1>3. NobodyLeftAsleep
    BY DEF NobodyLeftAsleep, Idle
  <1>4. QED
    BY <1>1, <1>2, <1>3, NoLostWakeupKept DEF IInv

(* A call that has not sent anything is reserved nowhere.                  *)
LEMMA UnreservedCaller ==
  ASSUME IInv, NEW c \in Callers, pc[c] \in {"reserving", "waiting"}
  PROVE  \A v \in Workers : call[v] # c
  BY DEF IInv, ReservedFor

(* The books after a step of c that does not write.                        *)
LEMMA OwnBooksKept ==
  ASSUME IInv, NEW c \in Callers, written' = written, inbox' = inbox,
         \A d \in Callers \ {c} : pc'[d] = pc[d] /\ result'[d] = result[d],
         \A d \in Callers : channel'[d] # "blocked",
         \/ /\ pc[c] \in {"reserving", "waiting", "reserved", "writing"}
            /\ \/ /\ pc'[c] \in {"reserving", "waiting", "reserved", "writing"}
                  /\ result'[c] = result[c]
               \/ /\ pc'[c] = "done"
                  /\ result'[c] \in {"unregistered", "no worker", "oversized", "unsent"}
         \/ /\ pc[c] = "sent" /\ pc'[c] = "done"
            /\ result'[c] \in {"answer", "closed", "timeout"}
  PROVE  WrittenOnce' /\ CallIsHonest'
  <1> USE DEF IInv, WrittenOnce, CallIsHonest
  <1>1. WrittenOnce'
    <2>1. ASSUME NEW v \in Workers, NEW d \in inbox'[v]
          PROVE  pc'[d] \in {"sent", "done"}
      <3>1. pc[d] \in {"sent", "done"} /\ d \in Callers
        BY <2>1 DEF TypeOK
      <3>2. QED
        BY <3>1
    <2>2. ASSUME NEW d \in Callers
          PROVE  /\ pc'[d] \in {"reserving", "waiting", "reserved", "writing"}
                      => written'[d] = 0 /\ result'[d] = "none"
                 /\ pc'[d] = "sent" => written'[d] = 1 /\ result'[d] = "none"
      <3>1. CASE d = c
        BY <3>1
      <3>2. CASE d # c
        BY <3>2
      <3>3. QED
        BY <3>1, <3>2
    <2>3. QED
      BY <2>1, <2>2
  <1>2. ASSUME NEW d \in Callers
        PROVE  /\ written'[d] <= 1
               /\ result'[d] \in {"unregistered", "no worker", "oversized", "unsent"}
                    => written'[d] = 0
               /\ result'[d] \in {"answer", "closed", "timeout"} => written'[d] = 1
    <2>1. CASE d = c
      BY <2>1
    <2>2. CASE d # c
      BY <2>2
    <2>3. QED
      BY <2>1, <2>2
  <1>3. QED
    BY <1>1, <1>2

(* A caller that finds an idle worker reserves it alone.                   *)
LEMMA ReserveIdleKeeps ==
  ASSUME IInv, NEW c \in Callers, ReserveIdle(c)
  PROVE  IInv'
  <1> DEFINE p == Pool[c]
  <1>1. PICK k \in 0..(Len(p) - 1) :
          /\ Idle(Turn(p, k))
          /\ call' = [call EXCEPT ![Turn(p, k)] = c]
          /\ next' = [next EXCEPT ![p] = Advanced(p, k)]
          /\ at' = [at EXCEPT ![c] = Turn(p, k)]
    BY DEF ReserveIdle
  <1>2. p \in Pools /\ p \in Seq(Workers) /\ Len(p) \in Nat \ {0}
    BY PoolsAreNonempty DEF Pools
  <1>3. next \in [Pools -> Nat] /\ \A q \in Pools : next[q] < Len(q)
    BY DEF IInv, TypeOK
  <1>4. next' \in [Pools -> Nat] /\ \A q \in Pools : next'[q] < Len(q)
    <2>1. next[p] + k + 1 \in Nat
      BY <1>2, <1>3
    <2>2. Advanced(p, k) \in Nat /\ Advanced(p, k) < Len(p)
      BY <1>2, <2>1, ModuloBelow DEF Advanced
    <2>3. QED
      BY <1>1, <1>2, <1>3, <2>2
  <1> DEFINE w == Turn(p, k)
  <1>5. w \in Workers
    <2>1. next[p] + k \in Nat
      BY <1>2, <1>3
    <2>2. ((next[p] + k) % Len(p)) + 1 \in 1..Len(p)
      BY <1>2, <2>1, ModuloBelow
    <2>3. QED
      BY <1>2, <2>2 DEF Turn
  <1>6. /\ registered[w] /\ phase[w] = "serving" /\ call[w] = None
        /\ call' = [call EXCEPT ![w] = c] /\ at' = [at EXCEPT ![c] = w]
    BY <1>1 DEF Idle
  <1> HIDE DEF w
  <1>7. TypeOK'
    BY <1>4, <1>5, <1>6 DEF IInv, TypeOK, ReserveIdle
  <1>8. Domains
    BY TypedDomains DEF IInv
  <1>9. ReservedServes'
    BY <1>5, <1>6, <1>8 DEF Domains, IInv, ReservedServes, ReserveIdle
  <1>10. ReservedFor'
    <2>1. pc[c] = "reserving" /\ \A v \in Workers : call[v] # c
      BY UnreservedCaller DEF ReserveIdle
    <2>2. /\ pc' = [pc EXCEPT ![c] = "reserved"] /\ channel' = [channel EXCEPT ![c] = "empty"]
          /\ taken' = taken /\ instance' = instance
      BY DEF ReserveIdle
    <2>3. ASSUME NEW v \in Workers, NEW d \in Callers, call'[v] = d
          PROVE  /\ pc'[d] \in {"reserved", "writing", "sent", "done"}
                 /\ at'[d] = v
                 /\ channel'[d] = "empty"
                 /\ pc'[d] = "writing" => taken'[d] = instance'[v]
      <3>1. CASE v = w
        BY <1>5, <1>6, <1>8, <2>2, <2>3, <3>1 DEF Domains
      <3>2. CASE v # w
        BY <1>5, <1>6, <1>8, <2>1, <2>2, <2>3, <3>2 DEF Domains, IInv, ReservedFor
      <3>3. QED
        BY <3>1, <3>2
    <2>4. QED
      BY <2>3 DEF ReservedFor
  <1>11. NobodyLeftAsleep
    BY <1>5, <1>6, <1>8, NoneIsNobody DEF Domains, NobodyLeftAsleep, Idle, ReserveIdle
  <1>12. WrittenOnce' /\ CallIsHonest'
    <2>1. \A d \in Callers : channel'[d] # "blocked"
      BY <1>8 DEF Domains, IInv, CallIsHonest, ReserveIdle
    <2>2. /\ pc[c] = "reserving" /\ pc'[c] = "reserved" /\ result' = result
          /\ written' = written /\ inbox' = inbox
          /\ \A d \in Callers \ {c} : pc'[d] = pc[d]
      BY <1>8 DEF Domains, ReserveIdle
    <2>3. QED
      BY <2>1, <2>2, OwnBooksKept
  <1>13. QED
    BY <1>7, <1>9, <1>10, <1>11, <1>12, NoLostWakeupKept DEF IInv

(* A caller goes to sleep only when it finds no worker idle.               *)
LEMMA ReserveBusyKeeps ==
  ASSUME IInv, NEW c \in Callers, ReserveBusy(c)
  PROVE  IInv'
  <1> USE DEF workers
  <1>1. TypeOK'
    BY DEF IInv, TypeOK, ReserveBusy
  <1>2. ReservedServes'
    BY DEF IInv, ReservedServes, ReserveBusy
  <1>3. \A v \in Workers : call[v] # c
    BY UnreservedCaller DEF ReserveBusy
  <1>4. ReservationsKept
    BY <1>3, TypedDomains DEF Domains, IInv, ReserveBusy, ReservedFor, ReservationsKept
  <1>5. NoLostWakeup'
    BY TypedDomains DEF Domains, IInv, ReserveBusy, NoLostWakeup, Idle
  <1>6. WrittenOnce' /\ CallIsHonest'
    <2>1. /\ pc[c] = "reserving" /\ pc'[c] = "waiting" /\ result' = result
          /\ written' = written /\ inbox' = inbox /\ channel' = channel
          /\ \A d \in Callers \ {c} : pc'[d] = pc[d]
      BY TypedDomains DEF IInv, Domains, ReserveBusy
    <2>2. \A d \in Callers : channel'[d] # "blocked"
      BY <2>1 DEF IInv, CallIsHonest
    <2>3. QED
      BY <2>1, <2>2, OwnBooksKept
  <1>7. QED
    BY <1>1, <1>2, <1>4, <1>5, <1>6, ReservedForKept DEF IInv

(* A caller without registered workers is told so.                         *)
LEMMA ReserveNobodyKeeps ==
  ASSUME IInv, NEW c \in Callers, ReserveNobody(c)
  PROVE  IInv'
  <1> USE DEF workers
  <1>1. TypeOK'
    BY DEF IInv, TypeOK, ReserveNobody, Return
  <1>2. \A v \in Workers : call[v] # c
    BY UnreservedCaller DEF ReserveNobody
  <1>3. ReservedServes' /\ ReservedFor' /\ NoLostWakeup'
    BY <1>2, OwnStepKeeps, TypedDomains DEF Domains, IInv, ReserveNobody, Return
  <1>4. WrittenOnce' /\ CallIsHonest'
    BY OwnBooksKept, TypedDomains DEF Domains, IInv, CallIsHonest, ReserveNobody, Return
  <1>5. QED
    BY <1>1, <1>3, <1>4 DEF IInv

(* A signal is consumed by going back to reserving.                        *)
LEMMA WakeKeeps ==
  ASSUME IInv, NEW c \in Callers, Wake(c)
  PROVE  IInv'
  <1> USE DEF workers
  <1>1. TypeOK'
    BY DEF IInv, TypeOK, Wake
  <1>2. \A v \in Workers : call[v] # c
    BY UnreservedCaller DEF Wake
  <1>3. ReservedServes' /\ ReservedFor' /\ NoLostWakeup'
    BY <1>2, OwnStepKeeps, TypedDomains DEF Domains, IInv, Wake
  <1>4. WrittenOnce' /\ CallIsHonest'
    BY OwnBooksKept, TypedDomains DEF Domains, IInv, CallIsHonest, Wake
  <1>5. QED
    BY <1>1, <1>3, <1>4 DEF IInv

(* A waiter that gives up holds nothing.                                   *)
LEMMA StopWaitingKeeps ==
  ASSUME IInv, NEW c \in Callers, StopWaiting(c)
  PROVE  IInv'
  <1> USE DEF workers
  <1>1. TypeOK'
    BY DEF IInv, TypeOK, StopWaiting, Return
  <1>2. \A v \in Workers : call[v] # c
    BY UnreservedCaller DEF StopWaiting
  <1>3. ReservedServes' /\ ReservedFor' /\ NoLostWakeup'
    BY <1>2, OwnStepKeeps, TypedDomains DEF Domains, IInv, StopWaiting, Return
  <1>4. WrittenOnce' /\ CallIsHonest'
    BY OwnBooksKept, TypedDomains DEF Domains, IInv, CallIsHonest, StopWaiting, Return
  <1>5. QED
    BY <1>1, <1>3, <1>4 DEF IInv

(* A caller takes the session it reserved.                                 *)
LEMMA TakeSessionKeeps ==
  ASSUME IInv, NEW c \in Callers, TakeSession(c)
  PROVE  IInv'
  <1> USE DEF workers
  <1>1. TypeOK'
    BY DEF IInv, TypeOK, TakeSession
  <1>2. \A v \in Workers : call[v] = c => v = at[c]
    BY DEF IInv, ReservedFor
  <1>3. ReservedServes' /\ ReservedFor' /\ NoLostWakeup'
    <2>1. ReservedServes'
      BY DEF IInv, ReservedServes, TakeSession
    <2>2. ReservedFor'
      BY <1>2, TypedDomains DEF Domains, IInv, ReservedFor, TakeSession
    <2>3. NobodyLeftAsleep
      BY TypedDomains DEF Domains, IInv, NobodyLeftAsleep, Idle, TakeSession
    <2>4. QED
      BY <2>1, <2>2, <2>3, NoLostWakeupKept DEF IInv
  <1>4. WrittenOnce' /\ CallIsHonest'
    BY OwnBooksKept, TypedDomains DEF Domains, IInv, CallIsHonest, TakeSession
  <1>5. QED
    BY <1>1, <1>3, <1>4 DEF IInv

(* A caller returns what was sent to its own channel.                      *)
LEMMA ReceiveKeeps ==
  ASSUME IInv, NEW c \in Callers, Receive(c)
  PROVE  IInv'
  <1> USE DEF workers
  <1>1. TypeOK'
    BY DEF IInv, TypeOK, Receive, Return
  <1>2. ReservedServes' /\ ReservedFor' /\ NoLostWakeup'
    BY OwnStepKeeps, TypedDomains DEF Domains, IInv, Receive, Return
  <1>3. WrittenOnce' /\ CallIsHonest'
    <2>1. channel[c] \in {"closed", "answer"}
      BY DEF IInv, TypeOK, CallIsHonest, Receive
    <2>2. QED
      BY <2>1, OwnBooksKept, TypedDomains DEF Domains, IInv, CallIsHonest, Receive, Return
  <1>4. QED
    BY <1>1, <1>2, <1>3 DEF IInv

(* A caller that stops listening leaves its reservation to the late answer.*)
LEMMA StopListeningKeeps ==
  ASSUME IInv, NEW c \in Callers, StopListening(c)
  PROVE  IInv'
  <1> USE DEF workers
  <1>1. TypeOK'
    BY DEF IInv, TypeOK, StopListening, Return
  <1>2. ReservedServes' /\ ReservedFor' /\ NoLostWakeup'
    BY OwnStepKeeps, TypedDomains DEF Domains, IInv, StopListening, Return
  <1>3. WrittenOnce' /\ CallIsHonest'
    BY OwnBooksKept, TypedDomains DEF Domains, IInv, CallIsHonest, StopListening, Return
  <1>4. QED
    BY <1>1, <1>2, <1>3 DEF IInv

(* A reservation given up before anything was written.                     *)
LEMMA ReleaseKeeps ==
  ASSUME IInv, NEW c \in Callers, pc[c] = "reserved", Release(at[c], c),
         registered' = registered, phase' = phase, instance' = instance,
         at' = at, taken' = taken, channel' = channel,
         \A d \in Callers \ {c} : pc'[d] = pc[d],
         pc'[c] # "waiting"
  PROVE  ReservedServes' /\ ReservedFor' /\ NoLostWakeup'
  <1>1. at[c] \in Workers
    BY DEF IInv, TypeOK
  <1>2. ReservedServes'
    <2>1. \A v \in Workers : call'[v] # None => call'[v] \in Callers /\ call[v] = call'[v]
      BY <1>1, ReleaseEffect
    <2>2. QED
      BY <2>1 DEF IInv, ReservedServes
  <1>3. ReservationsKept
    BY <1>1, ReleaseEffect DEF ReservationsKept
  <1>4. NobodyLeftAsleep
    BY <1>1, ReleaseEffect DEF NobodyLeftAsleep, Idle
  <1>5. QED
    BY <1>2, <1>3, <1>4, ReservedForKept, NoLostWakeupKept DEF IInv

(* An oversized request is never written.                                  *)
LEMMA RefuseKeeps ==
  ASSUME IInv, NEW c \in Callers, Refuse(c)
  PROVE  IInv'
  <1>1. at[c] \in Workers /\ pc[c] = "reserved" /\ Release(at[c], c)
    BY DEF IInv, TypeOK, Refuse
  <1>2. pc' = [pc EXCEPT ![c] = "done"] /\ result' = [result EXCEPT ![c] = "oversized"]
    BY DEF Refuse, Return
  <1>3. TypeOK'
    BY <1>1, <1>2, ReleaseEffect DEF IInv, TypeOK, Refuse
  <1>4. /\ pc'[c] = "done" /\ result'[c] = "oversized"
        /\ \A d \in Callers \ {c} : pc'[d] = pc[d] /\ result'[d] = result[d]
    BY <1>2, TypedDomains DEF IInv, Domains
  <1>5. ReservedServes' /\ ReservedFor' /\ NoLostWakeup'
    BY <1>1, <1>4, ReleaseKeeps DEF Refuse
  <1>6. WrittenOnce' /\ CallIsHonest'
    BY <1>1, <1>4, OwnBooksKept DEF IInv, CallIsHonest, Refuse
  <1>7. QED
    BY <1>3, <1>5, <1>6 DEF IInv

(* A caller whose request was not written tries again or reports it unsent.*)
LEMMA RetryEffect ==
  ASSUME IInv, NEW c \in Callers, Retry(c)
  PROVE  /\ pc' \in [Callers -> {"reserving", "waiting", "reserved", "writing", "sent", "done"}]
         /\ result' \in [Callers -> {"none", "unregistered", "no worker", "oversized", "unsent",
                                     "closed", "answer", "timeout", "blocked"}]
         /\ \/ pc'[c] = "reserving" /\ result'[c] = result[c]
            \/ pc'[c] = "done" /\ result'[c] = "unsent"
         /\ \A d \in Callers \ {c} : pc'[d] = pc[d] /\ result'[d] = result[d]
  <1>1. /\ pc \in [Callers -> {"reserving", "waiting", "reserved", "writing", "sent", "done"}]
        /\ result \in [Callers -> {"none", "unregistered", "no worker", "oversized", "unsent",
                                   "closed", "answer", "timeout", "blocked"}]
    BY DEF IInv, TypeOK
  <1>2. CASE expired[c]
    BY <1>1, <1>2 DEF Retry, Return
  <1>3. CASE ~expired[c]
    BY <1>1, <1>3 DEF Retry
  <1>4. QED
    BY <1>2, <1>3

(* A session gone before the request was written is tried again elsewhere. *)
LEMMA NoSessionKeeps ==
  ASSUME IInv, NEW c \in Callers, NoSession(c)
  PROVE  IInv'
  <1>1. at[c] \in Workers /\ pc[c] = "reserved" /\ Release(at[c], c) /\ Retry(c)
    BY DEF IInv, TypeOK, NoSession
  <1>2. TypeOK'
    <2>1. \A d \in Callers : pc'[d] \in {"reserved", "writing", "sent"} => at[d] \in Workers
      BY <1>1, RetryEffect DEF IInv, TypeOK
    <2>2. QED
      BY <1>1, <2>1, ReleaseEffect, RetryEffect DEF IInv, TypeOK, NoSession
  <1>3. pc'[c] # "waiting"
    BY <1>1, RetryEffect
  <1>4. ReservedServes' /\ ReservedFor' /\ NoLostWakeup'
    BY <1>1, <1>3, RetryEffect, ReleaseKeeps DEF NoSession
  <1>5. WrittenOnce' /\ CallIsHonest'
    BY <1>1, RetryEffect, OwnBooksKept DEF IInv, CallIsHonest, NoSession
  <1>6. QED
    BY <1>2, <1>4, <1>5 DEF IInv

(* A request is written at most once.                                      *)
LEMMA WriteKeeps ==
  ASSUME IInv, NEW c \in Callers, Write(c)
  PROVE  IInv'
  <1>1. at[c] \in Workers /\ pc[c] = "writing" /\ written[c] = 0 /\ result[c] = "none"
    BY DEF IInv, TypeOK, WrittenOnce, Write
  <1>2. TypeOK'
    <2>1. inbox' \in [Workers -> SUBSET Callers]
      <3>1. inbox \in [Workers -> SUBSET Callers]
        BY DEF IInv, TypeOK
      <3>2. QED
        BY <1>1, <3>1 DEF Write
    <2>2. written' \in [Callers -> Nat]
      <3>1. written \in [Callers -> Nat] /\ written' = [written EXCEPT ![c] = @ + 1]
        BY DEF IInv, TypeOK, Write
      <3>2. QED
        BY <3>1
    <2>3. QED
      BY <1>1, <2>1, <2>2 DEF IInv, TypeOK, Write
  <1>3. ReservedServes'
    BY DEF IInv, ReservedServes, Write
  <1>4. ReservationsKept
    BY TypedDomains DEF IInv, Domains, ReservedFor, ReservationsKept, Write
  <1>5. NobodyLeftAsleep
    BY TypedDomains DEF IInv, Domains, NobodyLeftAsleep, Idle, Write
  <1>6. /\ inbox' = [inbox EXCEPT ![at[c]] = @ \union {c}]
        /\ pc'[c] = "sent" /\ \A d \in Callers \ {c} : pc'[d] = pc[d]
        /\ written'[c] = 1 /\ \A d \in Callers \ {c} : written'[d] = written[d]
        /\ result' = result /\ channel' = channel
    BY <1>1, TypedDomains DEF IInv, Domains, Write
  <1>7. WrittenOnce'
    <2>1. \A v \in Workers : \A d \in inbox'[v] : d = c \/ d \in inbox[v]
      BY <1>6, TypedDomains DEF IInv, Domains
    <2>2. \A v \in Workers : inbox[v] \subseteq Callers
      BY DEF IInv, TypeOK
    <2>3. \A v \in Workers : \A d \in inbox'[v] : pc'[d] \in {"sent", "done"}
      BY <1>6, <2>1, <2>2 DEF IInv, WrittenOnce
    <2>4. QED
      BY <1>1, <1>6, <2>3 DEF IInv, WrittenOnce
  <1>8. CallIsHonest'
    <2>1. ASSUME NEW d \in Callers
          PROVE  /\ written'[d] <= 1
                 /\ result'[d] \in {"unregistered", "no worker", "oversized", "unsent"}
                      => written'[d] = 0
                 /\ result'[d] \in {"answer", "closed", "timeout"} => written'[d] = 1
                 /\ channel'[d] # "blocked"
      <3>1. CASE d = c
        <4>1. written'[c] = 1 /\ result'[c] = "none" /\ channel'[c] = channel[c]
          BY <1>1, <1>6
        <4>2. channel'[c] # "blocked"
          BY <4>1 DEF IInv, CallIsHonest
        <4>3. QED
          BY <3>1, <4>1, <4>2
      <3>2. CASE d # c
        BY <1>6, <3>2 DEF IInv, CallIsHonest
      <3>3. QED
        BY <3>1, <3>2
    <2>2. QED
      BY <2>1 DEF CallIsHonest
  <1>9. QED
    BY <1>2, <1>3, <1>4, <1>5, <1>7, <1>8, ReservedForKept, NoLostWakeupKept DEF IInv

(* A failed write ends the session it was made on and no later one.        *)
LEMMA WriteFailsKeeps ==
  ASSUME IInv, NEW c \in Callers, WriteFails(c)
  PROVE  IInv'
  <1> DEFINE w == at[c]
  <1>1. w \in Workers /\ pc[c] = "writing" /\ Retry(c)
    BY DEF IInv, TypeOK, WriteFails
  <1>2. \A d \in Callers : pc'[d] \in {"reserved", "writing", "sent"} => at[d] \in Workers
    BY <1>1, RetryEffect DEF IInv, TypeOK
  <1>3. CASE Current(c)
    <2>1. Detach(w) /\ phase[w] # "absent" /\ phase' = [phase EXCEPT ![w] = "failed"]
      BY <1>3, TypedDomains DEF IInv, Domains, Current, WriteFails, FailSession
    <2>2. phase'[w] = "failed" /\ \A v \in Workers \ {w} : phase'[v] = phase[v]
      BY <1>1, <2>1, TypedDomains DEF IInv, Domains
    <2>3. \A v \in Workers, d \in Callers : call'[v] = d => pc'[d] = pc[d]
      <3>1. \A v \in Workers : call'[v] # c
        BY <1>1, <2>1, DetachEffect, NoneIsNobody DEF IInv, ReservedFor
      <3>2. QED
        BY <1>1, <3>1, RetryEffect
    <2>4. \A d \in Callers : pc'[d] = "waiting" => pc[d] = "waiting"
      BY <1>1, RetryEffect
    <2>5. registered' = registered /\ instance' = instance /\ at' = at /\ taken' = taken
      BY DEF WriteFails
    <2>6. ReservedServes' /\ ReservedFor' /\ NoLostWakeup'
      BY <1>1, <2>1, <2>2, <2>3, <2>4, <2>5, DetachKeeps
    <2>7. TypeOK'
      BY <1>1, <1>2, <2>1, DetachEffect, RetryEffect DEF IInv, TypeOK, WriteFails
    <2>8. WrittenOnce' /\ CallIsHonest'
      BY <1>1, <2>1, DetachEffect, RetryEffect, OwnBooksKept DEF WriteFails
    <2>9. QED
      BY <2>6, <2>7, <2>8 DEF IInv
  <1>4. CASE ~Current(c)
    <2>1. UNCHANGED <<phase, call, channel, woken>>
      BY <1>4 DEF WriteFails
    <2>2. \A v \in Workers : call[v] # c
      BY <1>1, <1>4, NoneIsNobody DEF IInv, ReservedServes, ReservedFor, Current
    <2>3. TypeOK'
      BY <1>1, <1>2, <2>1, RetryEffect DEF IInv, TypeOK, WriteFails
    <2>4. ReservedServes'
      BY <2>1 DEF IInv, ReservedServes, WriteFails
    <2>5. ReservationsKept
      BY <1>1, <2>1, <2>2, RetryEffect DEF ReservationsKept, WriteFails
    <2>6. NobodyLeftAsleep
      BY <1>1, <2>1, RetryEffect DEF NobodyLeftAsleep, Idle, WriteFails
    <2>7. WrittenOnce' /\ CallIsHonest'
      BY <1>1, <2>1, RetryEffect, OwnBooksKept DEF IInv, CallIsHonest, WriteFails
    <2>8. QED
      BY <2>3, <2>4, <2>5, <2>6, <2>7, ReservedForKept, NoLostWakeupKept DEF IInv
  <1>5. QED
    BY <1>3, <1>4

(* An expired context changes nothing yet.                                 *)
LEMMA ExpireKeeps ==
  ASSUME IInv, NEW c \in Callers, Expire(c)
  PROVE  IInv'
  <1> USE DEF workers
  <1>1. TypeOK'
    BY DEF IInv, TypeOK, Expire
  <1>2. ReservedServes' /\ ReservedFor' /\ WrittenOnce'
    BY DEF IInv, ReservedServes, ReservedFor, WrittenOnce, Expire
  <1>3. NobodyLeftAsleep
    BY DEF NobodyLeftAsleep, Idle, Expire
  <1>4. CallIsHonest'
    BY DEF IInv, CallIsHonest, Expire
  <1>5. QED
    BY <1>1, <1>2, <1>3, <1>4, NoLostWakeupKept DEF IInv

(* Doing nothing changes nothing.                                          *)
LEMMA StutterKeeps ==
  ASSUME IInv, UNCHANGED vars
  PROVE  IInv'
  <1> USE DEF vars, workers, callers
  <1>1. TypeOK'
    BY DEF IInv, TypeOK
  <1>2. ReservedServes' /\ ReservedFor' /\ WrittenOnce'
    BY DEF IInv, ReservedServes, ReservedFor, WrittenOnce
  <1>3. CallIsHonest'
    BY DEF IInv, CallIsHonest
  <1>4. NobodyLeftAsleep
    BY DEF NobodyLeftAsleep, Idle
  <1>5. QED
    BY <1>1, <1>2, <1>3, <1>4, NoLostWakeupKept DEF IInv

(* The invariant is inductive.                                             *)
LEMMA NextKeeps == IInv /\ [Next]_vars => IInv'
  <1> SUFFICES ASSUME IInv, [Next]_vars PROVE IInv'
    OBVIOUS
  <1>1. ASSUME NEW c \in Callers, Goroutine(c) PROVE IInv'
    BY <1>1, ReserveIdleKeeps, ReserveBusyKeeps, ReserveNobodyKeeps, WakeKeeps, StopWaitingKeeps,
       RefuseKeeps, TakeSessionKeeps, NoSessionKeeps, WriteFailsKeeps, ReceiveKeeps,
       StopListeningKeeps DEF Goroutine
  <1>2. ASSUME NEW w \in Workers, Lifecycle(w) PROVE IInv'
    BY <1>2, LaunchKeeps, AttachKeeps, CloseKeeps, MalformedKeeps, ForgetKeeps DEF Lifecycle
  <1>3. ASSUME Terminated \/ UNCHANGED vars PROVE IInv'
    BY <1>3, StutterKeeps DEF Terminated
  <1>4. QED
    BY <1>1, <1>2, <1>3, WriteKeeps, ExpireKeeps, AnswerKeeps DEF Next

-----------------------------------------------------------------------------
(* The inductive invariant.                                                *)
THEOREM Invariance == Spec => []IInv
  BY InitInv, NextKeeps, PTL DEF Spec

(* Type correctness; the rotation cursor never leaves its pool.            *)
THEOREM TypeCorrect == Spec => []TypeOK
  <1>1. IInv => TypeOK
    BY DEF IInv
  <1>2. QED
    BY <1>1, Invariance, PTL

(* No waiting call misses the broadcast for an idle worker, or for the     *)
(* last worker of its pool leaving the registry.                           *)
THEOREM NobodySleepsThroughASignal == Spec => []NoLostWakeup
  <1>1. IInv => NoLostWakeup
    BY DEF IInv
  <1>2. QED
    BY <1>1, Invariance, PTL

(* A request is written at most once, an error that says it was not is     *)
(* true, and no response channel is sent to twice.                         *)
THEOREM NeverReplayed == Spec => []CallIsHonest
  <1>1. IInv => CallIsHonest
    BY DEF IInv
  <1>2. QED
    BY <1>1, Invariance, PTL

(* While an instance owes an answer to the call it is reserved for, only   *)
(* that answer or the end of the session frees it: a late answer cannot be *)
(* taken for another call's.                                               *)
HeldAt(w, c) ==
  call[w] = c /\ call'[w] # c => c \notin inbox'[w] \/ phase'[w] # "serving"

(* A worker that has yet to answer a request is not given to another       *)
(* caller.                                                                 *)
LEMMA StepHolds ==
  ASSUME IInv, [Next]_vars, NEW w \in Workers, NEW c \in inbox[w]
  PROVE  HeldAt(w, c)
  <1> SUFFICES ASSUME call[w] = c, call'[w] # c
               PROVE  c \notin inbox'[w] \/ phase'[w] # "serving"
    BY DEF HeldAt
  <1>1. /\ c \in Callers /\ pc[c] \in {"sent", "done"} /\ at[c] = w /\ phase[w] = "serving"
        /\ c # None
    <2>1. c \in Callers /\ c # None
      BY NoneIsNobody DEF IInv, TypeOK
    <2>2. QED
      BY <2>1 DEF IInv, WrittenOnce, ReservedFor, ReservedServes
  <1>2. Domains
    BY TypedDomains DEF IInv
  <1>3. ASSUME NEW v \in Workers, Lifecycle(v) PROVE c \notin inbox'[w] \/ phase'[w] # "serving"
    <2>1. CASE Launch(v) \/ Attach(v)
      BY <2>1 DEF Launch, Attach
    <2>2. CASE Close(v)
      BY <1>1, <1>2, <2>2, DetachEffect DEF Domains, Close
    <2>3. CASE Malformed(v)
      BY <1>1, <1>2, <2>3, DetachEffect DEF Domains, Malformed, FailSession
    <2>4. CASE Forget(v)
      BY <1>1, <1>2, <2>4 DEF Domains, Forget
    <2>5. QED
      BY <1>3, <2>1, <2>2, <2>3, <2>4 DEF Lifecycle
  <1>4. ASSUME NEW v \in Workers, NEW d \in Callers, Answer(v, d)
        PROVE  c \notin inbox'[w] \/ phase'[w] # "serving"
    <2>1. CASE phase[v] = "serving" /\ call[v] = d
      <3>1. call' = [call EXCEPT ![v] = None] /\ inbox' = [inbox EXCEPT ![v] = @ \ {d}]
        BY <1>4, <2>1 DEF Answer
      <3>2. QED
        BY <1>1, <1>2, <2>1, <3>1 DEF Domains
    <2>2. CASE ~(phase[v] = "serving" /\ call[v] = d)
      <3>1. Detach(v) /\ phase' = [phase EXCEPT ![v] = IF phase[v] = "absent" THEN phase[v] ELSE "failed"]
        BY <1>2, <1>4, <2>2 DEF Domains, Answer, FailSession
      <3>2. v = w
        BY <3>1, DetachEffect
      <3>3. QED
        BY <1>1, <1>2, <3>1, <3>2 DEF Domains
    <2>3. QED
      BY <2>1, <2>2
  <1>5. ASSUME NEW d \in Callers, Goroutine(d) PROVE c \notin inbox'[w] \/ phase'[w] # "serving"
    <2>1. CASE ReserveIdle(d)
      <3>1. PICK u : Idle(u) /\ call' = [call EXCEPT ![u] = d]
        BY <2>1 DEF ReserveIdle
      <3>2. QED
        BY <1>1, <1>2, <3>1 DEF Domains, Idle
    <2>2. CASE Refuse(d) \/ NoSession(d)
      <3>1. Release(at[d], d) /\ pc[d] = "reserved"
        BY <2>2 DEF Refuse, NoSession
      <3>2. call'[w] = call[w]
        BY <1>1, <1>2, <3>1 DEF Domains, Release
      <3>3. QED
        BY <3>2
    <2>3. CASE WriteFails(d)
      <3>1. CASE Current(d)
        <4>1. at[d] \in Workers
          BY <2>3 DEF IInv, TypeOK, WriteFails
        <4>2. Detach(at[d]) /\ phase' = [phase EXCEPT ![at[d]] = "failed"]
          BY <1>2, <2>3, <3>1, <4>1 DEF Domains, Current, WriteFails, FailSession
        <4>3. at[d] = w
          BY <4>1, <4>2, DetachEffect
        <4>4. QED
          BY <1>2, <4>2, <4>3 DEF Domains
      <3>2. CASE ~Current(d)
        BY <2>3, <3>2 DEF WriteFails
      <3>3. QED
        BY <3>1, <3>2
    <2>4. CASE \/ ReserveBusy(d) \/ ReserveNobody(d) \/ Wake(d) \/ StopWaiting(d)
               \/ TakeSession(d) \/ Receive(d) \/ StopListening(d)
      BY <2>4 DEF ReserveBusy, ReserveNobody, Wake, StopWaiting, TakeSession, Receive,
         StopListening, workers
    <2>5. QED
      BY <1>5, <2>1, <2>2, <2>3, <2>4 DEF Goroutine
  <1>6. ASSUME NEW d \in Callers, Write(d) \/ Expire(d) PROVE call' = call
    BY <1>6 DEF Write, Expire, workers
  <1>7. ASSUME Terminated \/ UNCHANGED vars PROVE call' = call
    BY <1>7 DEF Terminated, vars, workers
  <1>8. QED
    BY <1>3, <1>4, <1>5, <1>6, <1>7 DEF Next

(* A worker whose caller gave up stays reserved until its late answer has  *)
(* been read, or it is closed.                                             *)
THEOREM LateAnswersStayTheirOwn == Spec => HeldUntilAnswered
  <1>1. IInv /\ [Next]_vars => [\A w \in Workers : \A c \in inbox[w] :
          call[w] = c /\ call'[w] # c => c \notin inbox'[w] \/ phase'[w] # "serving"]_vars
    BY StepHolds DEF HeldAt
  <1>2. QED
    BY <1>1, Invariance, PTL DEF Spec, HeldUntilAnswered

(* All of the calls' safety, for any workers, pools and restarts.          *)
THEOREM SafeAlways == Spec => []Safety
  BY TypeCorrect, NobodySleepsThroughASignal, NeverReplayed, PTL DEF Safety
=============================================================================
