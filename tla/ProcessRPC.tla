------------------------------ MODULE ProcessRPC -------------------------------
(***************************************************************************)
(* steps/process/rpc.go: process_call steps share the instances of the     *)
(* run's rpc processes.  Each worker is a process step whose instances are *)
(* restarted by lifecycle.go; an instance has one session, published once  *)
(* the instance is ready, and one call at a time is reserved on it.        *)
(*                                                                         *)
(* phase[w], the session of the current instance: "absent" (none, or       *)
(*   closed) -> "starting" -> "serving" (attached) -> "absent"; "failed"   *)
(*   is a session detached by a protocol failure, its process not yet gone.*)
(* pc[c], a call: "reserving" -> "waiting" or "reserved" -> "writing" ->   *)
(*   "sent" -> "done".                                                     *)
(* inbox[w]: the calls whose request the current instance got and has not  *)
(*   answered.  The instances here answer each request once, or never, and *)
(*   may also print a line that is no answer.                              *)
(***************************************************************************)
EXTENDS Naturals, FiniteSets, Sequences

CONSTANTS Callers, Workers,
          Pool,          \* the worker ids a caller passes, in order
          MaxInstances,  \* bound on the instances of each worker
          None

ASSUME ProcessRPCAssumption ==
  /\ Pool \in [Callers -> Seq(Workers) \ {<<>>}]
  /\ MaxInstances \in [Workers -> Nat]
  /\ None \notin Callers

Pools == {Pool[c] : c \in Callers}

Members(p) == {p[i] : i \in 1..Len(p)}

VARIABLES registered, instance, phase,
          call,      \* worker.call: the call it is reserved for
          next,      \* the rotation cursor of each pool
          inbox,
          oversized, \* the callers whose request exceeds maxRPCLineBytes
          pc, at,    \* the worker a caller reserved
          taken,     \* the instance whose session invoke read
          expired,   \* the caller's context is done
          woken,     \* the waiting callers whose "changed" channel is closed
          channel,   \* the response channel of the caller's latest call
          written,   \* how often the caller's request was written
          result

workers == <<registered, instance, phase, call, next, inbox>>
callers == <<oversized, pc, at, taken, expired, channel, written, result>>

vars == <<workers, woken, callers>>

Init ==
  /\ registered = [w \in Workers |-> TRUE]
  /\ instance = [w \in Workers |-> 0]
  /\ phase = [w \in Workers |-> "absent"]
  /\ call = [w \in Workers |-> None]
  /\ next = [p \in Pools |-> 0]
  /\ inbox = [w \in Workers |-> {}]
  /\ oversized \in SUBSET Callers
  /\ pc = [c \in Callers |-> "reserving"]
  /\ at = [c \in Callers |-> None]
  /\ taken = [c \in Callers |-> 0]
  /\ expired = [c \in Callers |-> FALSE]
  /\ woken = {}
  /\ channel = [c \in Callers |-> "empty"]
  /\ written = [c \in Callers |-> 0]
  /\ result = [c \in Callers |-> "none"]

Idle(w) == registered[w] /\ phase[w] = "serving" /\ call[w] = None

-----------------------------------------------------------------------------
(* signalLocked closes the channel everyone now waiting has read.          *)
Signal == woken' = woken \union {c \in Callers : pc[c] = "waiting"}

(* A send on a response channel of capacity one: the second would block    *)
(* its sender, which holds the registry's mutex.                           *)
Send(ch, c, answer) ==
  IF c = None THEN ch
  ELSE [ch EXCEPT ![c] = IF ch[c] = "empty" THEN answer ELSE "blocked"]

(* detach, for the session of w's current instance.                        *)
Detach(w) ==
  IF phase[w] = "serving"
  THEN /\ channel' = Send(channel, call[w], "closed")
       /\ call' = [call EXCEPT ![w] = None]
       /\ Signal
  ELSE UNCHANGED <<channel, call, woken>>

(* rpcSession.fail.                                                        *)
FailSession(w) ==
  /\ Detach(w)
  /\ phase' = [phase EXCEPT ![w] = IF @ = "absent" THEN @ ELSE "failed"]

Release(w, c) ==
  IF registered[w] /\ call[w] = c
  THEN call' = [call EXCEPT ![w] = None] /\ Signal
  ELSE UNCHANGED <<call, woken>>

Return(c, value) ==
  /\ pc' = [pc EXCEPT ![c] = "done"]
  /\ result' = [result EXCEPT ![c] = value]

(* The end of an attempt whose request was not written.                    *)
Retry(c) ==
  IF expired[c] THEN Return(c, "unsent")
  ELSE pc' = [pc EXCEPT ![c] = "reserving"] /\ UNCHANGED result

-----------------------------------------------------------------------------
(* The worker's lifecycle.                                                 *)
Launch(w) ==
  /\ registered[w] /\ phase[w] = "absent" /\ instance[w] < MaxInstances[w]
  /\ instance' = [instance EXCEPT ![w] = @ + 1]
  /\ phase' = [phase EXCEPT ![w] = "starting"]
  /\ UNCHANGED <<registered, call, next, inbox, woken, callers>>

(* Mutant: the session is published without closing "changed".             *)
AttachSilently(w) ==
  /\ phase[w] = "starting"
  /\ phase' = [phase EXCEPT ![w] = "serving"]
  /\ UNCHANGED <<registered, instance, call, next, inbox, woken, callers>>

(* The readiness probe passed: activate publishes the session.             *)
Attach(w) ==
  /\ phase[w] = "starting"
  /\ phase' = [phase EXCEPT ![w] = "serving"]
  /\ Signal
  /\ UNCHANGED <<registered, instance, call, next, inbox, callers>>

(* The instance exits or is stopped: rpcSession.close.                     *)
Close(w) ==
  /\ phase[w] # "absent"
  /\ Detach(w)
  /\ phase' = [phase EXCEPT ![w] = "absent"]
  /\ inbox' = [inbox EXCEPT ![w] = {}]
  /\ UNCHANGED <<registered, instance, next, oversized, pc, at, taken, expired, written, result>>

(* A line of output that is no answer to anything.                         *)
Malformed(w) ==
  /\ phase[w] \in {"starting", "serving"}
  /\ FailSession(w)
  /\ UNCHANGED <<registered, instance, next, inbox, oversized, pc, at, taken, expired, written, result>>

(* The lifecycle ended: nothing restarts the worker any more.              *)
Forget(w) ==
  /\ registered[w] /\ phase[w] = "absent"
  /\ registered' = [registered EXCEPT ![w] = FALSE]
  /\ channel' = Send(channel, call[w], "closed")
  /\ call' = [call EXCEPT ![w] = None]
  /\ Signal
  /\ UNCHANGED <<instance, phase, next, inbox, oversized, pc, at, taken, expired, written, result>>

(* handleLine, for the answer to c's request: an answer to a call other    *)
(* than the one the session's worker is reserved for has an unknown id.    *)
Answer(w, c) ==
  /\ c \in inbox[w]
  /\ inbox' = [inbox EXCEPT ![w] = @ \ {c}]
  /\ IF phase[w] = "serving" /\ call[w] = c
     THEN /\ call' = [call EXCEPT ![w] = None]
          /\ channel' = Send(channel, c, "answer")
          /\ Signal
          /\ UNCHANGED phase
     ELSE FailSession(w)
  /\ UNCHANGED <<registered, instance, next, oversized, pc, at, taken, expired, written, result>>

-----------------------------------------------------------------------------
(* The caller: registry.call, reserve and invoke.                          *)
Turn(p, k) == p[((next[p] + k) % Len(p)) + 1]

(* Mutant: the cursor is not wrapped at the end of the pool.               *)
AdvancedUnwrapped(p, k) == next[p] + k + 1

Advanced(p, k) == (next[p] + k + 1) % Len(p)

(* The first idle worker from the cursor on.                               *)
ReserveIdle(c) ==
  LET p == Pool[c] IN
  /\ pc[c] = "reserving"
  /\ \E k \in 0..(Len(p) - 1) :
       LET w == Turn(p, k) IN
       /\ Idle(w)
       /\ \A j \in 0..(k - 1) : ~Idle(Turn(p, j))
       /\ call' = [call EXCEPT ![w] = c]
       /\ next' = [next EXCEPT ![p] = Advanced(p, k)]
       /\ at' = [at EXCEPT ![c] = w]
  /\ channel' = [channel EXCEPT ![c] = "empty"]
  /\ pc' = [pc EXCEPT ![c] = "reserved"]
  /\ UNCHANGED <<registered, instance, phase, inbox, woken, oversized, taken, expired, written, result>>

(* Nobody idle: reserve returns the channel to wait on, read in the same   *)
(* critical section.                                                       *)
ReserveBusy(c) ==
  /\ pc[c] = "reserving"
  /\ \E w \in Members(Pool[c]) : registered[w]
  /\ \A w \in Members(Pool[c]) : ~Idle(w)
  /\ pc' = [pc EXCEPT ![c] = "waiting"]
  /\ UNCHANGED <<workers, woken, oversized, at, taken, expired, channel, written, result>>

ReserveNobody(c) ==
  /\ pc[c] = "reserving"
  /\ \A w \in Members(Pool[c]) : ~registered[w]
  /\ Return(c, "unregistered")
  /\ UNCHANGED <<workers, woken, oversized, at, taken, expired, channel, written>>

Wake(c) ==
  /\ pc[c] = "waiting" /\ c \in woken
  /\ pc' = [pc EXCEPT ![c] = "reserving"]
  /\ woken' = woken \ {c}
  /\ UNCHANGED <<workers, oversized, at, taken, expired, channel, written, result>>

StopWaiting(c) ==
  /\ pc[c] = "waiting" /\ expired[c]
  /\ woken' = woken \ {c}
  /\ Return(c, "no worker")
  /\ UNCHANGED <<workers, oversized, at, taken, expired, channel, written>>

Refuse(c) ==
  /\ pc[c] = "reserved" /\ c \in oversized
  /\ Release(at[c], c)
  /\ Return(c, "oversized")
  /\ UNCHANGED <<registered, instance, phase, next, inbox, oversized, at, taken, expired, channel, written>>

(* invoke reads worker.session in a critical section of its own, after the *)
(* one that reserved the worker.                                           *)
TakeSession(c) ==
  /\ pc[c] = "reserved" /\ c \notin oversized /\ phase[at[c]] = "serving"
  /\ taken' = [taken EXCEPT ![c] = instance[at[c]]]
  /\ pc' = [pc EXCEPT ![c] = "writing"]
  /\ UNCHANGED <<workers, woken, oversized, at, expired, channel, written, result>>

NoSession(c) ==
  /\ pc[c] = "reserved" /\ c \notin oversized /\ phase[at[c]] # "serving"
  /\ Release(at[c], c)
  /\ Retry(c)
  /\ UNCHANGED <<registered, instance, phase, next, inbox, oversized, at, taken, expired, channel, written>>

Current(c) == phase[at[c]] # "absent" /\ instance[at[c]] = taken[c]

(* A write may still succeed on a failed session: fail detaches it before  *)
(* it closes the pipe.                                                     *)
Write(c) ==
  /\ pc[c] = "writing" /\ Current(c)
  /\ inbox' = [inbox EXCEPT ![at[c]] = @ \union {c}]
  /\ written' = [written EXCEPT ![c] = @ + 1]
  /\ pc' = [pc EXCEPT ![c] = "sent"]
  /\ UNCHANGED <<registered, instance, phase, call, next, woken, oversized, at, taken, expired, channel, result>>

PipeClosed(c) == ~Current(c) \/ phase[at[c]] = "failed"

(* Mutant: a write the worker does not read is not interrupted.            *)
WriteGivesUpWhenClosed(c) == PipeClosed(c)

(* The pipe is closed, or full until the caller's context ended.           *)
WriteGivesUp(c) == PipeClosed(c) \/ expired[c]

WriteFails(c) ==
  /\ pc[c] = "writing" /\ WriteGivesUp(c)
  /\ IF Current(c) THEN FailSession(at[c]) ELSE UNCHANGED <<phase, call, channel, woken>>
  /\ Retry(c)
  /\ UNCHANGED <<registered, instance, next, inbox, oversized, at, taken, expired, written>>

(* Mutant: an error of the session is retried as one of the write is.      *)
ReceiveOrRetry(c) ==
  /\ pc[c] = "sent" /\ channel[c] # "empty"
  /\ IF channel[c] = "closed" THEN Retry(c) ELSE Return(c, channel[c])
  /\ UNCHANGED <<workers, woken, oversized, at, taken, expired, channel, written>>

Receive(c) ==
  /\ pc[c] = "sent" /\ channel[c] # "empty"
  /\ Return(c, channel[c])
  /\ UNCHANGED <<workers, woken, oversized, at, taken, expired, channel, written>>

(* Mutant: the caller that gives up releases its worker.                   *)
StopListeningAndRelease(c) ==
  /\ pc[c] = "sent" /\ expired[c]
  /\ Release(at[c], c)
  /\ Return(c, "timeout")
  /\ UNCHANGED <<registered, instance, phase, next, inbox, oversized, at, taken, expired, channel, written>>

(* The worker stays reserved for the late answer.                          *)
StopListening(c) ==
  /\ pc[c] = "sent" /\ expired[c]
  /\ Return(c, "timeout")
  /\ UNCHANGED <<workers, woken, oversized, at, taken, expired, channel, written>>

Expire(c) ==
  /\ pc[c] # "done" /\ ~expired[c]
  /\ expired' = [expired EXCEPT ![c] = TRUE]
  /\ UNCHANGED <<workers, woken, oversized, pc, at, taken, channel, written, result>>

Terminated ==
  /\ \A c \in Callers : pc[c] = "done"
  /\ \A w \in Workers : ~registered[w]
  /\ UNCHANGED vars

(* What the call's own goroutine does, a successful write apart: a pipe    *)
(* nobody reads may stay full.                                             *)
Goroutine(c) ==
  \/ ReserveIdle(c) \/ ReserveBusy(c) \/ ReserveNobody(c)
  \/ Wake(c) \/ StopWaiting(c)
  \/ Refuse(c) \/ TakeSession(c) \/ NoSession(c)
  \/ WriteFails(c)
  \/ Receive(c) \/ StopListening(c)

Lifecycle(w) == Launch(w) \/ Attach(w) \/ Close(w) \/ Malformed(w) \/ Forget(w)

Next ==
  \/ \E c \in Callers : Goroutine(c) \/ Write(c) \/ Expire(c)
  \/ \E w \in Workers : Lifecycle(w) \/ \E c \in Callers : Answer(w, c)
  \/ Terminated

Spec == Init /\ [][Next]_vars

(* Goroutines run on and timers fire; of the instances nothing is assumed. *)
FairSpec == Spec /\ \A c \in Callers : WF_vars(Goroutine(c)) /\ WF_vars(Expire(c))

-----------------------------------------------------------------------------
TypeOK ==
  /\ registered \in [Workers -> BOOLEAN]
  /\ instance \in [Workers -> Nat] /\ \A w \in Workers : instance[w] <= MaxInstances[w]
  /\ phase \in [Workers -> {"absent", "starting", "serving", "failed"}]
  /\ call \in [Workers -> Callers \union {None}]
  /\ next \in [Pools -> Nat] /\ \A p \in Pools : next[p] < Len(p)
  /\ inbox \in [Workers -> SUBSET Callers]
  /\ pc \in [Callers -> {"reserving", "waiting", "reserved", "writing", "sent", "done"}]
  /\ at \in [Callers -> Workers \union {None}]
  /\ \A c \in Callers : pc[c] \in {"reserved", "writing", "sent"} => at[c] \in Workers
  /\ taken \in [Callers -> Nat]
  /\ oversized \subseteq Callers
  /\ expired \in [Callers -> BOOLEAN]
  /\ woken \subseteq Callers
  /\ channel \in [Callers -> {"empty", "closed", "answer", "blocked"}]
  /\ written \in [Callers -> Nat]
  /\ result \in [Callers -> {"none", "unregistered", "no worker", "oversized", "unsent",
                             "closed", "answer", "timeout", "blocked"}]

(* reserve and signalLocked: no call sleeps on while a worker of its pool  *)
(* is idle, or once the last one left the registry.                        *)
NoLostWakeup ==
  \A c \in Callers : pc[c] = "waiting" /\ c \notin woken =>
    /\ \E w \in Members(Pool[c]) : registered[w]
    /\ \A w \in Members(Pool[c]) : ~Idle(w)

(* invoke's "A request that was written is never sent again, even when its *)
(* answer never arrives": a request is written at most once over all       *)
(* attempts and instances, an error that says it was not sent is true, an  *)
(* answer is to a request that was, and no second response blocks the      *)
(* registry.                                                               *)
CallIsHonest ==
  \A c \in Callers :
    /\ written[c] <= 1
    /\ result[c] \in {"unregistered", "no worker", "oversized", "unsent"} => written[c] = 0
    /\ result[c] \in {"answer", "closed", "timeout"} => written[c] = 1
    /\ channel[c] # "blocked"

(* The safety of calls: types, no wakeup missed, no request sent twice and *)
(* none misreported.                                                       *)
Safety == TypeOK /\ NoLostWakeup /\ CallIsHonest

(* The late response of a call that timed out finds its worker still       *)
(* reserved: while an instance owes an answer to the call it is reserved   *)
(* for, only that answer or the end of the session frees it.               *)
HeldUntilAnswered ==
  [][\A w \in Workers : \A c \in inbox[w] :
       call[w] = c /\ call'[w] # c => c \notin inbox'[w] \/ phase'[w] # "serving"]_vars

(* process_call's timeout: every call returns, whatever the instances do.  *)
CallsReturn == \A c \in Callers : <>(pc[c] = "done")

(* docs/steps-automation.md: "permits one in-flight request per worker".   *)
OneInFlight == \A w \in Workers : Cardinality(inbox[w]) <= 1
=============================================================================
