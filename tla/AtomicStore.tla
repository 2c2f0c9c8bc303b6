----------------------------- MODULE AtomicStore -----------------------------
(***************************************************************************)
(* What keyvalue.Store promises to any number of processes: an operation   *)
(* takes effect at one moment between its call and its return, on the map  *)
(* as it is at that moment, and answers from that same map.  An operation  *)
(* that fails has either no effect or its whole effect; one whose process  *)
(* died likewise.                                                          *)
(***************************************************************************)
EXTENDS StoreOperations

CONSTANTS Clients

VARIABLES store, status, op, answer

avars == <<store, status, op, answer>>

Init ==
  /\ store \in Maps
  /\ status = [c \in Clients |-> "idle"]
  /\ op = [c \in Clients |-> NoOp]
  /\ answer = [c \in Clients |-> NoAnswer]

Invoke(c, o) ==
  /\ status[c] = "idle"
  /\ status' = [status EXCEPT ![c] = "pending"]
  /\ op' = [op EXCEPT ![c] = o]
  /\ answer' = [answer EXCEPT ![c] = NoAnswer]
  /\ UNCHANGED store

Commit(c) ==
  /\ status[c] = "pending"
  /\ status' = [status EXCEPT ![c] = "done"]
  /\ store' = Effect(op[c], store)
  /\ answer' = [answer EXCEPT ![c] = Answer(op[c], store)]
  /\ UNCHANGED op

Return(c) ==
  /\ status[c] = "done"
  /\ status' = [status EXCEPT ![c] = "idle"]
  /\ op' = [op EXCEPT ![c] = NoOp]
  /\ answer' = [answer EXCEPT ![c] = Delivered]
  /\ UNCHANGED store

(* An error or a crash, before the effect or after it.                     *)
Fail(c) ==
  /\ status[c] # "idle"
  /\ status' = [status EXCEPT ![c] = "idle"]
  /\ op' = [op EXCEPT ![c] = NoOp]
  /\ answer' = [answer EXCEPT ![c] = Error]
  /\ UNCHANGED store

Next ==
  \E c \in Clients :
    (\E o \in Ops : Invoke(c, o)) \/ Commit(c) \/ Return(c) \/ Fail(c)

Spec == Init /\ [][Next]_avars
=============================================================================
