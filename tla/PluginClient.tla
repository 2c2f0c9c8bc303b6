----------------------------- MODULE PluginClient -----------------------------
(***************************************************************************)
(* The host's end of a plugin connection, client of plugin/client.go:      *)
(* callers that register a call, send it and wait (callWithOptions, with   *)
(* the two drains), the goroutine that reads the plugin's frames, the      *)
(* handlers of host callbacks with their budget and the writer of refused  *)
(* ones, and close.                                                        *)
(*                                                                         *)
(* stage[i] of a call:                                                     *)
(*   "send" -> "wait" -> "returned", and after a refused event or an ended *)
(*   context "tellX" (the cancel notification is written) -> "drainX" ->   *)
(*   "returned".  X is Event (a stream writer refused a chunk), Cancel     *)
(*   (cancelled, waiting for the last answer) or Leave (cancelled, not     *)
(*   waiting: nothing to drain).                                           *)
(* mailbox[i] is the buffered response channel; sink[i] is callState:      *)
(* "attached" until detach, or "failed" when its event writer refused a    *)
(* chunk (which detaches it as well).                                      *)
(***************************************************************************)
EXTENDS PluginWire

CONSTANTS MaxHostCalls,    \* maxConcurrentHostCalls
          MaxRefused       \* maxRefusedHostCalls

ASSUME ClientAssumption == MaxHostCalls \in Nat \ {0} /\ MaxRefused \in Nat \ {0}

VARIABLES stage, outcome,
          ended,             \* the calls whose context has ended
          pending, mailbox, sink,
          reader,            \* where the reading goroutine is, and on which call
          readErr, handler,  \* handler[b]: the goroutine of host callback b
          stalled,           \* a writer gave up on the plugin and closed its input
          closer             \* "no", "reaping", "signalled", "closed"

callers == <<stage, outcome, ended>>
calls == <<pending, mailbox, sink>>
client == <<callers, calls, reader, readErr, handler, stalled, closer>>

Telling == {"tellEvent", "tellCancel", "tellLeave"}
Draining == {"drainEvent", "drainCancel"}
Holding == {"lookup", "run", "reply"}       \* a callback that counts against the budget

ClientInit ==
  /\ stage = [i \in Ids |-> "idle"] /\ outcome = [i \in Ids |-> "none"] /\ ended = {}
  /\ pending = {} /\ mailbox = [i \in Ids |-> "empty"] /\ sink = [i \in Ids |-> "detached"]
  /\ reader = [at |-> "reading", on |-> Shutdown] /\ readErr = "none"
  /\ handler = [b \in Callbacks |-> "none"] /\ stalled = FALSE /\ closer = "no"

ClientType ==
  /\ stage \in [Ids -> {"idle", "send", "wait", "returned"} \union Telling \union Draining]
  /\ outcome \in [Ids -> {"none", "refused", "unsent", "answer", "failure", "canceled", "timeout", "lost"}]
  /\ ended \subseteq Ids /\ pending \subseteq Ids
  /\ mailbox \in [Ids -> {"empty", "answer", "failure"}]
  /\ sink \in [Ids -> {"attached", "failed", "detached"}]
  /\ reader \in [at : {"reading", "looked", "inSink", "handing", "ended"}, on : Ids]
  /\ readErr \in {"none", "unknown", "backpressure", "eof", "drain"}
  /\ handler \in [Callbacks -> {"none", "refused", "refusing", "done"} \union Holding]
  /\ stalled \in BOOLEAN /\ closer \in {"no", "reaping", "signalled", "closed"}

At(states) == {b \in Callbacks : handler[b] \in states}
FreeToDetach(i) == reader # [at |-> "inSink", on |-> i]    \* callState.mu is not held by deliver
Detached(s) == IF s = "attached" THEN "detached" ELSE s
Detach(i) == FreeToDetach(i) /\ sink' = [sink EXCEPT ![i] = Detached(@)]
Return(i, how) ==
  /\ stage' = [stage EXCEPT ![i] = "returned"] /\ outcome' = [outcome EXCEPT ![i] = how]
  /\ UNCHANGED ended
Advance(i, to) == stage' = [stage EXCEPT ![i] = to] /\ UNCHANGED <<outcome, ended>>

FailForgetsPending(err) ==
  IF readErr # "none" THEN UNCHANGED <<readErr, calls>>
  ELSE readErr' = err /\ pending' = {} /\ UNCHANGED <<mailbox, sink>>
(* client.fail: the first failure answers every call still pending.  An event being      *)
(* delivered finishes; its caller detaches the sink when it takes the failure.           *)
Fail(err) ==
  IF readErr # "none" THEN UNCHANGED <<readErr, calls>>
  ELSE /\ readErr' = err /\ pending' = {}
       /\ mailbox' = [i \in Ids |-> IF i \in pending THEN "failure" ELSE mailbox[i]]
       /\ sink' = [i \in Ids |-> IF i \in pending /\ FreeToDetach(i) THEN Detached(sink[i]) ELSE sink[i]]

-----------------------------------------------------------------------------
(* writeFrame: a frame is written once there is room, refused by a closed or broken      *)
(* input, or given up after its grace period, which closes the plugin's input; the       *)
(* frame may then be torn or have been written at the last moment.                       *)
Written(frame) ==
  /\ input = "open" /\ proc # "exited" /\ HasRoom(toPlugin)
  /\ toPlugin' = Append(toPlugin, frame) /\ UNCHANGED <<scene, toHost, input, proc, stalled>>
Unwritable == (input = "closed" \/ proc = "exited") /\ UNCHANGED <<wire, stalled>>
Interrupted(frame) ==
  /\ input = "open" /\ proc # "exited" /\ input' = "closed" /\ stalled' = TRUE
  /\ toPlugin' \in {toPlugin, Append(toPlugin, IF HasRoom(toPlugin) THEN frame ELSE Torn)}
  /\ UNCHANGED <<scene, toHost, proc>>
WriteTimesOut(frame) == ~HasRoom(toPlugin) /\ Interrupted(frame)     \* unsolicitedWriteTimeout

Request(i) == [kind |-> "request", id |-> i]
Cancel(i) == [kind |-> "cancel", id |-> i]
Reply(b) == [kind |-> "reply", id |-> b]

-----------------------------------------------------------------------------
(* callWithOptions. *)
Call(i) ==
  /\ i \in scene.calls /\ stage[i] = "idle"
  /\ \/ /\ readErr = "none" /\ Advance(i, "send") /\ pending' = pending \union {i}
        /\ sink' = [sink EXCEPT ![i] = "attached"] /\ UNCHANGED mailbox
     \/ readErr # "none" /\ Return(i, "refused") /\ UNCHANGED calls
  /\ UNCHANGED <<wire, reader, readErr, handler, stalled, closer>>

ContextEnds(i) ==
  /\ i \in scene.gives \union {Shutdown} /\ stage[i] \notin {"idle", "returned"} /\ i \notin ended /\ ended' = ended \union {i}
  /\ UNCHANGED <<wire, stage, outcome, calls, reader, readErr, handler, stalled, closer>>

Send(i) ==
  /\ stage[i] = "send" /\ Written(Request(i)) /\ Advance(i, "wait")
  /\ UNCHANGED <<calls, reader, readErr, handler, closer>>

SendFails(i) ==
  /\ stage[i] = "send"
  /\ \/ Unwritable
     \/ i \in ended /\ Interrupted(Request(i))
     \/ i \in scene.unframed /\ UNCHANGED <<wire, stalled>>
  /\ pending' = pending \ {i} /\ Detach(i) /\ Return(i, "unsent")
  /\ UNCHANGED <<mailbox, reader, readErr, handler, closer>>

Receive(i) ==
  /\ stage[i] \in {"wait"} \union Draining /\ mailbox[i] # "empty"
  /\ Detach(i) /\ Return(i, mailbox[i])
  /\ UNCHANGED <<wire, pending, mailbox, reader, readErr, handler, stalled, closer>>

WriterFailed(i) ==
  /\ stage[i] = "wait" /\ sink[i] = "failed" /\ Advance(i, "tellEvent")
  /\ UNCHANGED <<wire, calls, reader, readErr, handler, stalled, closer>>

GiveUpAndForget(i) ==
  /\ stage[i] = "wait" /\ i \in ended
  /\ IF i \in scene.drains THEN Advance(i, "tellCancel") /\ UNCHANGED sink
                     ELSE Detach(i) /\ Advance(i, "tellLeave")
  /\ pending' = pending \ {i}
  /\ UNCHANGED <<wire, mailbox, reader, readErr, handler, stalled, closer>>
GiveUpUnlocked(i) ==
  /\ stage[i] = "wait" /\ i \in ended
  /\ IF i \in scene.drains THEN Advance(i, "tellCancel") /\ UNCHANGED sink
                     ELSE sink' = [sink EXCEPT ![i] = Detached(@)] /\ Advance(i, "tellLeave")
  /\ UNCHANGED <<wire, pending, mailbox, reader, readErr, handler, stalled, closer>>
(* Without a drain window the sinks go first; the entry stays registered. *)
GiveUp(i) ==
  /\ stage[i] = "wait" /\ i \in ended
  /\ IF i \in scene.drains THEN Advance(i, "tellCancel") /\ UNCHANGED sink
                     ELSE Detach(i) /\ Advance(i, "tellLeave")
  /\ UNCHANGED <<wire, pending, mailbox, reader, readErr, handler, stalled, closer>>

Notify(i) ==
  /\ stage[i] \in Telling
  /\ Written(Cancel(i)) \/ Unwritable \/ WriteTimesOut(Cancel(i))
  /\ CASE stage[i] = "tellEvent" -> Advance(i, "drainEvent")
       [] stage[i] = "tellCancel" -> Advance(i, "drainCancel")
       [] stage[i] = "tellLeave" -> Return(i, "canceled")
  /\ UNCHANGED <<calls, reader, readErr, handler, closer>>

(* A plugin that does not answer after its stream was refused condemns the connection. *)
DrainEventEnds(i) ==
  /\ stage[i] = "drainEvent"
  /\ \/ Fail("drain") /\ Return(i, "timeout")
     \/ readErr # "none" /\ Return(i, "lost") /\ UNCHANGED <<readErr, calls>>
     \/ i \in ended /\ Return(i, "canceled") /\ UNCHANGED <<readErr, calls>>
  /\ UNCHANGED <<wire, reader, handler, stalled, closer>>

DrainCancelEnds(i) ==
  /\ stage[i] = "drainCancel" /\ Detach(i)
  /\ \/ Return(i, "timeout")
     \/ readErr # "none" /\ Return(i, IF mailbox[i] # "empty" THEN mailbox[i] ELSE "lost")
  /\ UNCHANGED <<wire, pending, mailbox, reader, readErr, handler, stalled, closer>>

Caller(i) == Call(i) \/ Send(i) \/ SendFails(i) \/ Receive(i) \/ WriterFailed(i) \/ GiveUp(i)
               \/ Notify(i) \/ DrainEventEnds(i) \/ DrainCancelEnds(i)

-----------------------------------------------------------------------------
(* The reading goroutine. *)
Taken == toHost' = Tail(toHost) /\ UNCHANGED <<scene, toPlugin, input, proc>>
Reading(at, i) == reader' = [at |-> at, on |-> i]
Condemn(err) == Fail(err) /\ Reading("ended", Shutdown)

WithinBudgetOrOne == Cardinality(At(Holding)) <= MaxHostCalls
WithinBudget == Cardinality(At(Holding)) < MaxHostCalls

ReadAsk ==
  /\ reader.at = "reading" /\ Heads(toHost, "ask") /\ Taken
  /\ LET b == Head(toHost).id IN
     \/ /\ WithinBudget /\ handler' = [handler EXCEPT ![b] = "lookup"]
        /\ UNCHANGED <<reader, readErr, calls>>
     \/ /\ ~WithinBudget /\ Cardinality(At({"refused"})) < MaxRefused
        /\ handler' = [handler EXCEPT ![b] = "refused"] /\ UNCHANGED <<reader, readErr, calls>>
     \/ /\ ~WithinBudget /\ Cardinality(At({"refused"})) >= MaxRefused
        /\ Condemn("backpressure") /\ UNCHANGED handler
  /\ UNCHANGED <<callers, stalled, closer>>

ReadAnswer ==
  /\ reader.at = "reading" /\ Heads(toHost, "answer") /\ Taken
  /\ LET i == Head(toHost).id IN
     IF i \in pending
     THEN pending' = pending \ {i} /\ Reading("handing", i) /\ UNCHANGED <<mailbox, sink, readErr>>
     ELSE Condemn("unknown")
  /\ UNCHANGED <<callers, handler, stalled, closer>>

HandOver ==
  /\ reader.at = "handing" /\ mailbox' = [mailbox EXCEPT ![reader.on] = "answer"]
  /\ Reading("reading", Shutdown)
  /\ UNCHANGED <<wire, callers, pending, sink, readErr, handler, stalled, closer>>

ReadEvent ==
  /\ reader.at = "reading" /\ Heads(toHost, "event") /\ Taken
  /\ LET i == Head(toHost).id IN
     IF i \in pending THEN Reading("looked", i) /\ UNCHANGED <<calls, readErr>>
     ELSE Condemn("unknown")
  /\ UNCHANGED <<callers, handler, stalled, closer>>

(* callState.deliver: the sink runs under the call's lock, if the call still has one. *)
Deliver ==
  /\ \/ /\ reader.at = "looked"
        /\ IF sink[reader.on] = "attached" THEN Reading("inSink", reader.on) ELSE Reading("reading", Shutdown)
        /\ UNCHANGED sink
     \/ /\ reader.at = "inSink" /\ Reading("reading", Shutdown)
        /\ \/ UNCHANGED sink
           \/ sink' = [sink EXCEPT ![reader.on] = "failed"]
  /\ UNCHANGED <<wire, callers, pending, mailbox, readErr, handler, stalled, closer>>

(* The plugin's output has ended; Wait closes it as soon as the plugin has exited, read  *)
(* or not.                                                                               *)
ReadEnds ==
  /\ reader.at = "reading" /\ proc = "exited" /\ (toHost = <<>> \/ closer # "no")
  /\ Condemn("eof")
  /\ UNCHANGED <<wire, callers, handler, stalled, closer>>

Reader == ReadAsk \/ ReadAnswer \/ HandOver \/ ReadEvent \/ Deliver \/ ReadEnds

-----------------------------------------------------------------------------
(* Host callbacks: handleHostCall, and the writer of refusals. *)
LookUp(b) ==
  /\ handler[b] = "lookup" /\ (b[1] \in pending => FreeToDetach(b[1]))
  /\ handler' = [handler EXCEPT ![b] =
       IF b[1] \in pending /\ sink[b[1]] = "attached" THEN "run" ELSE "reply"]
  /\ UNCHANGED <<wire, callers, calls, reader, readErr, stalled, closer>>

HandlerEnds(b) ==
  /\ handler[b] = "run" /\ handler' = [handler EXCEPT ![b] = "reply"]
  /\ UNCHANGED <<wire, callers, calls, reader, readErr, stalled, closer>>

TakeRefusal(b) ==
  /\ handler[b] = "refused" /\ At({"refusing"}) = {}
  /\ handler' = [handler EXCEPT ![b] = "refusing"]
  /\ UNCHANGED <<wire, callers, calls, reader, readErr, stalled, closer>>

WriteReply(b) ==
  /\ handler[b] \in {"reply", "refusing"} /\ handler' = [handler EXCEPT ![b] = "done"]
  /\ Written(Reply(b)) \/ Unwritable \/ WriteTimesOut(Reply(b))
  /\ UNCHANGED <<callers, calls, reader, readErr, closer>>

Handler(b) == LookUp(b) \/ HandlerEnds(b) \/ WriteReply(b)

-----------------------------------------------------------------------------
(* close, after its shutdown call has returned. *)
Writing == At({"reply", "refusing"}) # {} \/ \E i \in Ids : stage[i] \in {"send"} \union Telling

CloseInput ==
  /\ stage[Shutdown] = "returned" /\ closer = "no"
  /\ closer' = "reaping" /\ input' = "closed"
  /\ \/ UNCHANGED toPlugin
     \/ input = "open" /\ ~HasRoom(toPlugin) /\ Writing /\ toPlugin' = Append(toPlugin, Torn)
  /\ UNCHANGED <<scene, toHost, proc, callers, calls, reader, readErr, handler, stalled>>

(* SIGTERM once close's context has ended, SIGKILL two seconds later. *)
Signal ==
  /\ proc # "exited"
  /\ \/ /\ closer = "reaping" /\ Shutdown \in ended /\ closer' = "signalled"
        /\ proc' \in {proc, "exited"}
     \/ closer = "signalled" /\ proc' = "exited" /\ UNCHANGED closer
  /\ UNCHANGED <<scene, toPlugin, toHost, input, callers, calls, reader, readErr, handler, stalled>>

Reap ==
  /\ closer \in {"reaping", "signalled"} /\ proc = "exited" /\ closer' = "closed"
  /\ UNCHANGED <<wire, callers, calls, reader, readErr, handler, stalled>>

(* close's own context has a deadline, which may pass after its call has returned. *)
CloseExpires ==
  /\ closer = "reaping" /\ Shutdown \notin ended /\ ended' = ended \union {Shutdown}
  /\ UNCHANGED <<wire, stage, outcome, calls, reader, readErr, handler, stalled, closer>>

Closing == CloseInput \/ Signal \/ Reap \/ CloseExpires

ClientNext ==
  \/ \E i \in Ids : Caller(i) \/ ContextEnds(i)
  \/ Reader
  \/ \E b \in Callbacks : Handler(b) \/ TakeRefusal(b)
  \/ Closing
=============================================================================
