--------------------------- MODULE PluginLinkProofs ---------------------------
(***************************************************************************)
(* Theorems about PluginLink, for any calls, uses of the connection,       *)
(* capacities of the pipes and limits.  IInv is inductive.  Its parts: the *)
(* wire and the limits (Bounded), the sinks of a call through its return   *)
(* (SinkOrder), where the one request of a call has got to (RequestOrder,  *)
(* RequestsKept, RequestsLive), where a callback has (CallbackOrder,       *)
(* CallbacksKept, CallbacksLive), and what precedes the shutdown reply     *)
(* (ShutdownOrder).                                                        *)
(***************************************************************************)
EXTENDS PluginLink, FiniteSetTheorems, TLAPS

Carries(pipe, f) == \E p \in 1..Len(pipe) : pipe[p] = f
Single(pipe, f) == \A p, q \in 1..Len(pipe) : pipe[p] = f /\ pipe[q] = f => p = q
Ordered(pipe, e, f) == \A p, q \in 1..Len(pipe) : pipe[p] = e /\ pipe[q] = f => p < q

AnswerOf(i) == [kind |-> "answer", id |-> i]
EventOf(c) == [kind |-> "event", id |-> c]
AskOf(b) == [kind |-> "ask", id |-> b]

(* The input is closed by a writer that gave up on the plugin or by close, *)
(* and only then may hold a torn frame; callbacks under way are finitely   *)
(* many, and a handler that waits has asked for one.                       *)
Bounded ==
  /\ TypeOK
  /\ IsFiniteSet(At(Holding)) /\ IsFiniteSet(At({"refused"}))
  /\ input = "open" => Len(toPlugin) <= Room
  /\ \A c \in Calls : worker[c] \in {"ask", "await"} => asked[c] # 0
  /\ input = "closed" <=> stalled \/ closer # "no"
  /\ Carries(toPlugin, Torn) => input = "closed"

(* A sink is attached by the call and given back before its return; the    *)
(* one an event is delivered to stays.                                     *)
SinkOrder ==
  /\ reader.at = "inSink" => sink[reader.on] = "attached"
  /\ \A i \in Ids :
       /\ stage[i] = "idle" => sink[i] = "detached"
       /\ stage[i] \in {"tellEvent", "drainEvent"} => sink[i] = "failed"
       /\ stage[i] \in {"tellLeave", "returned"} => sink[i] # "attached"

(* The plugin has not read the request yet, or owes its answer.            *)
Unread(i) == IF i = Shutdown THEN ~shuttingDown ELSE worker[i] = "none"
Owed(i) == IF i = Shutdown THEN shutdownReply = "owed"
           ELSE worker[i] \in {"work", "ask", "await", "reply", "refuse"}
Answered(i) == IF i = Shutdown THEN shutdownReply = "sent" ELSE worker[i] \in {"gone", "refused"}

(* A call has one request, written once and read once; its answer is       *)
(* written once, after its events.                                         *)
RequestOrder ==
  /\ shutdownReply # "none" => shuttingDown
  /\ \A i \in Ids :
       /\ stage[i] \in {"idle", "send"} => Unread(i) /\ ~Carries(toPlugin, Request(i))
       /\ Carries(toPlugin, Request(i)) => Unread(i)
       /\ Single(toPlugin, Request(i))
       /\ Carries(toHost, AnswerOf(i)) => Answered(i)
       /\ Single(toHost, AnswerOf(i))
       /\ Carries(toHost, EventOf(i)) => ~Unread(i)
       /\ Ordered(toHost, EventOf(i), AnswerOf(i))

(* Unless a writer gave up on the plugin, the host remembers every call    *)
(* whose request is on its way or whose answer is.                         *)
RequestsKept ==
  /\ readErr # "none" => pending = {}
  /\ \A i \in Ids :
       /\ stage[i] = "idle" => i \notin pending
       /\ stage[i] = "send" /\ readErr = "none" => i \in pending
       /\ \/ Carries(toPlugin, Request(i)) \/ Owed(i)
          \/ Carries(toHost, AnswerOf(i)) \/ Carries(toHost, EventOf(i))
          => stalled \/ readErr # "none" \/ i \in pending

Healthy == readErr = "none" /\ input = "open" /\ proc = "running"

(* What the host remembers is still on its way, unless its reply made no   *)
(* frame.                                                                  *)
RequestsLive ==
  Healthy => \A i \in pending :
    \/ stage[i] = "send" \/ Carries(toPlugin, Request(i)) \/ Owed(i)
    \/ Carries(toHost, AnswerOf(i)) \/ i \in Dropped

(* The last callback of its request; one registered and not yet written;   *)
(* one the host is handling.                                               *)
Latest(b) == b[2] = asked[b[1]]
Unwritten(b) == worker[b[1]] = "ask" /\ Latest(b)
Handled(b) == handler[b] \notin {"none", "done"}

(* A callback is asked once, handled once and replied to once.             *)
CallbackOrder ==
  \A b \in Callbacks :
    /\ b[2] > asked[b[1]] =>
         handler[b] = "none" /\ ~Carries(toHost, AskOf(b)) /\ b \notin callbacks \union abandoned
    /\ Unwritten(b) => handler[b] = "none" /\ ~Carries(toHost, AskOf(b)) /\ b \notin abandoned
    /\ Carries(toHost, AskOf(b)) => handler[b] = "none"
    /\ Single(toHost, AskOf(b))
    /\ Carries(toPlugin, Reply(b)) => handler[b] = "done"
    /\ Single(toPlugin, Reply(b))

(* The plugin remembers every callback whose reply may still come.         *)
CallbacksKept ==
  \A b \in Callbacks :
    /\ Unwritten(b) \/ Carries(toHost, AskOf(b)) \/ Handled(b) \/ Carries(toPlugin, Reply(b)) =>
         b \in callbacks \union abandoned
    /\ b \in callbacks => worker[b[1]] \in {"ask", "await"} /\ Latest(b)
    /\ b \in routed => worker[b[1]] = "await" /\ Latest(b) /\ b \notin callbacks

(* What the plugin remembers is still on its way.                          *)
CallbacksLive ==
  Healthy => \A b \in callbacks \union abandoned :
    Unwritten(b) \/ Carries(toHost, AskOf(b)) \/ Handled(b) \/ Carries(toPlugin, Reply(b))

(* The shutdown reply is written when every handler has ended, behind      *)
(* their answers.                                                          *)
ShutdownOrder ==
  /\ shutdownReply = "sent" => Active = {}
  /\ \A c \in Calls : worker[c] = "gone" =>
       /\ c \in pending => Carries(toHost, AnswerOf(c))
       /\ Ordered(toHost, AnswerOf(c), AnswerOf(Shutdown))
  /\ reader = [at |-> "handing", on |-> Shutdown] \/ mailbox[Shutdown] = "answer" =>
       /\ shutdownReply = "sent"
       /\ \A c \in Calls : worker[c] = "gone" => c \notin pending

IInv ==
  /\ Bounded /\ SinkOrder /\ RequestOrder /\ RequestsKept /\ RequestsLive
  /\ CallbackOrder /\ CallbacksKept /\ CallbacksLive /\ ShutdownOrder /\ NeverMisread

-----------------------------------------------------------------------------
(* What a frame written at the end of a pipe changes.                      *)
LEMMA Appended ==
  ASSUME NEW S, NEW pipe \in Seq(S), NEW g \in S
  PROVE  /\ Append(pipe, g) \in Seq(S) /\ Len(Append(pipe, g)) = Len(pipe) + 1
         /\ Append(pipe, g) # << >>
         /\ \A f : Carries(Append(pipe, g), f) <=> Carries(pipe, f) \/ f = g
         /\ \A f : Single(pipe, f) /\ (f = g => ~Carries(pipe, f)) => Single(Append(pipe, g), f)
         /\ \A e, f : Ordered(pipe, e, f) /\ e # f /\ (e = g => ~Carries(pipe, f)) =>
              Ordered(Append(pipe, g), e, f)
<1> DEFINE t == Append(pipe, g)
<1>1. t \in Seq(S) /\ Len(t) = Len(pipe) + 1 /\ Len(pipe) \in Nat
  OBVIOUS
<1>2. \A p \in 1..Len(pipe) : t[p] = pipe[p]
  OBVIOUS
<1>3. t[Len(pipe) + 1] = g
  OBVIOUS
<1>4. 1..Len(t) = 1..Len(pipe) \cup {Len(pipe) + 1}
  BY <1>1
<1> HIDE DEF t
<1>5. t # << >>
  BY <1>1
<1>6. \A f : Carries(t, f) <=> Carries(pipe, f) \/ f = g
  BY <1>1, <1>2, <1>3, <1>4 DEF Carries
<1>7. \A f : Single(pipe, f) /\ (f = g => ~Carries(pipe, f)) => Single(t, f)
  BY <1>1, <1>2, <1>3, <1>4 DEF Carries, Single
<1>8. \A e, f : Ordered(pipe, e, f) /\ e # f /\ (e = g => ~Carries(pipe, f)) => Ordered(t, e, f)
  BY <1>1, <1>2, <1>3, <1>4 DEF Carries, Ordered
<1> QED
  BY <1>1, <1>5, <1>6, <1>7, <1>8 DEF t

(* What reading the first frame of a pipe changes.                         *)
LEMMA Consumption ==
  ASSUME NEW S, NEW pipe \in Seq(S), pipe # << >>
  PROVE  /\ Tail(pipe) \in Seq(S) /\ Len(Tail(pipe)) = Len(pipe) - 1 /\ Head(pipe) \in S
         /\ Len(pipe) \in Nat
         /\ \A f : Carries(pipe, f) <=> f = Head(pipe) \/ Carries(Tail(pipe), f)
         /\ \A f : Single(pipe, f) =>
              Single(Tail(pipe), f) /\ (f = Head(pipe) => ~Carries(Tail(pipe), f))
         /\ \A e, f : Ordered(pipe, e, f) =>
              Ordered(Tail(pipe), e, f) /\ (f = Head(pipe) => ~Carries(pipe, e))
<1> DEFINE t == Tail(pipe)
<1>1. t \in Seq(S) /\ Len(t) = Len(pipe) - 1 /\ Len(pipe) \in Nat /\ Len(pipe) > 0
  OBVIOUS
<1>2. \A p \in 1..Len(t) : t[p] = pipe[p + 1]
  OBVIOUS
<1>3. Head(pipe) = pipe[1] /\ Head(pipe) \in S
  OBVIOUS
<1> HIDE DEF t
<1>4. \A p \in 1..Len(pipe) : p = 1 \/ (p - 1 \in 1..Len(t) /\ pipe[p] = t[p - 1])
  BY <1>1, <1>2
<1>5. \A p \in 1..Len(t) : p + 1 \in 1..Len(pipe) /\ p + 1 # 1
  BY <1>1
<1>6. 1 \in 1..Len(pipe)
  BY <1>1
<1>7. ASSUME NEW f PROVE Carries(pipe, f) <=> f = Head(pipe) \/ Carries(t, f)
  BY <1>2, <1>3, <1>4, <1>5, <1>6 DEF Carries
<1>8. ASSUME NEW f, Single(pipe, f)
      PROVE  Single(t, f) /\ (f = Head(pipe) => ~Carries(t, f))
  <2>1. Single(t, f)
    <3> SUFFICES ASSUME NEW p \in 1..Len(t), NEW q \in 1..Len(t), t[p] = f, t[q] = f PROVE p = q
      BY DEF Single
    <3>1. p + 1 = q + 1
      BY <1>2, <1>5, <1>8 DEF Single
    <3> QED
      BY <3>1, <1>1
  <2>2. ASSUME f = Head(pipe) PROVE ~Carries(t, f)
    BY <1>2, <1>3, <1>5, <1>6, <1>8, <2>2 DEF Single, Carries
  <2> QED
    BY <2>1, <2>2
<1>9. ASSUME NEW e, NEW f, Ordered(pipe, e, f)
      PROVE  Ordered(t, e, f) /\ (f = Head(pipe) => ~Carries(pipe, e))
  <2>1. Ordered(t, e, f)
    <3> SUFFICES ASSUME NEW p \in 1..Len(t), NEW q \in 1..Len(t), t[p] = e, t[q] = f PROVE p < q
      BY DEF Ordered
    <3>1. p + 1 < q + 1
      BY <1>2, <1>5, <1>9 DEF Ordered
    <3> QED
      BY <3>1, <1>1
  <2>2. ASSUME f = Head(pipe) PROVE ~Carries(pipe, e)
    BY <1>1, <1>3, <1>6, <1>9, <2>2 DEF Ordered, Carries
  <2> QED
    BY <2>1, <2>2
<1> QED
  BY <1>1, <1>3, <1>7, <1>8, <1>9 DEF t

(* The two changes of a pipe, for what the invariant says of it.           *)
Grown(old, new, g) ==
  /\ Len(new) = Len(old) + 1
  /\ \A f : Carries(new, f) <=> Carries(old, f) \/ f = g
  /\ \A f : Single(old, f) /\ (f = g => ~Carries(old, f)) => Single(new, f)
  /\ \A e, f : Ordered(old, e, f) /\ e # f /\ (e = g => ~Carries(old, f)) => Ordered(new, e, f)

Shrunk(old, new, g) ==
  /\ Len(new) < Len(old)
  /\ \A f : Carries(old, f) <=> f = g \/ Carries(new, f)
  /\ \A f : Single(old, f) => Single(new, f) /\ (f = g => ~Carries(new, f))
  /\ \A e, f : Ordered(old, e, f) => Ordered(new, e, f) /\ (f = g => ~Carries(old, e))

(* An empty pipe carries nothing.                                          *)
LEMMA EmptyPipe ==
  /\ \A f : ~Carries(<< >>, f) /\ Single(<< >>, f)
  /\ \A e, f : Ordered(<< >>, e, f)
  BY DEF Carries, Single, Ordered

(* The kinds of frames are told apart, and so are the frames of a kind.    *)
LEMMA FramesDiffer ==
  /\ \A i, j : /\ Request(i) = Request(j) <=> i = j
               /\ Reply(i) = Reply(j) <=> i = j
               /\ Request(i) # Cancel(j) /\ Request(i) # Reply(j) /\ Reply(i) # Cancel(j)
               /\ Request(i) # Torn /\ Reply(i) # Torn /\ Cancel(i) # Torn
  /\ \A i, j : /\ AnswerOf(i) = AnswerOf(j) <=> i = j
               /\ EventOf(i) = EventOf(j) <=> i = j
               /\ AskOf(i) = AskOf(j) <=> i = j
               /\ AnswerOf(i) # EventOf(j) /\ AnswerOf(i) # AskOf(j) /\ EventOf(i) # AskOf(j)
  BY DEF Request, Cancel, Reply, Torn, AnswerOf, EventOf, AskOf

(* The frames for the plugin, by their kind.                               *)
LEMMA PluginFrames ==
  /\ \A i \in Ids : Request(i) \in ToPlugin /\ Cancel(i) \in ToPlugin
  /\ \A b \in Callbacks : Reply(b) \in ToPlugin
  /\ Torn \in ToPlugin
  /\ \A f \in ToPlugin :
       /\ f.kind = "request" => f.id \in Ids /\ f = Request(f.id)
       /\ f.kind = "cancel" => f.id \in Ids /\ f = Cancel(f.id)
       /\ f.kind = "reply" => f.id \in Callbacks /\ f = Reply(f.id)
       /\ f.kind = "torn" => f = Torn
  BY DEF ToPlugin, Request, Cancel, Reply, Torn, Ids

(* The frames for the host.                                                *)
LEMMA HostFrames ==
  /\ \A i \in Ids : AnswerOf(i) \in ToHost
  /\ \A c \in Calls : EventOf(c) \in ToHost
  /\ \A b \in Callbacks : AskOf(b) \in ToHost
  /\ \A f \in ToHost :
       /\ f.kind = "answer" => f.id \in Ids /\ f = AnswerOf(f.id)
       /\ f.kind = "event" => f.id \in Calls /\ f = EventOf(f.id)
       /\ f.kind = "ask" => f.id \in Callbacks /\ f = AskOf(f.id)
  BY DEF ToHost, AnswerOf, EventOf, AskOf, Ids

-----------------------------------------------------------------------------
(* A frame written to the plugin (writeFrame).                             *)
LEMMA WrittenEffect ==
  ASSUME WireType, NEW g \in ToPlugin, Written(g)
  PROVE  /\ Grown(toPlugin, toPlugin', g) /\ toPlugin' \in Seq(ToPlugin) /\ Len(toPlugin) < Room
         /\ input = "open" /\ proc # "exited" /\ UNCHANGED <<scene, toHost, input, proc, stalled>>
  BY Appended DEF WireType, Written, HasRoom, Grown

(* A write given up leaves nothing, the frame or a torn one behind, and    *)
(* the input closed.                                                       *)
LEMMA InterruptedEffect ==
  ASSUME WireType, NEW g \in ToPlugin, Interrupted(g)
  PROVE  /\ \/ toPlugin' = toPlugin
            \/ Grown(toPlugin, toPlugin', g) /\ Len(toPlugin) < Room
            \/ Grown(toPlugin, toPlugin', Torn)
         /\ toPlugin' \in Seq(ToPlugin)
         /\ input = "open" /\ input' = "closed" /\ stalled' = TRUE
         /\ UNCHANGED <<scene, toHost, proc>>
<1>1. toPlugin \in Seq(ToPlugin) /\ Torn \in ToPlugin
  BY PluginFrames DEF WireType
<1>2. input = "open" /\ input' = "closed" /\ stalled' = TRUE /\ UNCHANGED <<scene, toHost, proc>>
  BY DEF Interrupted
<1>3. \/ toPlugin' = toPlugin
      \/ toPlugin' = Append(toPlugin, g) /\ Len(toPlugin) < Room
      \/ toPlugin' = Append(toPlugin, Torn)
  BY DEF Interrupted, HasRoom
<1>4. \A f \in ToPlugin :
        Append(toPlugin, f) \in Seq(ToPlugin) /\ Grown(toPlugin, Append(toPlugin, f), f)
  BY <1>1, Appended DEF Grown
<1> QED
  BY <1>1, <1>2, <1>3, <1>4

(* A frame written by the plugin (peer.write).                             *)
LEMMA EmitsEffect ==
  ASSUME WireType, NEW kind, NEW i, [kind |-> kind, id |-> i] \in ToHost, Emits(kind, i)
  PROVE  /\ Grown(toHost, toHost', [kind |-> kind, id |-> i]) /\ toHost' \in Seq(ToHost)
         /\ Len(toHost) < Room /\ UNCHANGED <<scene, toPlugin, input, proc>>
  BY Appended DEF WireType, Emits, HasRoom, Grown

(* A frame read by the host.                                               *)
LEMMA TakenEffect ==
  ASSUME WireType, toHost # << >>, Taken
  PROVE  /\ Shrunk(toHost, toHost', Head(toHost)) /\ toHost' \in Seq(ToHost)
              /\ Head(toHost) \in ToHost
         /\ UNCHANGED <<scene, toPlugin, input, proc>>
<1> DEFINE t == Tail(toHost)
<1>1. toHost \in Seq(ToHost) /\ toHost' = t /\ UNCHANGED <<scene, toPlugin, input, proc>>
  BY DEF WireType, Taken
<1> QED
  BY <1>1, Consumption DEF Shrunk

(* A frame read by the plugin.                                             *)
LEMMA ConsumedEffect ==
  ASSUME WireType, toPlugin # << >>, Consumed
  PROVE  /\ Shrunk(toPlugin, toPlugin', Head(toPlugin)) /\ toPlugin' \in Seq(ToPlugin)
         /\ Head(toPlugin) \in ToPlugin /\ UNCHANGED <<scene, toHost, input, proc>>
<1>1. toPlugin \in Seq(ToPlugin) /\ toPlugin' = Tail(toPlugin)
        /\ UNCHANGED <<scene, toHost, input, proc>>
  BY DEF WireType, Consumed
<1> QED
  BY <1>1, Consumption DEF Shrunk

-----------------------------------------------------------------------------
(* What the attempt to write g may leave: a plugin that still reads has g. *)
Attempted(g) ==
  /\ toPlugin' \in Seq(ToPlugin) /\ Len(toPlugin') <= Room + 1
  /\ input' = "open" => Len(toPlugin') <= Room
  /\ \/ toPlugin' = toPlugin
     \/ Grown(toPlugin, toPlugin', g)
     \/ Grown(toPlugin, toPlugin', Torn) /\ input' = "closed"
  /\ \/ UNCHANGED <<input, stalled>>
     \/ input = "open" /\ input' = "closed" /\ stalled' = TRUE
  /\ input' = "open" /\ proc = "running" => Grown(toPlugin, toPlugin', g)
  /\ UNCHANGED <<scene, toHost, proc>>

(* The attempt of any writer of the host.                                  *)
LEMMA AttemptEffect ==
  ASSUME Bounded, NEW g \in ToPlugin, Written(g) \/ Unwritable \/ Interrupted(g)
  PROVE  Attempted(g)
<1>1. WireType /\ Room \in Nat /\ Len(toPlugin) \in Nat
        /\ (input = "open" => Len(toPlugin) <= Room)
  BY WireAssumption DEF Bounded, TypeOK, WireType
<1>2. CASE Written(g)
  BY <1>1, <1>2, WrittenEffect DEF Attempted, Grown
<1>3. CASE Unwritable
  BY <1>1, <1>3 DEF Attempted, Unwritable, wire, WireType
<1>4. CASE Interrupted(g)
  <2>1. input = "open" /\ input' = "closed" /\ stalled' = TRUE
          /\ UNCHANGED <<scene, toHost, proc>>
        /\ toPlugin' \in Seq(ToPlugin)
    BY <1>1, <1>4, InterruptedEffect
  <2>2. \/ toPlugin' = toPlugin
        \/ Grown(toPlugin, toPlugin', g)
        \/ Grown(toPlugin, toPlugin', Torn)
    BY <1>1, <1>4, InterruptedEffect
  <2>3. Len(toPlugin') <= Room + 1
    BY <1>1, <2>1, <2>2 DEF Grown
  <2> QED
    BY <2>1, <2>2, <2>3 DEF Attempted
<1> QED
  BY <1>2, <1>3, <1>4

(* callWithOptions writes its request, or fails to.                        *)
LEMMA SendEffect ==
  ASSUME Bounded, NEW i \in Ids, Send(i)
  PROVE  /\ Grown(toPlugin, toPlugin', Request(i)) /\ Attempted(Request(i))
         /\ UNCHANGED <<input, stalled>>
  BY WrittenEffect, AttemptEffect, PluginFrames DEF Bounded, TypeOK, Send

(* It fails, and the caller forgets the call.                              *)
LEMMA SendFailsEffect ==
  ASSUME Bounded, NEW i \in Ids, SendFails(i)
  PROVE  (Attempted(Request(i)) /\ stalled') \/ UNCHANGED <<wire, stalled>>
<1>1. CASE Interrupted(Request(i))
  BY <1>1, AttemptEffect, PluginFrames DEF Interrupted
<1> QED
  BY <1>1 DEF SendFails, Unwritable

(* It writes the cancel notification, if it can.                           *)
LEMMA NotifyEffect ==
  ASSUME Bounded, NEW i \in Ids, Notify(i)
  PROVE  Attempted(Cancel(i))
  BY AttemptEffect, PluginFrames DEF Notify, WriteTimesOut

(* The handler of a callback writes its reply, if it can.                  *)
LEMMA WriteReplyEffect ==
  ASSUME Bounded, NEW b \in Callbacks, WriteReply(b)
  PROVE  Attempted(Reply(b))
  BY AttemptEffect, PluginFrames DEF WriteReply, WriteTimesOut

(* close ends the input, under a write that has begun perhaps.             *)
LEMMA CloseInputEffect ==
  ASSUME Bounded, CloseInput
  PROVE  /\ toPlugin' \in Seq(ToPlugin) /\ Len(toPlugin') <= Room + 1
         /\ toPlugin' = toPlugin \/ Grown(toPlugin, toPlugin', Torn)
         /\ input' = "closed" /\ UNCHANGED <<scene, toHost, proc, stalled>>
<1>1. toPlugin \in Seq(ToPlugin) /\ Torn \in ToPlugin /\ Len(toPlugin) <= Room + 1
      /\ (input = "open" => Len(toPlugin) <= Room) /\ Room \in Nat /\ Len(toPlugin) \in Nat
  BY PluginFrames, WireAssumption DEF Bounded, TypeOK, WireType
<1>2. input' = "closed" /\ UNCHANGED <<scene, toHost, proc, stalled>>
  BY DEF CloseInput
<1>3. toPlugin' = toPlugin \/ (input = "open" /\ toPlugin' = Append(toPlugin, Torn))
  BY DEF CloseInput
<1>4. \A f \in ToPlugin :
        /\ Append(toPlugin, f) \in Seq(ToPlugin) /\ Grown(toPlugin, Append(toPlugin, f), f)
        /\ Len(Append(toPlugin, f)) = Len(toPlugin) + 1
  BY <1>1, Appended DEF Grown
<1>5. CASE toPlugin' = toPlugin
  BY <1>1, <1>2, <1>5
<1>6. CASE input = "open" /\ toPlugin' = Append(toPlugin, Torn)
  <2>1. toPlugin' \in Seq(ToPlugin) /\ Grown(toPlugin, toPlugin', Torn)
        /\ Len(toPlugin') = Len(toPlugin) + 1
    BY <1>1, <1>4, <1>6
  <2> QED
    BY <1>1, <1>2, <1>6, <2>1
<1> QED
  BY <1>3, <1>5, <1>6

(* The host reads a callback, an answer or an event.                       *)
LEMMA ReadAskEffect ==
  ASSUME Bounded, ReadAsk
  PROVE  /\ Head(toHost).id \in Callbacks /\ Shrunk(toHost, toHost', AskOf(Head(toHost).id))
         /\ toHost' \in Seq(ToHost) /\ UNCHANGED <<scene, toPlugin, input, proc>>
  BY TakenEffect, HostFrames DEF Bounded, TypeOK, ReadAsk, Heads

(* The host reads an answer.                                               *)
LEMMA ReadAnswerEffect ==
  ASSUME Bounded, ReadAnswer
  PROVE  /\ Head(toHost).id \in Ids /\ Shrunk(toHost, toHost', AnswerOf(Head(toHost).id))
         /\ toHost' \in Seq(ToHost) /\ UNCHANGED <<scene, toPlugin, input, proc>>
  BY TakenEffect, HostFrames DEF Bounded, TypeOK, ReadAnswer, Heads

(* The host reads an event.                                                *)
LEMMA ReadEventEffect ==
  ASSUME Bounded, ReadEvent
  PROVE  /\ Head(toHost).id \in Calls /\ Shrunk(toHost, toHost', EventOf(Head(toHost).id))
         /\ toHost' \in Seq(ToHost) /\ UNCHANGED <<scene, toPlugin, input, proc>>
  BY TakenEffect, HostFrames DEF Bounded, TypeOK, ReadEvent, Heads

(* The loop of the plugin reads a request, a cancel notification, a reply  *)
(* or a torn frame.                                                        *)
LEMMA ServeRequestEffect ==
  ASSUME Bounded, ServeRequest
  PROVE  /\ Head(toPlugin).id \in Calls
         /\ Shrunk(toPlugin, toPlugin', Request(Head(toPlugin).id))
         /\ toPlugin' \in Seq(ToPlugin) /\ UNCHANGED <<scene, toHost, input, proc>>
  BY ConsumedEffect, PluginFrames DEF Bounded, TypeOK, ServeRequest, Heads

(* The loop reads a cancel notification.                                   *)
LEMMA ServeCancelEffect ==
  ASSUME Bounded, ServeCancel
  PROVE  /\ Shrunk(toPlugin, toPlugin', Cancel(Head(toPlugin).id))
         /\ toPlugin' \in Seq(ToPlugin) /\ UNCHANGED <<scene, toHost, input, proc>>
  BY ConsumedEffect, PluginFrames DEF Bounded, TypeOK, ServeCancel, Heads

(* The loop reads the shutdown request.                                    *)
LEMMA ServeShutdownEffect ==
  ASSUME Bounded, ServeShutdown
  PROVE  /\ Shrunk(toPlugin, toPlugin', Request(Shutdown))
         /\ toPlugin' \in Seq(ToPlugin) /\ UNCHANGED <<scene, toHost, input, proc>>
  BY ConsumedEffect, PluginFrames DEF Bounded, TypeOK, ServeShutdown, Heads

(* The loop reads the reply to a callback.                                 *)
LEMMA ServeReplyEffect ==
  ASSUME Bounded, ServeReply
  PROVE  /\ Head(toPlugin).id \in Callbacks
         /\ Shrunk(toPlugin, toPlugin', Reply(Head(toPlugin).id))
         /\ toPlugin' \in Seq(ToPlugin) /\ UNCHANGED <<scene, toHost, input, proc>>
  BY ConsumedEffect, PluginFrames DEF Bounded, TypeOK, ServeReply, Heads

(* The loop reads a torn frame.                                            *)
LEMMA ServeTornEffect ==
  ASSUME Bounded, ServeTorn
  PROVE  /\ Shrunk(toPlugin, toPlugin', Torn)
         /\ toPlugin' \in Seq(ToPlugin) /\ UNCHANGED <<scene, toHost, input, proc>>
  BY ConsumedEffect, PluginFrames DEF Bounded, TypeOK, ServeTorn, Heads

(* What the plugin writes.                                                 *)
Emitted(f) ==
  /\ Grown(toHost, toHost', f) /\ toHost' \in Seq(ToHost) /\ Len(toHost') <= Room
  /\ proc = "running" /\ UNCHANGED <<scene, toPlugin, input, proc>>

(* The answer of a request, or of the shutdown.                            *)
LEMMA AnswerEffect ==
  ASSUME Bounded, NEW i \in Ids, proc = "running", Emits("answer", i)
  PROVE  Emitted(AnswerOf(i))
<1>1. WireType /\ Room \in Nat /\ Len(toHost) \in Nat /\ [kind |-> "answer", id |-> i] \in ToHost
  BY WireAssumption, HostFrames DEF Bounded, TypeOK, WireType, AnswerOf
<1> QED
  BY <1>1, EmitsEffect DEF Emitted, Grown, AnswerOf

(* An event of a request.                                                  *)
LEMMA EventEffect ==
  ASSUME Bounded, NEW c \in Calls, proc = "running", Emits("event", c)
  PROVE  Emitted(EventOf(c))
<1>1. WireType /\ Room \in Nat /\ Len(toHost) \in Nat /\ [kind |-> "event", id |-> c] \in ToHost
  BY WireAssumption, HostFrames DEF Bounded, TypeOK, WireType, EventOf
<1> QED
  BY <1>1, EmitsEffect DEF Emitted, Grown, EventOf

(* A callback: the one its request has registered last.                    *)
LEMMA AskEffect ==
  ASSUME Bounded, NEW c \in Calls, AskWritten(c)
  PROVE  Current(c) \in Callbacks /\ Emitted(AskOf(Current(c)))
<1>1. Current(c) \in Callbacks
  BY WireAssumption
     DEF Bounded, TypeOK, WireType, PeerType, SceneType, AskWritten, Current, Callbacks
<1>2. WireType /\ Room \in Nat /\ Len(toHost) \in Nat
        /\ [kind |-> "ask", id |-> Current(c)] \in ToHost
  BY <1>1, WireAssumption, HostFrames DEF Bounded, TypeOK, WireType, AskOf
<1> QED
  BY <1>1, <1>2, EmitsEffect DEF AskWritten, Emitted, Grown, AskOf

-----------------------------------------------------------------------------
(* What the frame f is to a pipe that changes otherwise.                   *)
Kept(old, new, f) == (Carries(new, f) <=> Carries(old, f)) /\ (Single(old, f) => Single(new, f))

(* Frames that are not the one written or read stay, in their order.       *)
LEMMA OtherFramesKept ==
  ASSUME NEW old, NEW new, NEW g, Grown(old, new, g) \/ Shrunk(old, new, g)
  PROVE  /\ \A f : f # g => Kept(old, new, f)
         /\ \A e, f : e # f /\ e # g /\ Ordered(old, e, f) => Ordered(new, e, f)
  BY DEF Grown, Shrunk, Kept

(* So they do when the host tries to write.                                *)
LEMMA AttemptKeeps ==
  ASSUME NEW g, Attempted(g), NEW f, f # g, f # Torn
  PROVE  Kept(toPlugin, toPlugin', f)
  BY OtherFramesKept DEF Attempted, Kept

(* A step that changes nothing the request parts of the invariant speak    *)
(* of, except that the connection may fail.                                *)
HostRequests ==
  /\ toHost' = toHost \/
       \A i \in Ids : /\ Kept(toHost, toHost', AnswerOf(i)) /\ Kept(toHost, toHost', EventOf(i))
                      /\ Ordered(toHost, EventOf(i), AnswerOf(i))
                           => Ordered(toHost', EventOf(i), AnswerOf(i))
PluginRequests == toPlugin' = toPlugin \/ \A i \in Ids : Kept(toPlugin, toPlugin', Request(i))
MayFail(kept) == kept \/ (readErr' # "none" /\ pending' = {})

SameRequests ==
  /\ HostRequests /\ PluginRequests
  /\ MayFail(UNCHANGED <<readErr, pending>>)
  /\ stalled => stalled'
  /\ Healthy' => Healthy
  /\ UNCHANGED <<shuttingDown, shutdownReply, Dropped>>
  /\ \A i \in Ids : /\ stage'[i] = "idle" <=> stage[i] = "idle"
                    /\ stage'[i] = "send" <=> stage[i] = "send"
                    /\ Unread(i)' <=> Unread(i)
                    /\ Owed(i)' <=> Owed(i)
                    /\ Answered(i)' <=> Answered(i)

RequestParts == RequestOrder /\ RequestsKept /\ RequestsLive

(* Such a step preserves the request parts.                                *)
LEMMA RequestsUntouched ==
  ASSUME RequestParts, SameRequests, pending \subseteq Ids
  PROVE  RequestParts'
<1>1. RequestOrder'
  BY DEF RequestParts, SameRequests, RequestOrder, HostRequests, PluginRequests, Kept
<1>2. RequestsKept'
  BY DEF RequestParts, SameRequests, RequestsKept, HostRequests, PluginRequests, Kept, MayFail
<1>3. RequestsLive'
  <2> SUFFICES ASSUME Healthy', NEW i \in pending'
               PROVE  \/ stage'[i] = "send" \/ Carries(toPlugin', Request(i)) \/ Owed(i)'
                      \/ Carries(toHost', AnswerOf(i)) \/ i \in Dropped'
    BY DEF RequestsLive
  <2>1. Healthy /\ i \in pending /\ i \in Ids
    BY DEF SameRequests, MayFail
  <2>2. \/ stage[i] = "send" \/ Carries(toPlugin, Request(i)) \/ Owed(i)
        \/ Carries(toHost, AnswerOf(i)) \/ i \in Dropped
    BY <2>1 DEF RequestParts, RequestsLive
  <2>3. Carries(toHost', AnswerOf(i)) <=> Carries(toHost, AnswerOf(i))
    BY <2>1 DEF SameRequests, HostRequests, Kept
  <2>4. Carries(toPlugin', Request(i)) <=> Carries(toPlugin, Request(i))
    BY <2>1 DEF SameRequests, PluginRequests, Kept
  <2> QED
    BY <2>1, <2>2, <2>3, <2>4 DEF SameRequests
<1> QED
  BY <1>1, <1>2, <1>3 DEF RequestParts

-----------------------------------------------------------------------------
Stages == {"idle", "send", "wait", "returned"} \union Telling \union Draining
WorkerStates == {"none", "work", "ask", "await", "reply", "gone", "dropped", "refuse", "refused"}

(* A failure of the connection, for the request parts.                     *)
LEMMA FailEffect ==
  ASSUME NEW err, err # "none", Fail(err)
  PROVE  readErr' # "none" /\ MayFail(UNCHANGED <<readErr, pending>>)
  BY DEF Fail, MayFail, calls

(* A step of the host that is not about requests.                          *)
LEMMA HostAside ==
  ASSUME IInv, UNCHANGED peer,
         \/ \E i \in Ids : \/ ContextEnds(i) \/ Receive(i) \/ WriterFailed(i) \/ GiveUp(i)
                           \/ Notify(i) \/ DrainEventEnds(i) \/ DrainCancelEnds(i)
         \/ ReadAsk \/ HandOver \/ Deliver \/ ReadEnds
         \/ \E b \in Callbacks : Handler(b) \/ TakeRefusal(b)
         \/ Closing
  PROVE  SameRequests
<1>1. Bounded /\ stage \in [Ids -> Stages]
  BY DEF IInv, Bounded, TypeOK, ClientType, Stages
<1>2. /\ UNCHANGED <<worker, shuttingDown, shutdownReply, Dropped>>
      /\ \A i \in Ids : /\ Unread(i)' <=> Unread(i)
                        /\ Owed(i)' <=> Owed(i)
                        /\ Answered(i)' <=> Answered(i)
  BY DEF peer, work, Unread, Owed, Answered, Dropped
<1>3. ASSUME UNCHANGED <<readErr, pending, stalled, toHost, toPlugin, input>>, UNCHANGED stage,
             proc' = "running" => proc = "running"
      PROVE  SameRequests
  BY <1>2, <1>3 DEF SameRequests, HostRequests, PluginRequests, MayFail, Healthy
<1>4. ASSUME NEW i \in Ids, Receive(i) \/ WriterFailed(i) \/ GiveUp(i) \/ DrainCancelEnds(i)
      PROVE SameRequests
  <2>1. /\ stage[i] \notin {"idle", "send"}
        /\ \E to \in Stages \ {"idle", "send"} : stage' = [stage EXCEPT ![i] = to]
    BY <1>4 DEF Receive, WriterFailed, GiveUp, DrainCancelEnds, Advance, Return, Stages, Telling,
                Draining
  <2>2. UNCHANGED <<readErr, pending, stalled, toHost, toPlugin, input, proc>>
    BY <1>4 DEF Receive, WriterFailed, GiveUp, DrainCancelEnds, wire, calls, Advance, Return
  <2> QED
    BY <1>1, <1>2, <2>1, <2>2 DEF SameRequests, HostRequests, PluginRequests, MayFail, Healthy
<1>5. ASSUME NEW i \in Ids, Notify(i) PROVE SameRequests
  <2>1. /\ stage[i] \notin {"idle", "send"}
        /\ \E to \in {"drainEvent", "drainCancel", "returned"} : stage' = [stage EXCEPT ![i] = to]
    BY <1>5 DEF Notify, Advance, Return, Telling
  <2>2. UNCHANGED <<readErr, pending>>
    BY <1>5 DEF Notify, calls
  <2>3. Attempted(Cancel(i))
    BY <1>1, <1>5, NotifyEffect
  <2>4. PluginRequests /\ HostRequests /\ (stalled => stalled') /\ (Healthy' => Healthy)
    <3>1. PluginRequests
      BY <2>3, AttemptKeeps, FramesDiffer DEF PluginRequests
    <3>2. toHost' = toHost /\ (input' = "open" => input = "open") /\ proc' = proc
      BY <2>3 DEF Attempted
    <3>3. stalled => stalled'
      BY <2>3 DEF Attempted
    <3> QED
      BY <2>2, <3>1, <3>2, <3>3 DEF HostRequests, Healthy
  <2> QED
    BY <1>1, <1>2, <2>1, <2>2, <2>4 DEF SameRequests, MayFail
<1>6. ASSUME NEW b \in Callbacks, WriteReply(b) PROVE SameRequests
  <2>1. UNCHANGED <<stage, readErr, pending>>
    BY <1>6 DEF WriteReply, callers, calls
  <2>2. Attempted(Reply(b))
    BY <1>1, <1>6, WriteReplyEffect
  <2>3. PluginRequests /\ HostRequests /\ (stalled => stalled') /\ (Healthy' => Healthy)
    <3>1. PluginRequests
      BY <2>2, AttemptKeeps, FramesDiffer DEF PluginRequests
    <3>2. toHost' = toHost /\ (input' = "open" => input = "open") /\ proc' = proc
      BY <2>2 DEF Attempted
    <3>3. stalled => stalled'
      BY <2>2 DEF Attempted
    <3> QED
      BY <2>1, <3>1, <3>2, <3>3 DEF HostRequests, Healthy
  <2> QED
    BY <1>1, <1>2, <2>1, <2>3 DEF SameRequests, MayFail
<1>7. ASSUME CloseInput PROVE SameRequests
  <2>1. UNCHANGED <<stage, readErr, pending, stalled, toHost>> /\ input' = "closed"
    BY <1>7 DEF CloseInput, callers, calls
  <2>2. PluginRequests
    BY <1>1, <1>7, CloseInputEffect, OtherFramesKept, FramesDiffer DEF PluginRequests
  <2> QED
    BY <1>2, <2>1, <2>2 DEF SameRequests, MayFail, HostRequests, Healthy
<1>8. ASSUME NEW i \in Ids, DrainEventEnds(i) PROVE SameRequests
  <2>1. stage[i] = "drainEvent" /\ stage' = [stage EXCEPT ![i] = "returned"]
    BY <1>8 DEF DrainEventEnds, Return
  <2>2. MayFail(UNCHANGED <<readErr, pending>>)
    BY <1>8, FailEffect DEF DrainEventEnds, MayFail, calls
  <2>3. UNCHANGED <<toHost, toPlugin, input, proc, stalled>>
    BY <1>8 DEF DrainEventEnds, wire
  <2> QED
    BY <1>1, <1>2, <2>1, <2>2, <2>3
       DEF SameRequests, HostRequests, PluginRequests, MayFail, Healthy
<1>9. ASSUME ReadAsk PROVE SameRequests
  <2>1. UNCHANGED <<stage, toPlugin, input, proc, stalled>>
    BY <1>9 DEF ReadAsk, Taken, callers
  <2>2. MayFail(UNCHANGED <<readErr, pending>>)
    BY <1>9, FailEffect DEF ReadAsk, MayFail, Condemn, calls
  <2>3. HostRequests
    BY <1>1, <1>9, ReadAskEffect, OtherFramesKept, FramesDiffer DEF HostRequests
  <2> QED
    BY <1>1, <1>2, <2>1, <2>2, <2>3 DEF SameRequests, PluginRequests, MayFail, Healthy
<1>10. ASSUME ReadEnds PROVE SameRequests
  <2>1. UNCHANGED <<stage, toHost, toPlugin, input, proc, stalled>>
    BY <1>10 DEF ReadEnds, wire, callers
  <2>2. MayFail(UNCHANGED <<readErr, pending>>)
    BY <1>10, FailEffect DEF ReadEnds, MayFail, Condemn
  <2> QED
    BY <1>1, <1>2, <2>1, <2>2 DEF SameRequests, HostRequests, PluginRequests, MayFail, Healthy
<1> QED
  BY <1>3, <1>4, <1>5, <1>6, <1>7, <1>8, <1>9, <1>10
     DEF ContextEnds, HandOver, Deliver, Handler, LookUp, HandlerEnds, TakeRefusal, Closing,
         Signal, Reap, CloseExpires, callers, calls, wire

(* A step of the plugin that is not about requests.                        *)
LEMMA PeerAside ==
  ASSUME IInv, UNCHANGED client,
         \/ ServeCancel \/ ServeReply \/ ServeTorn \/ InputEnds \/ Exit
         \/ \E c \in Calls : \/ Ask(c) \/ AskWritten(c) \/ AskUnframed(c) \/ TakeReply(c)
                            \/ Abandon(c) \/ Finish(c)
  PROVE  SameRequests
<1>1. Bounded /\ worker \in [Calls -> WorkerStates]
  BY DEF IInv, Bounded, TypeOK, PeerType, WorkerStates
<1>2. UNCHANGED <<stage, readErr, pending, stalled>>
  BY DEF client, callers, calls
<1>3. ASSUME UNCHANGED <<worker, shuttingDown, shutdownReply, toHost, input>>, PluginRequests,
             proc' = "running" => proc = "running"
      PROVE  SameRequests
  BY <1>2, <1>3 DEF SameRequests, HostRequests, MayFail, Healthy, Unread, Owed, Answered, Dropped
<1>4. ASSUME ServeCancel \/ ServeReply \/ ServeTorn PROVE SameRequests
  <2>1. UNCHANGED <<worker, shuttingDown, shutdownReply, toHost, input, proc>>
    BY <1>4 DEF ServeCancel, ServeReply, ServeTorn, Consumed
  <2>2. \E g : Shrunk(toPlugin, toPlugin', g) /\ \A i \in Ids : Request(i) # g
    BY <1>1, <1>4, ServeCancelEffect, ServeReplyEffect, ServeTornEffect, FramesDiffer
  <2>3. PluginRequests
    BY <2>2, OtherFramesKept DEF PluginRequests
  <2> QED
    BY <1>3, <2>1, <2>3
<1>5. ASSUME InputEnds \/ Exit PROVE SameRequests
  <2>1. UNCHANGED <<worker, shuttingDown, shutdownReply, toHost, toPlugin, input>>
    BY <1>5 DEF InputEnds, Exit, wire, peer, work
  <2>2. proc' = "running" => proc = "running"
    BY <1>5 DEF InputEnds, Exit, wire
  <2> QED
    BY <1>3, <2>1, <2>2 DEF PluginRequests
<1>6. ASSUME NEW c \in Calls, \/ Ask(c) \/ AskWritten(c) \/ AskUnframed(c) \/ TakeReply(c)
                              \/ Abandon(c) \/ Finish(c)
      PROVE  SameRequests
  <2>1. /\ worker[c] \in {"work", "ask", "await"}
        /\ \E to \in {"work", "ask", "await", "reply"} : worker' = [worker EXCEPT ![c] = to]
    BY <1>6 DEF Ask, AskWritten, AskUnframed, TakeReply, Abandon, Finish, Becomes
  <2>2. UNCHANGED <<shuttingDown, shutdownReply, toPlugin, input, proc>>
    BY <1>6 DEF Ask, AskWritten, AskUnframed, TakeReply, Abandon, Finish, Emits, wire
  <2>3. HostRequests
    <3>1. CASE AskWritten(c)
      BY <1>1, <3>1, AskEffect, OtherFramesKept, FramesDiffer DEF HostRequests, Emitted
    <3>2. CASE toHost' = toHost
      BY <3>2 DEF HostRequests
    <3> QED
      BY <1>6, <3>1, <3>2 DEF Ask, AskUnframed, TakeReply, Abandon, Finish, wire
  <2>4. \A i \in Ids : /\ Unread(i)' <=> Unread(i)
                       /\ Owed(i)' <=> Owed(i)
                       /\ Answered(i)' <=> Answered(i)
    BY <1>1, <2>1, <2>2 DEF Unread, Owed, Answered, Ids
  <2>5. Dropped' = Dropped
    BY <1>1, <2>1 DEF Dropped
  <2> QED
    BY <1>2, <2>2, <2>3, <2>4, <2>5 DEF SameRequests, PluginRequests, MayFail, Healthy
<1> QED
  BY <1>4, <1>5, <1>6

-----------------------------------------------------------------------------
(* The steps of a request: registered and sent, read, answered.            *)
LEMMA RequestsKeptByHost ==
  ASSUME IInv, UNCHANGED peer,
         \/ \E i \in Ids : Call(i) \/ Send(i) \/ SendFails(i)
         \/ ReadAnswer \/ ReadEvent
  PROVE  RequestParts'
<1>1. /\ Bounded /\ RequestOrder /\ RequestsKept /\ RequestsLive
      /\ stage \in [Ids -> Stages] /\ pending \subseteq Ids /\ stalled \in BOOLEAN
  BY DEF IInv, Bounded, TypeOK, ClientType, Stages
<1>2. /\ UNCHANGED <<worker, shuttingDown, shutdownReply, Dropped>>
      /\ \A i \in Ids : /\ Unread(i)' <=> Unread(i)
                        /\ Owed(i)' <=> Owed(i)
                        /\ Answered(i)' <=> Answered(i)
  BY DEF peer, work, Unread, Owed, Answered, Dropped
<1>3. \A i \in Ids : Unread(i) => ~Owed(i) /\ ~Answered(i)
  BY <1>1 DEF Unread, Owed, Answered, RequestOrder
<1>4. ASSUME NEW i \in Ids, Call(i) PROVE RequestParts'
  <2>1. /\ stage[i] = "idle"
        /\ \/ readErr = "none" /\ stage' = [stage EXCEPT ![i] = "send"]
                /\ pending' = pending \union {i}
           \/ readErr # "none" /\ stage' = [stage EXCEPT ![i] = "returned"] /\ pending' = pending
    BY <1>4 DEF Call, Advance, Return, calls
  <2>2. UNCHANGED <<readErr, toPlugin, toHost, input, proc, stalled>>
    BY <1>4 DEF Call, wire
  <2>3. RequestOrder'
    BY <1>1, <1>2, <2>1, <2>2 DEF RequestOrder
  <2>4. RequestsKept'
    BY <1>1, <1>2, <2>1, <2>2 DEF RequestsKept
  <2>5. RequestsLive'
    BY <1>1, <1>2, <2>1, <2>2 DEF RequestsLive, Healthy
  <2> QED
    BY <2>3, <2>4, <2>5 DEF RequestParts
<1>5. ASSUME NEW i \in Ids, Send(i) PROVE RequestParts'
  <2>1. stage[i] = "send" /\ stage' = [stage EXCEPT ![i] = "wait"]
    BY <1>5 DEF Send, Advance
  <2>2. UNCHANGED <<readErr, pending, toHost, input, proc, stalled>>
    BY <1>1, <1>5, SendEffect DEF Send, calls, Attempted
  <2>3. Grown(toPlugin, toPlugin', Request(i))
    BY <1>1, <1>5, SendEffect
  <2>4. ~Carries(toPlugin, Request(i)) /\ Unread(i)
    BY <1>1, <2>1 DEF RequestOrder
  <2>5. \A j \in Ids : /\ Carries(toPlugin', Request(j)) <=> Carries(toPlugin, Request(j))
                            \/ j = i
                       /\ Single(toPlugin', Request(j))
    BY <1>1, <2>3, <2>4, FramesDiffer DEF Grown, RequestOrder
  <2>6. \A j \in Ids : /\ stage'[j] = stage[j] \/ j = i
                       /\ stage'[i] = "wait"
    BY <1>1, <2>1
  <2>7. RequestOrder'
    BY <1>1, <1>2, <2>1, <2>2, <2>4, <2>5, <2>6 DEF RequestOrder
  <2>8. RequestsKept'
    BY <1>1, <1>2, <2>1, <2>2, <2>5, <2>6 DEF RequestsKept
  <2>9. RequestsLive'
    BY <1>1, <1>2, <2>1, <2>2, <2>5, <2>6 DEF RequestsLive, Healthy
  <2> QED
    BY <2>7, <2>8, <2>9 DEF RequestParts
<1>6. ASSUME NEW i \in Ids, SendFails(i) PROVE RequestParts'
  <2>1. /\ stage[i] = "send" /\ stage' = [stage EXCEPT ![i] = "returned"]
        /\ pending' = pending \ {i} /\ UNCHANGED readErr
    BY <1>6 DEF SendFails, Return
  <2>2. toHost' = toHost /\ (stalled => stalled') /\ (Healthy' => Healthy)
    BY <1>1, <1>6, <2>1, SendFailsEffect DEF Attempted, Healthy, wire
  <2>3. ~Carries(toPlugin, Request(i)) /\ Unread(i)
    BY <1>1, <2>1 DEF RequestOrder
  <2>4. \A j \in Ids : /\ j # i => Kept(toPlugin, toPlugin', Request(j))
                       /\ Single(toPlugin', Request(j))
    <3>1. /\ Attempted(Request(i)) \/ toPlugin' = toPlugin
          /\ \A j \in Ids : Single(toPlugin, Request(j))
      BY <1>1, <1>6, SendFailsEffect DEF RequestOrder, wire
    <3>2. CASE toPlugin' = toPlugin
      BY <3>1, <3>2 DEF Kept
    <3>3. CASE Grown(toPlugin, toPlugin', Request(i))
      BY <2>3, <3>1, <3>3, FramesDiffer DEF Grown, Kept
    <3>4. CASE Grown(toPlugin, toPlugin', Torn)
      BY <3>1, <3>4, FramesDiffer DEF Grown, Kept
    <3> QED
      BY <3>1, <3>2, <3>3, <3>4 DEF Attempted
  <2>5. stalled' \/ toPlugin' = toPlugin
    BY <1>1, <1>6, SendFailsEffect DEF wire
  <2>6. /\ \A j \in Ids : stage'[j] = stage[j] \/ j = i
        /\ stage'[i] = "returned"
    BY <1>1, <2>1
  <2>7. RequestOrder'
    BY <1>1, <1>2, <2>1, <2>2, <2>3, <2>4, <2>6 DEF RequestOrder, Kept
  <2>8. RequestsKept'
    BY <1>1, <1>2, <1>3, <2>1, <2>2, <2>3, <2>4, <2>5, <2>6 DEF RequestsKept, RequestOrder, Kept
  <2>9. RequestsLive'
    BY <1>1, <1>2, <2>1, <2>2, <2>4, <2>6 DEF RequestsLive, Kept
  <2> QED
    BY <2>7, <2>8, <2>9 DEF RequestParts
<1>7. ASSUME ReadAnswer PROVE RequestParts'
  <2> DEFINE i == Head(toHost).id
  <2>1. i \in Ids /\ Shrunk(toHost, toHost', AnswerOf(i))
    BY <1>1, <1>7, ReadAnswerEffect
  <2>2. \/ i \in pending /\ pending' = pending \ {i} /\ readErr' = readErr
        \/ readErr' # "none" /\ pending' = {}
    BY <1>1, <1>7, FailEffect DEF ReadAnswer, Condemn, MayFail, RequestsKept
  <2>3. UNCHANGED <<stage, toPlugin, input, proc, stalled>>
    BY <1>7 DEF ReadAnswer, callers, Taken
  <2> HIDE DEF i
  <2>4. \A j \in Ids : /\ j # i => Kept(toHost, toHost', AnswerOf(j))
                       /\ Kept(toHost, toHost', EventOf(j)) /\ Single(toHost', AnswerOf(j))
                       /\ Ordered(toHost', EventOf(j), AnswerOf(j))
    BY <1>1, <2>1, FramesDiffer DEF Shrunk, Kept, RequestOrder
  <2>5. /\ ~Carries(toHost', AnswerOf(i)) /\ ~Carries(toHost', EventOf(i))
        /\ Answered(i) /\ ~Carries(toPlugin, Request(i)) /\ ~Owed(i)
        /\ stage[i] # "send"
    BY <1>1, <1>3, <2>1, FramesDiffer DEF Shrunk, RequestOrder, Answered, Owed
  <2>6. RequestOrder'
    BY <1>1, <1>2, <2>3, <2>4, <2>5 DEF RequestOrder, Kept
  <2>7. RequestsKept'
    BY <1>1, <1>2, <2>2, <2>3, <2>4, <2>5 DEF RequestsKept, Kept
  <2>8. RequestsLive'
    BY <1>1, <1>2, <2>2, <2>3, <2>4, <2>5 DEF RequestsLive, Healthy, Kept
  <2> QED
    BY <2>6, <2>7, <2>8 DEF RequestParts
<1>8. ASSUME ReadEvent PROVE RequestParts'
  <2> DEFINE i == Head(toHost).id
  <2>1. i \in Calls /\ Shrunk(toHost, toHost', EventOf(i))
    BY <1>1, <1>8, ReadEventEffect
  <2>2. UNCHANGED <<pending, readErr>> \/ (readErr' # "none" /\ pending' = {})
    BY <1>1, <1>8, FailEffect DEF ReadEvent, Condemn, MayFail, calls
  <2>3. UNCHANGED <<stage, toPlugin, input, proc, stalled>>
    BY <1>8 DEF ReadEvent, callers, Taken
  <2> HIDE DEF i
  <2>4. \A j \in Ids : /\ Kept(toHost, toHost', AnswerOf(j))
                       /\ Carries(toHost', EventOf(j)) => Carries(toHost, EventOf(j))
                       /\ Ordered(toHost', EventOf(j), AnswerOf(j))
    BY <1>1, <2>1, FramesDiffer DEF Shrunk, Kept, RequestOrder
  <2>5. RequestOrder'
    BY <1>1, <1>2, <2>3, <2>4 DEF RequestOrder, Kept
  <2>6. RequestsKept'
    BY <1>1, <1>2, <2>2, <2>3, <2>4 DEF RequestsKept, Kept
  <2>7. RequestsLive'
    BY <1>1, <1>2, <2>2, <2>3, <2>4 DEF RequestsLive, Healthy, Kept
  <2> QED
    BY <2>5, <2>6, <2>7 DEF RequestParts
<1> QED
  BY <1>4, <1>5, <1>6, <1>7, <1>8

(* The steps of a request in the plugin: read, answered, an event of it.   *)
LEMMA RequestsKeptByPeer ==
  ASSUME IInv, UNCHANGED client,
         \/ ServeRequest \/ ServeShutdown \/ RefuseWritten \/ AnswerShutdown
         \/ \E c \in Calls : Event(c) \/ Answer(c) \/ AnswerUnframed(c)
  PROVE  RequestParts'
<1>1. /\ Bounded /\ RequestOrder /\ RequestsKept /\ RequestsLive
      /\ worker \in [Calls -> WorkerStates] /\ Shutdown \notin Calls
      /\ pending \subseteq Ids /\ Shutdown \in Ids /\ Calls \subseteq Ids
  BY WireAssumption DEF IInv, Bounded, TypeOK, ClientType, PeerType, WorkerStates, Ids
<1>2. UNCHANGED <<stage, readErr, pending, stalled>>
  BY DEF client, callers, calls
<1>3. ASSUME NEW i \in Ids, Shrunk(toPlugin, toPlugin', Request(i)), toHost' = toHost,
             Unread(i), ~Unread(i)', Owed(i)',
             \A j \in Ids \ {i} : /\ Unread(j)' <=> Unread(j)
                                  /\ Owed(j)' <=> Owed(j)
                                  /\ Answered(j)' <=> Answered(j),
             shutdownReply' = shutdownReply \/ shuttingDown', Healthy' => Healthy, shuttingDown
               => shuttingDown', Dropped' = Dropped
      PROVE  RequestParts'
  <2>1. \A j \in Ids : /\ j # i => Kept(toPlugin, toPlugin', Request(j))
                       /\ Single(toPlugin', Request(j))
    BY <1>1, <1>3, FramesDiffer DEF Shrunk, Kept, RequestOrder
  <2>2. Carries(toPlugin, Request(i)) /\ ~Carries(toPlugin', Request(i))
          /\ stage[i] \notin {"idle", "send"}
        /\ ~Carries(toHost, AnswerOf(i))
    BY <1>1, <1>3 DEF Shrunk, RequestOrder, Unread, Answered
  <2>3. RequestOrder'
    BY <1>1, <1>2, <1>3, <2>1, <2>2 DEF RequestOrder, Kept
  <2>4. RequestsKept'
    BY <1>1, <1>2, <1>3, <2>1, <2>2 DEF RequestsKept, Kept
  <2>5. RequestsLive'
    BY <1>1, <1>2, <1>3, <2>1, <2>2 DEF RequestsLive, Kept
  <2> QED
    BY <2>3, <2>4, <2>5 DEF RequestParts
<1>4. ASSUME NEW i \in Ids, Emitted(AnswerOf(i)), Owed(i), ~Unread(i)', Answered(i)', ~Owed(i)',
             \A j \in Ids \ {i} : /\ Unread(j)' <=> Unread(j)
                                  /\ Owed(j)' <=> Owed(j)
                                  /\ Answered(j)' <=> Answered(j),
             UNCHANGED shuttingDown, shutdownReply # "none" \/ UNCHANGED shutdownReply,
             Dropped' = Dropped
      PROVE  RequestParts'
  <2>1. ~Unread(i) /\ ~Answered(i)
    BY <1>1, <1>4 DEF Unread, Owed, Answered, RequestOrder
  <2>2. ~Carries(toHost, AnswerOf(i)) /\ ~Carries(toPlugin, Request(i)) /\ toPlugin' = toPlugin
    BY <1>1, <1>4, <2>1 DEF RequestOrder, Emitted
  <2>3. \A j \in Ids : /\ Carries(toHost', AnswerOf(j)) <=> Carries(toHost, AnswerOf(j)) \/ j = i
                       /\ Kept(toHost, toHost', EventOf(j)) /\ Single(toHost', AnswerOf(j))
                       /\ Ordered(toHost', EventOf(j), AnswerOf(j))
    BY <1>1, <1>4, <2>2, FramesDiffer DEF Emitted, Grown, Kept, RequestOrder
  <2>4. RequestOrder'
    BY <1>1, <1>2, <1>4, <2>1, <2>2, <2>3 DEF RequestOrder, Kept
  <2>5. RequestsKept'
    BY <1>1, <1>2, <1>4, <2>1, <2>2, <2>3 DEF RequestsKept, Kept
  <2>6. RequestsLive'
    BY <1>1, <1>2, <1>4, <2>1, <2>2, <2>3 DEF RequestsLive, Healthy, Emitted
  <2> QED
    BY <2>4, <2>5, <2>6 DEF RequestParts
<1>5. ASSUME ServeRequest PROVE RequestParts'
  <2>0. PICK c \in Calls : c = Head(toPlugin).id
    BY <1>1, <1>5, ServeRequestEffect
  <2>1. Shrunk(toPlugin, toPlugin', Request(c)) /\ UNCHANGED <<toHost, input, proc>>
    BY <1>1, <1>5, <2>0, ServeRequestEffect
  <2>2. /\ \E to \in {"refuse", "work"} : worker' = [worker EXCEPT ![c] = to]
        /\ UNCHANGED <<shuttingDown, shutdownReply>>
    BY <1>5, <2>0 DEF ServeRequest, Becomes
  <2>3. Unread(c)
    BY <1>1, <2>1 DEF Shrunk, RequestOrder
  <2>4. ~Unread(c)' /\ Owed(c)' /\ ~Answered(c)'
    BY <1>1, <2>2 DEF Unread, Owed, Answered
  <2>5. \A j \in Ids \ {c} : /\ Unread(j)' <=> Unread(j)
                             /\ Owed(j)' <=> Owed(j)
                             /\ Answered(j)' <=> Answered(j)
    BY <1>1, <2>1, <2>2 DEF Unread, Owed, Answered, Ids
  <2>6. Dropped' = Dropped
    BY <1>1, <2>2, <2>3 DEF Unread, Dropped
  <2> QED
    BY <1>1, <1>2, <1>3, <2>1, <2>2, <2>3, <2>4, <2>5, <2>6 DEF Healthy
<1>6. ASSUME ServeShutdown PROVE RequestParts'
  <2>1. Shrunk(toPlugin, toPlugin', Request(Shutdown)) /\ UNCHANGED <<toHost, input, proc>>
    BY <1>1, <1>6, ServeShutdownEffect
  <2>2. worker' = worker /\ shuttingDown' = TRUE /\ shutdownReply' = "owed"
    BY <1>6 DEF ServeShutdown
  <2>3. Unread(Shutdown)
    BY <1>1, <2>1 DEF Shrunk, RequestOrder
  <2>4. ~Unread(Shutdown)' /\ Owed(Shutdown)' /\ ~Answered(Shutdown)'
    BY <1>1, <2>2 DEF Unread, Owed, Answered
  <2>5. \A j \in Ids \ {Shutdown} : /\ Unread(j)' <=> Unread(j)
                                    /\ Owed(j)' <=> Owed(j)
                                    /\ Answered(j)' <=> Answered(j)
    BY <1>1, <2>2 DEF Unread, Owed, Answered, Ids
  <2>6. Dropped' = Dropped
    BY <2>2 DEF Dropped
  <2> QED
    BY <1>1, <1>2, <1>3, <2>1, <2>2, <2>3, <2>4, <2>5, <2>6 DEF Healthy
<1>7. ASSUME NEW c \in Calls, RefuseWritten \/ Answer(c), worker[c] \in {"refuse", "reply"},
             Emits("answer", c), \E to \in {"refused", "gone"} : Becomes(c, to)
      PROVE  RequestParts'
  <2>1. proc = "running" /\ UNCHANGED <<shuttingDown, shutdownReply>>
    BY <1>7 DEF RefuseWritten, Answer
  <2>2. Emitted(AnswerOf(c))
    BY <1>1, <1>7, <2>1, AnswerEffect
  <2>3. Owed(c) /\ ~Unread(c)' /\ Answered(c)' /\ ~Owed(c)'
    BY <1>1, <1>7 DEF Unread, Owed, Answered, Becomes
  <2>4. \A j \in Ids \ {c} : /\ Unread(j)' <=> Unread(j)
                             /\ Owed(j)' <=> Owed(j)
                             /\ Answered(j)' <=> Answered(j)
    BY <1>1, <1>7, <2>1 DEF Unread, Owed, Answered, Ids, Becomes
  <2>5. Dropped' = Dropped
    BY <1>1, <1>7 DEF Becomes, Dropped
  <2> QED
    BY <1>1, <1>4, <2>1, <2>2, <2>3, <2>4, <2>5
<1>8. ASSUME RefuseWritten PROVE RequestParts'
  BY <1>7, <1>8 DEF RefuseWritten
<1>9. ASSUME NEW c \in Calls, Answer(c) PROVE RequestParts'
  BY <1>7, <1>9 DEF Answer
<1>10. ASSUME AnswerShutdown PROVE RequestParts'
  <2>1. proc = "running" /\ shutdownReply = "owed" /\ shutdownReply' = "sent"
          /\ UNCHANGED <<shuttingDown, worker>>
        /\ Emits("answer", Shutdown)
    BY <1>10 DEF AnswerShutdown, work
  <2>2. Emitted(AnswerOf(Shutdown))
    BY <1>1, <2>1, AnswerEffect
  <2>3. Owed(Shutdown) /\ Answered(Shutdown)' /\ ~Owed(Shutdown)'
    BY <2>1 DEF Owed, Answered
  <2>4. ~Unread(Shutdown)'
    BY <1>1, <2>1 DEF Unread, RequestOrder
  <2>5. \A j \in Ids \ {Shutdown} : /\ Unread(j)' <=> Unread(j)
                                    /\ Owed(j)' <=> Owed(j)
                                    /\ Answered(j)' <=> Answered(j)
    BY <1>1, <2>1 DEF Unread, Owed, Answered, Ids
  <2>6. Dropped' = Dropped
    BY <2>1 DEF Dropped
  <2> QED
    BY <1>1, <1>4, <2>1, <2>2, <2>3, <2>4, <2>5, <2>6
<1>11. ASSUME NEW c \in Calls, Event(c) PROVE RequestParts'
  <2>1. proc = "running" /\ worker[c] = "work" /\ Emits("event", c)
        /\ UNCHANGED <<worker, shuttingDown, shutdownReply>>
    BY <1>11 DEF Event
  <2>2. Emitted(EventOf(c))
    BY <1>1, <2>1, EventEffect
  <2>3. ~Unread(c) /\ Owed(c) /\ ~Answered(c)
    BY <1>1, <2>1 DEF Unread, Owed, Answered
  <2>4. toPlugin' = toPlugin /\ ~Carries(toHost, AnswerOf(c))
    BY <1>1, <2>2, <2>3 DEF Emitted, RequestOrder
  <2>5. \A j \in Ids : /\ Kept(toHost, toHost', AnswerOf(j)) /\ Single(toHost', AnswerOf(j))
                       /\ Carries(toHost', EventOf(j)) <=> Carries(toHost, EventOf(j)) \/ j = c
                       /\ Ordered(toHost', EventOf(j), AnswerOf(j))
    BY <1>1, <2>2, <2>4, FramesDiffer DEF Emitted, Grown, Kept, RequestOrder
  <2>6. \A j \in Ids : /\ Unread(j)' <=> Unread(j)
                       /\ Owed(j)' <=> Owed(j)
                       /\ Answered(j)' <=> Answered(j)
                       /\ Dropped' = Dropped
    BY <2>1 DEF Unread, Owed, Answered, Dropped
  <2>7. RequestOrder'
    BY <1>1, <1>2, <2>1, <2>3, <2>4, <2>5, <2>6 DEF RequestOrder, Kept
  <2>8. RequestsKept'
    BY <1>1, <1>2, <2>3, <2>4, <2>5, <2>6 DEF RequestsKept, Kept
  <2>9. RequestsLive'
    BY <1>1, <1>2, <2>2, <2>4, <2>5, <2>6 DEF RequestsLive, Healthy, Emitted, Kept
  <2> QED
    BY <2>7, <2>8, <2>9 DEF RequestParts
<1>12. ASSUME NEW c \in Calls, AnswerUnframed(c) PROVE RequestParts'
  <2>1. /\ worker[c] = "reply" /\ worker' = [worker EXCEPT ![c] = "dropped"]
        /\ UNCHANGED <<toPlugin, toHost, input, proc, shuttingDown, shutdownReply>>
    BY <1>12 DEF AnswerUnframed, Becomes, wire
  <2>2. \A j \in Ids : /\ Unread(j)' <=> Unread(j)
                       /\ Answered(j)' <=> Answered(j)
                       /\ Owed(j)' => Owed(j)
                       /\ Owed(j) => Owed(j)' \/ j \in Dropped'
                       /\ j \in Dropped => j \in Dropped'
    BY <1>1, <2>1 DEF Unread, Owed, Answered, Dropped, Ids
  <2>3. RequestOrder'
    BY <1>1, <1>2, <2>1, <2>2 DEF RequestOrder
  <2>4. RequestsKept'
    BY <1>1, <1>2, <2>1, <2>2 DEF RequestsKept
  <2>5. RequestsLive'
    BY <1>1, <1>2, <2>1, <2>2 DEF RequestsLive, Healthy
  <2> QED
    BY <2>3, <2>4, <2>5 DEF RequestParts
<1> QED
  BY <1>5, <1>6, <1>8, <1>9, <1>10, <1>11, <1>12

(* The request parts of the invariant, through any step.                   *)
LEMMA RequestsNext == IInv /\ [Next]_vars => RequestParts'
<1> SUFFICES ASSUME IInv, [Next]_vars PROVE RequestParts'
  OBVIOUS
<1>1. RequestParts /\ pending \subseteq Ids
  BY DEF IInv, RequestParts, Bounded, TypeOK, ClientType
<1>2. CASE ClientNext /\ UNCHANGED peer
  BY <1>1, <1>2, HostAside, RequestsKeptByHost, RequestsUntouched DEF ClientNext, Caller, Reader
<1>3. CASE PeerNext /\ UNCHANGED client
  BY <1>1, <1>3, PeerAside, RequestsKeptByPeer, RequestsUntouched DEF PeerNext, Loop, Worker
<1>4. CASE (Hang \/ Die) /\ UNCHANGED <<client, peer>>
  <2>1. UNCHANGED <<toPlugin, toHost, stage, worker, shuttingDown, shutdownReply, readErr,
          pending, stalled, input>>
        /\ (proc' = "running" => proc = "running")
    BY <1>4 DEF Hang, Die, client, peer, callers, calls, work
  <2>2. SameRequests
    BY <2>1 DEF SameRequests, HostRequests, PluginRequests, MayFail, Healthy, Unread, Owed,
                Answered, Dropped
  <2> QED
    BY <1>1, <2>2, RequestsUntouched
<1>5. CASE UNCHANGED vars
  <2>1. UNCHANGED <<toPlugin, toHost, stage, worker, shuttingDown, shutdownReply, readErr,
          pending, stalled, input, proc>>
    BY <1>5 DEF vars, wire, client, peer, callers, calls, work
  <2>2. SameRequests
    BY <2>1 DEF SameRequests, HostRequests, PluginRequests, MayFail, Healthy, Unread, Owed,
                Answered, Dropped
  <2> QED
    BY <1>1, <2>2, RequestsUntouched
<1> QED
  BY <1>2, <1>3, <1>4, <1>5 DEF Next

-----------------------------------------------------------------------------
(* A step that changes nothing the callback parts of the invariant speak   *)
(* of.                                                                     *)
HostAsks == toHost' = toHost \/ \A b \in Callbacks : Kept(toHost, toHost', AskOf(b))
PluginReplies == toPlugin' = toPlugin \/ \A b \in Callbacks : Kept(toPlugin, toPlugin', Reply(b))

SameCallbacks ==
  /\ HostAsks /\ PluginReplies
  /\ Healthy' => Healthy
  /\ UNCHANGED <<asked, callbacks, routed, abandoned>>
  /\ \A c \in Calls : /\ worker'[c] = "ask" <=> worker[c] = "ask"
                      /\ worker'[c] = "await" <=> worker[c] = "await"
  /\ \A b \in Callbacks : /\ handler'[b] = "none" <=> handler[b] = "none"
                          /\ handler'[b] = "done" <=> handler[b] = "done"

CallbackParts == CallbackOrder /\ CallbacksKept /\ CallbacksLive

(* A callback is a request and a number.                                   *)
LEMMA CallbackShape ==
  \A b \in Callbacks : b[1] \in Calls /\ b[2] \in 1..MaxAsks /\ b[2] \in Nat /\ b = <<b[1], b[2]>>
  BY WireAssumption DEF Callbacks

(* Such a step preserves the callback parts.                               *)
LEMMA CallbacksUntouched ==
  ASSUME CallbackParts, SameCallbacks, callbacks \subseteq Callbacks,
         abandoned \subseteq Callbacks
  PROVE  CallbackParts'
<1>1. \A b \in Callbacks : /\ Unwritten(b)' <=> Unwritten(b)
                           /\ Handled(b)' <=> Handled(b)
                           /\ Latest(b)' <=> Latest(b)
                           /\ worker'[b[1]] \in {"ask", "await"} <=> worker[b[1]] \in {"ask",
                                "await"}
                           /\ worker'[b[1]] = "await" <=> worker[b[1]] = "await"
                           /\ Carries(toHost', AskOf(b)) <=> Carries(toHost, AskOf(b))
                           /\ Carries(toPlugin', Reply(b)) <=> Carries(toPlugin, Reply(b))
                           /\ Single(toHost, AskOf(b)) => Single(toHost', AskOf(b))
                           /\ Single(toPlugin, Reply(b)) => Single(toPlugin', Reply(b))
  BY CallbackShape DEF SameCallbacks, Unwritten, Handled, Latest, HostAsks, PluginReplies, Kept
<1>2. CallbackOrder'
  BY <1>1 DEF CallbackParts, CallbackOrder, SameCallbacks
<1>3. CallbacksKept'
  BY <1>1 DEF CallbackParts, CallbacksKept, SameCallbacks
<1>4. CallbacksLive'
  BY <1>1 DEF CallbackParts, CallbacksLive, SameCallbacks
<1> QED
  BY <1>2, <1>3, <1>4 DEF CallbackParts

(* A step of the host that is not about callbacks.                         *)
LEMMA HostWithoutCallback ==
  ASSUME IInv, UNCHANGED peer,
         \/ \E i \in Ids : Caller(i) \/ ContextEnds(i)
         \/ ReadAnswer \/ HandOver \/ ReadEvent \/ Deliver \/ ReadEnds
         \/ \E b \in Callbacks : LookUp(b) \/ HandlerEnds(b) \/ TakeRefusal(b)
         \/ Closing
  PROVE  SameCallbacks
<1>1. Bounded /\ handler \in [Callbacks -> {"none", "refused", "refusing", "done"} \union Holding]
  BY DEF IInv, Bounded, TypeOK, ClientType
<1>2. UNCHANGED <<worker, asked, callbacks, routed, abandoned>>
  BY DEF peer, work, asking
<1>3. ASSUME UNCHANGED handler, HostAsks, PluginReplies, Healthy' => Healthy PROVE SameCallbacks
  BY <1>2, <1>3 DEF SameCallbacks
<1>4. ASSUME NEW i \in Ids, NEW g, Attempted(g), UNCHANGED <<handler, readErr>>,
             g \in {Request(i), Cancel(i)}
      PROVE  SameCallbacks
  <2>1. PluginReplies
    BY <1>4, AttemptKeeps, FramesDiffer DEF PluginReplies
  <2>2. toHost' = toHost /\ (input' = "open" => input = "open") /\ proc' = proc
    BY <1>4 DEF Attempted
  <2> QED
    BY <1>3, <1>4, <2>1, <2>2 DEF HostAsks, Healthy
<1>5. ASSUME NEW i \in Ids, Send(i) \/ SendFails(i) \/ Notify(i) PROVE SameCallbacks
  <2>1. UNCHANGED <<handler, readErr>>
    BY <1>5 DEF Send, SendFails, Notify
  <2>2. CASE UNCHANGED wire
    BY <1>3, <2>1, <2>2 DEF wire, HostAsks, PluginReplies, Healthy
  <2> QED
    BY <1>1, <1>4, <1>5, <2>1, <2>2, SendEffect, SendFailsEffect, NotifyEffect
<1>6. ASSUME NEW i \in Ids, \/ Call(i) \/ Receive(i) \/ WriterFailed(i) \/ GiveUp(i)
               \/ DrainEventEnds(i)
                            \/ DrainCancelEnds(i) \/ ContextEnds(i)
      PROVE  SameCallbacks
  <2>1. UNCHANGED <<handler, toHost, toPlugin, input, proc>>
    BY <1>6 DEF Call, Receive, WriterFailed, GiveUp, DrainEventEnds, DrainCancelEnds,
                ContextEnds, wire
  <2>2. readErr' = readErr \/ readErr' # "none"
    BY <1>6, FailEffect
       DEF Call, Receive, WriterFailed, GiveUp, DrainEventEnds, DrainCancelEnds, ContextEnds
  <2> QED
    BY <1>3, <2>1, <2>2 DEF HostAsks, PluginReplies, Healthy
<1>7. ASSUME ReadAnswer \/ ReadEvent PROVE SameCallbacks
  <2>1. UNCHANGED <<handler, toPlugin, input, proc>>
    BY <1>7 DEF ReadAnswer, ReadEvent, Taken
  <2>2. readErr' = readErr \/ readErr' # "none"
    BY <1>7, FailEffect DEF ReadAnswer, ReadEvent, Condemn
  <2>3. \E g : Shrunk(toHost, toHost', g) /\ \A b : AskOf(b) # g
    BY <1>1, <1>7, ReadAnswerEffect, ReadEventEffect, FramesDiffer
  <2>4. HostAsks
    BY <2>3, OtherFramesKept DEF HostAsks
  <2> QED
    BY <1>3, <2>1, <2>2, <2>4 DEF PluginReplies, Healthy
<1>8. ASSUME HandOver \/ Deliver \/ ReadEnds PROVE SameCallbacks
  <2>1. UNCHANGED <<handler, toHost, toPlugin, input, proc>>
    BY <1>8 DEF HandOver, Deliver, ReadEnds, wire
  <2>2. readErr' = readErr \/ readErr' # "none"
    BY <1>8, FailEffect DEF HandOver, Deliver, ReadEnds, Condemn
  <2> QED
    BY <1>3, <2>1, <2>2 DEF HostAsks, PluginReplies, Healthy
<1>9. ASSUME NEW b \in Callbacks, LookUp(b) \/ HandlerEnds(b) \/ TakeRefusal(b)
      PROVE SameCallbacks
  <2>1. /\ handler[b] \notin {"none", "done"}
        /\ \E to \in {"run", "reply", "refusing"} : handler' = [handler EXCEPT ![b] = to]
    BY <1>9 DEF LookUp, HandlerEnds, TakeRefusal
  <2>2. UNCHANGED <<readErr, toHost, toPlugin, input, proc>>
    BY <1>9 DEF LookUp, HandlerEnds, TakeRefusal, wire
  <2>3. \A d \in Callbacks : /\ handler'[d] = "none" <=> handler[d] = "none"
                             /\ handler'[d] = "done" <=> handler[d] = "done"
    BY <1>1, <2>1
  <2> QED
    BY <1>2, <2>2, <2>3 DEF SameCallbacks, HostAsks, PluginReplies, Healthy
<1>10. ASSUME CloseInput PROVE SameCallbacks
  <2>1. UNCHANGED <<handler, readErr, toHost>> /\ input' = "closed"
    BY <1>10 DEF CloseInput
  <2>2. PluginReplies
    BY <1>1, <1>10, CloseInputEffect, OtherFramesKept, FramesDiffer DEF PluginReplies
  <2> QED
    BY <1>3, <2>1, <2>2 DEF HostAsks, Healthy
<1>11. ASSUME Signal \/ Reap \/ CloseExpires PROVE SameCallbacks
  <2>1. UNCHANGED <<handler, readErr, toHost, toPlugin, input>>
          /\ (proc' = "running" => proc = "running")
    BY <1>11 DEF Signal, Reap, CloseExpires, wire
  <2> QED
    BY <1>3, <2>1 DEF HostAsks, PluginReplies, Healthy
<1> QED
  BY <1>5, <1>6, <1>7, <1>8, <1>9, <1>10, <1>11 DEF Caller, Closing

(* A step of the plugin that is not about callbacks.                       *)
LEMMA PeerWithoutCallback ==
  ASSUME IInv, UNCHANGED client,
         \/ ServeRequest \/ ServeCancel \/ ServeShutdown \/ ServeTorn \/ InputEnds
         \/ RefuseWritten \/ AnswerShutdown \/ Exit
         \/ \E c \in Calls : Event(c) \/ Finish(c) \/ Answer(c) \/ AnswerUnframed(c)
  PROVE  SameCallbacks
<1>1. /\ Bounded /\ RequestOrder /\ worker \in [Calls -> WorkerStates]
      /\ Shutdown \in Ids /\ Calls \subseteq Ids /\ Shutdown \notin Calls
  BY WireAssumption DEF IInv, Bounded, TypeOK, PeerType, WorkerStates, Ids
<1>2. UNCHANGED <<handler, readErr>>
  BY DEF client
<1>3. ASSUME UNCHANGED <<asked, callbacks, routed, abandoned>>, HostAsks, PluginReplies, Healthy'
               => Healthy,
             \/ UNCHANGED worker
             \/ \E c \in Calls : /\ worker[c] \notin {"ask", "await"}
                                 /\ \E to \in WorkerStates \ {"ask",
                                      "await"} : worker' = [worker EXCEPT ![c] = to]
      PROVE  SameCallbacks
  <2>1. \A c \in Calls : /\ worker'[c] = "ask" <=> worker[c] = "ask"
                         /\ worker'[c] = "await" <=> worker[c] = "await"
    BY <1>1, <1>3
  <2> QED
    BY <1>2, <1>3, <2>1 DEF SameCallbacks
<1>4. ASSUME ServeRequest PROVE SameCallbacks
  <2>0. PICK c \in Calls : c = Head(toPlugin).id
    BY <1>1, <1>4, ServeRequestEffect
  <2>1. Shrunk(toPlugin, toPlugin', Request(c)) /\ UNCHANGED <<toHost, input, proc>>
    BY <1>1, <1>4, <2>0, ServeRequestEffect
  <2>2. /\ \E to \in {"refuse", "work"} : worker' = [worker EXCEPT ![c] = to]
        /\ UNCHANGED <<asked, callbacks, routed, abandoned>>
    BY <1>4, <2>0 DEF ServeRequest, Becomes, asking
  <2>3. worker[c] = "none"
    BY <1>1, <2>1 DEF Shrunk, RequestOrder, Unread
  <2>4. PluginReplies
    BY <2>1, OtherFramesKept, FramesDiffer DEF PluginReplies
  <2>5. \E to \in WorkerStates \ {"ask", "await"} : worker' = [worker EXCEPT ![c] = to]
    BY <2>2 DEF WorkerStates
  <2> QED
    BY <1>2, <1>3, <2>1, <2>2, <2>3, <2>4, <2>5 DEF HostAsks, Healthy
<1>5. ASSUME ServeCancel \/ ServeShutdown \/ ServeTorn PROVE SameCallbacks
  <2>1. UNCHANGED <<worker, asked, callbacks, routed, abandoned, toHost, input, proc>>
    BY <1>5 DEF ServeCancel, ServeShutdown, ServeTorn, Consumed, asking
  <2>2. \E g : Shrunk(toPlugin, toPlugin', g) /\ \A b : Reply(b) # g
    <3>1. ASSUME ServeCancel
          PROVE  \E g : Shrunk(toPlugin, toPlugin', g) /\ \A b : Reply(b) # g
      BY <1>1, <3>1, ServeCancelEffect, FramesDiffer
    <3>2. ASSUME ServeShutdown
          PROVE  \E g : Shrunk(toPlugin, toPlugin', g) /\ \A b : Reply(b) # g
      BY <1>1, <3>2, ServeShutdownEffect, FramesDiffer
    <3>3. ASSUME ServeTorn
          PROVE  \E g : Shrunk(toPlugin, toPlugin', g) /\ \A b : Reply(b) # g
      BY <1>1, <3>3, ServeTornEffect, FramesDiffer
    <3> QED
      BY <1>5, <3>1, <3>2, <3>3
  <2>3. PluginReplies
    BY <2>2, OtherFramesKept DEF PluginReplies
  <2> QED
    BY <1>2, <1>3, <2>1, <2>3 DEF HostAsks, Healthy
<1>6. ASSUME InputEnds \/ Exit PROVE SameCallbacks
  <2>1. UNCHANGED <<worker, asked, callbacks, routed, abandoned, toHost, toPlugin, input>>
        /\ (proc' = "running" => proc = "running")
    BY <1>6 DEF InputEnds, Exit, asking, work, peer, wire
  <2> QED
    BY <1>2, <1>3, <2>1 DEF HostAsks, PluginReplies, Healthy
<1>7. ASSUME NEW c \in Calls, NEW f, Emitted(f), \A b : AskOf(b) # f,
             worker' = worker
               \/ (worker[c] \in {"refuse", "reply"} /\ \E to \in {"refused",
                    "gone"} : Becomes(c, to)),
             UNCHANGED <<asked, callbacks, routed, abandoned>>
      PROVE  SameCallbacks
  <2>1. HostAsks /\ UNCHANGED <<toPlugin, input, proc>>
    BY <1>7, OtherFramesKept DEF HostAsks, Emitted
  <2>2. \/ UNCHANGED worker
        \/ \E to \in WorkerStates \ {"ask", "await"} : worker' = [worker EXCEPT ![c] = to]
    BY <1>7 DEF Becomes, WorkerStates
  <2> QED
    BY <1>2, <1>3, <1>7, <2>1, <2>2 DEF PluginReplies, Healthy
<1>8. ASSUME RefuseWritten PROVE SameCallbacks
  <2>1. proc = "running" /\ UNCHANGED <<asked, callbacks, routed, abandoned>>
    BY <1>8 DEF RefuseWritten, asking
  <2>2. PICK c \in Calls : worker[c] = "refuse" /\ Emits("answer", c) /\ Becomes(c, "refused")
    BY <1>8 DEF RefuseWritten
  <2>3. Emitted(AnswerOf(c))
    BY <1>1, <2>1, <2>2, AnswerEffect
  <2> QED
    BY <1>7, <2>1, <2>2, <2>3, FramesDiffer
<1>9. ASSUME NEW c \in Calls, Answer(c) PROVE SameCallbacks
  <2>1. /\ proc = "running" /\ worker[c] = "reply" /\ Emits("answer", c) /\ Becomes(c, "gone")
        /\ UNCHANGED <<asked, callbacks, routed, abandoned>>
    BY <1>9 DEF Answer, asking
  <2>2. Emitted(AnswerOf(c))
    BY <1>1, <2>1, AnswerEffect
  <2> QED
    BY <1>7, <2>1, <2>2, FramesDiffer
<1>10. ASSUME NEW c \in Calls, Event(c) PROVE SameCallbacks
  <2>1. /\ proc = "running" /\ Emits("event", c)
        /\ UNCHANGED <<worker, asked, callbacks, routed, abandoned>>
    BY <1>10 DEF Event, asking
  <2>2. Emitted(EventOf(c))
    BY <1>1, <2>1, EventEffect
  <2> QED
    BY <1>7, <2>1, <2>2, FramesDiffer
<1>11. ASSUME AnswerShutdown PROVE SameCallbacks
  <2>1. /\ proc = "running" /\ Emits("answer", Shutdown)
        /\ UNCHANGED <<worker, asked, callbacks, routed, abandoned>>
    BY <1>11 DEF AnswerShutdown, asking, work
  <2>2. Emitted(AnswerOf(Shutdown))
    BY <1>1, <2>1, AnswerEffect
  <2>3. HostAsks /\ UNCHANGED <<toPlugin, input, proc>>
    BY <2>2, OtherFramesKept, FramesDiffer DEF HostAsks, Emitted
  <2> QED
    BY <1>2, <1>3, <2>1, <2>3 DEF PluginReplies, Healthy
<1>12. ASSUME NEW c \in Calls, Finish(c) \/ AnswerUnframed(c) PROVE SameCallbacks
  <2>1. /\ worker[c] \in {"work", "reply"}
        /\ \E to \in {"reply", "dropped"} : worker' = [worker EXCEPT ![c] = to]
        /\ UNCHANGED <<asked, callbacks, routed, abandoned, toHost, toPlugin, input, proc>>
    BY <1>12 DEF Finish, AnswerUnframed, Becomes, asking, wire
  <2>2. \E to \in WorkerStates \ {"ask", "await"} : worker' = [worker EXCEPT ![c] = to]
    BY <2>1 DEF WorkerStates
  <2> QED
    BY <1>2, <1>3, <2>1, <2>2 DEF HostAsks, PluginReplies, Healthy
<1> QED
  BY <1>4, <1>5, <1>6, <1>8, <1>9, <1>10, <1>11, <1>12

-----------------------------------------------------------------------------
(* The steps of a callback on the host: read, replied to.                  *)
LEMMA CallbacksKeptByHost ==
  ASSUME IInv, UNCHANGED peer, ReadAsk \/ \E b \in Callbacks : WriteReply(b)
  PROVE  CallbackParts'
<1>1. /\ Bounded /\ CallbackOrder /\ CallbacksKept /\ CallbacksLive
      /\ handler \in [Callbacks -> {"none", "refused", "refusing", "done"} \union Holding]
      /\ callbacks \subseteq Callbacks /\ abandoned \subseteq Callbacks
  BY DEF IInv, Bounded, TypeOK, ClientType, PeerType
<1>2. /\ UNCHANGED <<worker, asked, callbacks, routed, abandoned>>
      /\ \A b \in Callbacks : (Unwritten(b)' <=> Unwritten(b)) /\ (Latest(b)' <=> Latest(b))
  BY DEF peer, work, asking, Unwritten, Latest
<1>3. ASSUME ReadAsk PROVE CallbackParts'
  <2>0. PICK b \in Callbacks : b = Head(toHost).id
    BY <1>1, <1>3, ReadAskEffect
  <2>1. Shrunk(toHost, toHost', AskOf(b)) /\ UNCHANGED <<toPlugin, input, proc>>
    BY <1>1, <1>3, <2>0, ReadAskEffect
  <2>2. \/ /\ \E to \in {"lookup", "refused"} : handler' = [handler EXCEPT ![b] = to]
           /\ readErr' = readErr
        \/ handler' = handler /\ readErr' # "none"
    BY <1>3, <2>0, FailEffect DEF ReadAsk, Condemn
  <2>3. /\ Carries(toHost, AskOf(b)) /\ ~Carries(toHost', AskOf(b)) /\ handler[b] = "none"
        /\ b \in callbacks \union abandoned /\ ~Carries(toPlugin, Reply(b))
        /\ ~(b[2] > asked[b[1]]) /\ ~Unwritten(b)
    BY <1>1, <2>1 DEF Shrunk, CallbackOrder, CallbacksKept
  <2>4. \A d \in Callbacks : /\ d # b => Kept(toHost, toHost', AskOf(d))
                             /\ Single(toHost', AskOf(d))
                             /\ d # b => handler'[d] = handler[d]
    BY <1>1, <2>1, <2>2, FramesDiffer, ZenonT(60) DEF Shrunk, Kept, CallbackOrder
  <2>5. \A d \in Callbacks \ {b} : Handled(d)' <=> Handled(d)
    BY <2>4 DEF Handled
  <2>6. CallbackOrder'
    BY <1>1, <1>2, <2>1, <2>3, <2>4 DEF CallbackOrder, Kept
  <2>7. CallbacksKept'
    BY <1>1, <1>2, <2>1, <2>3, <2>4, <2>5 DEF CallbacksKept, Kept
  <2>8. Healthy' => Healthy /\ Handled(b)'
    BY <1>1, <2>1, <2>2 DEF Healthy, Handled
  <2>9. CallbacksLive'
    BY <1>1, <1>2, <2>1, <2>3, <2>4, <2>5, <2>8 DEF CallbacksLive, Kept
  <2> QED
    BY <2>6, <2>7, <2>9 DEF CallbackParts
<1>4. ASSUME NEW b \in Callbacks, WriteReply(b) PROVE CallbackParts'
  <2>1. Attempted(Reply(b))
    BY <1>1, <1>4, WriteReplyEffect
  <2>2. handler[b] \notin {"none", "done"} /\ handler' = [handler EXCEPT ![b] = "done"]
          /\ readErr' = readErr
    BY <1>4 DEF WriteReply
  <2>3. /\ ~Carries(toHost, AskOf(b)) /\ ~Carries(toPlugin, Reply(b)) /\ Handled(b)
        /\ b \in callbacks \union abandoned /\ ~(b[2] > asked[b[1]]) /\ ~Unwritten(b)
    BY <1>1, <2>2 DEF CallbackOrder, CallbacksKept, Handled
  <2>4. \A d \in Callbacks : /\ d # b => Kept(toPlugin, toPlugin', Reply(d))
                             /\ Single(toPlugin', Reply(d))
                             /\ d # b => handler'[d] = handler[d]
                             /\ handler'[b] = "done"
    <3>1. \A d \in Callbacks : d # b => Kept(toPlugin, toPlugin', Reply(d))
      BY <2>1, AttemptKeeps, FramesDiffer
    <3>2. Single(toPlugin', Reply(b))
      <4>1. Single(toPlugin, Reply(b)) /\ Reply(b) # Torn
        BY <1>1, FramesDiffer DEF CallbackOrder
      <4> QED
        BY <2>1, <2>3, <4>1 DEF Attempted, Grown
    <3> QED
      BY <1>1, <2>2, <3>1, <3>2 DEF Kept, CallbackOrder
  <2>5. \A d \in Callbacks \ {b} : Handled(d)' <=> Handled(d)
    BY <2>4 DEF Handled
  <2>6. toHost' = toHost
    BY <2>1 DEF Attempted
  <2>7. CallbackOrder'
    BY <1>1, <1>2, <2>3, <2>4, <2>6 DEF CallbackOrder, Kept
  <2>8. CallbacksKept'
    BY <1>1, <1>2, <2>3, <2>4, <2>5, <2>6 DEF CallbacksKept, Kept
  <2>9. Healthy' => Healthy /\ Carries(toPlugin', Reply(b))
    BY <2>1, <2>2 DEF Attempted, Healthy, Grown
  <2>10. CallbacksLive'
    BY <1>1, <1>2, <2>3, <2>4, <2>5, <2>6, <2>9 DEF CallbacksLive, Kept
  <2> QED
    BY <2>7, <2>8, <2>10 DEF CallbackParts
<1> QED
  BY <1>3, <1>4

(* The steps of a callback in the plugin: registered, written, routed,     *)
(* taken or abandoned.                                                     *)
LEMMA CallbacksKeptByPeer ==
  ASSUME IInv, UNCHANGED client,
         ServeReply \/ \E c \in Calls : \/ Ask(c) \/ AskWritten(c) \/ AskUnframed(c)
                                       \/ TakeReply(c) \/ Abandon(c)
  PROVE  CallbackParts'
<1>1. /\ Bounded /\ CallbackOrder /\ CallbacksKept /\ CallbacksLive
      /\ worker \in [Calls -> WorkerStates] /\ asked \in [Calls -> Nat]
      /\ callbacks \subseteq Callbacks /\ abandoned \subseteq Callbacks
  BY DEF IInv, Bounded, TypeOK, PeerType, WorkerStates
<1>2. /\ UNCHANGED <<handler, readErr>>
      /\ \A b \in Callbacks : Handled(b)' <=> Handled(b)
  BY DEF client, Handled
<1>3. ASSUME ServeReply PROVE CallbackParts'
  <2>0. PICK b \in Callbacks : b = Head(toPlugin).id
    BY <1>1, <1>3, ServeReplyEffect
  <2>1. Shrunk(toPlugin, toPlugin', Reply(b)) /\ UNCHANGED <<toHost, input, proc>>
    BY <1>1, <1>3, <2>0, ServeReplyEffect
  <2>2. /\ UNCHANGED <<worker, asked>>
        /\ callbacks' = callbacks \ {b} /\ abandoned' = abandoned \ {b}
        /\ routed' = routed \/ (b \in callbacks /\ routed' = routed \union {b})
    BY <1>3, <2>0 DEF ServeReply
  <2>3. \A d \in Callbacks : (Unwritten(d)' <=> Unwritten(d)) /\ (Latest(d)' <=> Latest(d))
    BY <2>2 DEF Unwritten, Latest
  <2>4. /\ ~Carries(toHost, AskOf(b)) /\ ~Carries(toPlugin', Reply(b)) /\ ~Handled(b)
        /\ ~Unwritten(b)
    BY <1>1, <2>1 DEF Shrunk, CallbackOrder, Handled
  <2>5. \A d \in Callbacks : /\ d # b => Kept(toPlugin, toPlugin', Reply(d))
                             /\ Single(toPlugin', Reply(d))
    BY <1>1, <2>1, FramesDiffer DEF Shrunk, Kept, CallbackOrder
  <2>6. CallbackOrder'
    BY <1>1, <1>2, <2>1, <2>2, <2>3, <2>4, <2>5 DEF CallbackOrder, Kept
  <2>7. b \in callbacks => worker[b[1]] = "await" /\ Latest(b)
    BY <1>1, <2>4 DEF CallbacksKept, Unwritten
  <2>8. CallbacksKept'
    BY <1>1, <1>2, <2>1, <2>2, <2>3, <2>4, <2>5, <2>7 DEF CallbacksKept, Kept
  <2>9. CallbacksLive'
    BY <1>1, <1>2, <2>1, <2>2, <2>3, <2>4, <2>5 DEF CallbacksLive, Healthy, Kept
  <2> QED
    BY <2>6, <2>8, <2>9 DEF CallbackParts
<1>4. ASSUME NEW c \in Calls, Ask(c) PROVE CallbackParts'
  <2>0. PICK n : n = <<c, asked[c] + 1>>
    OBVIOUS
  <2>1. /\ worker[c] = "work" /\ worker' = [worker EXCEPT ![c] = "ask"]
        /\ asked' = [asked EXCEPT ![c] = @ + 1] /\ callbacks' = callbacks \union {n}
        /\ UNCHANGED <<routed, abandoned, toHost, toPlugin, input, proc>>
    BY <1>4, <2>0 DEF Ask, Becomes, wire
  <2>2. \A d \in Callbacks : d = n <=> d[1] = c /\ d[2] = asked[c] + 1
    BY <2>0, CallbackShape
  <2>3. \A d \in Callbacks :
          /\ d[1] # c => (Unwritten(d)' <=> Unwritten(d)) /\ (Latest(d)' <=> Latest(d))
          /\ d[1] # c => worker'[d[1]] = worker[d[1]] /\ asked'[d[1]] = asked[d[1]]
          /\ d[1] = c => /\ ~Unwritten(d) /\ d \notin callbacks /\ d \notin routed
                         /\ (Unwritten(d)' <=> d = n) /\ (Latest(d)' <=> d = n)
                         /\ worker'[d[1]] = "ask" /\ asked'[d[1]] = asked[c] + 1
    BY <1>1, <2>1, <2>2, CallbackShape DEF CallbacksKept, Unwritten, Latest
  <2>4. \A d \in Callbacks : d = n => /\ handler[d] = "none" /\ ~Carries(toHost, AskOf(d))
                                      /\ ~(d[2] > asked'[c]) /\ d \notin abandoned
    BY <1>1, <2>2, <2>3, CallbackShape DEF CallbackOrder
  <2>5. \A d \in Callbacks : d[2] > asked'[d[1]] => d[2] > asked[d[1]] /\ d # n
    BY <1>1, <2>2, <2>3, CallbackShape
  <2>6. CallbackOrder'
    BY <1>1, <1>2, <2>1, <2>3, <2>4, <2>5 DEF CallbackOrder
  <2>7. CallbacksKept'
    <3> SUFFICES ASSUME NEW d \in Callbacks
        PROVE  /\ Unwritten(d)' \/ Carries(toHost, AskOf(d)) \/ Handled(d)
                    \/ Carries(toPlugin, Reply(d))
                    => d \in callbacks' \union abandoned'
               /\ d \in callbacks' => worker'[d[1]] \in {"ask", "await"} /\ Latest(d)'
               /\ d \in routed' => worker'[d[1]] = "await" /\ Latest(d)' /\ d \notin callbacks'
      BY <1>2, <2>1 DEF CallbacksKept
    <3>1. CASE d[1] = c
      BY <1>1, <2>1, <2>3, <3>1 DEF CallbacksKept
    <3>2. CASE d[1] # c
      BY <1>1, <2>1, <2>2, <2>3, <3>2 DEF CallbacksKept
    <3> QED
      BY <3>1, <3>2
  <2>8. CallbacksLive'
    <3>1. Unwritten(n)'
      BY <1>1, <2>0, <2>1 DEF Unwritten, Latest
    <3>2. ASSUME NEW d \in callbacks \union abandoned, Healthy'
          PROVE  Unwritten(d)' \/ Carries(toHost, AskOf(d)) \/ Handled(d)
                   \/ Carries(toPlugin, Reply(d))
      BY <1>1, <1>2, <2>1, <2>3, <3>2 DEF CallbacksLive, Healthy
    <3> QED
      BY <1>2, <2>1, <3>1, <3>2 DEF CallbacksLive, Handled
  <2> QED
    BY <2>6, <2>7, <2>8 DEF CallbackParts
<1>5. ASSUME NEW c \in Calls, AskWritten(c) PROVE CallbackParts'
  <2> DEFINE n == Current(c)
  <2>1. /\ worker[c] = "ask" /\ worker' = [worker EXCEPT ![c] = "await"]
        /\ UNCHANGED <<asked, callbacks, routed, abandoned>>
    BY <1>5 DEF AskWritten, Becomes, asking
  <2>2. n \in Callbacks /\ Emitted(AskOf(n))
    BY <1>1, <1>5, AskEffect
  <2>3. Grown(toHost, toHost', AskOf(n)) /\ UNCHANGED <<toPlugin, input, proc>>
    BY <2>2 DEF Emitted
  <2>4. \A d \in Callbacks : d = n <=> d[1] = c /\ Latest(d)
    BY CallbackShape DEF Current, Latest
  <2> HIDE DEF n
  <2>5. /\ Unwritten(n) /\ handler[n] = "none" /\ ~Carries(toHost, AskOf(n))
        /\ n \in callbacks \union abandoned /\ ~(n[2] > asked[n[1]])
    BY <1>1, <2>1, <2>2, <2>4, CallbackShape DEF Unwritten, CallbackOrder, CallbacksKept
  <2>6. \A d \in Callbacks : /\ Carries(toHost', AskOf(d)) <=> Carries(toHost, AskOf(d)) \/ d = n
                             /\ Single(toHost', AskOf(d))
    BY <1>1, <2>3, <2>5, FramesDiffer DEF Grown, CallbackOrder
  <2>7. \A d \in Callbacks :
          /\ Latest(d)' <=> Latest(d)
          /\ Unwritten(d)' <=> Unwritten(d) /\ d # n
          /\ worker'[d[1]] \in {"ask", "await"} <=> worker[d[1]] \in {"ask", "await"}
          /\ worker[d[1]] = "await" => worker'[d[1]] = "await"
    BY <1>1, <2>1, <2>4, CallbackShape DEF Unwritten, Latest
  <2>8. CallbackOrder'
    BY <1>1, <1>2, <2>1, <2>3, <2>5, <2>6, <2>7 DEF CallbackOrder
  <2>9. CallbacksKept'
    BY <1>1, <1>2, <2>1, <2>3, <2>5, <2>6, <2>7 DEF CallbacksKept
  <2>10. CallbacksLive'
    BY <1>1, <1>2, <2>1, <2>3, <2>5, <2>6, <2>7 DEF CallbacksLive, Healthy
  <2> QED
    BY <2>8, <2>9, <2>10 DEF CallbackParts
<1>6. ASSUME NEW c \in Calls, TakeReply(c) \/ Abandon(c) PROVE CallbackParts'
  <2> DEFINE n == Current(c)
  <2>1. /\ worker[c] = "await" /\ worker' = [worker EXCEPT ![c] = "work"]
        /\ routed' = routed \ {n} /\ callbacks' \subseteq callbacks
        /\ n \in callbacks' => n \in routed
        /\ callbacks \ {n} \subseteq callbacks' /\ abandoned \subseteq abandoned'
        /\ abandoned' \subseteq abandoned \union ({n} \intersect callbacks)
        /\ n \in callbacks \union abandoned => n \in callbacks' \union abandoned'
        /\ UNCHANGED <<asked, toHost, toPlugin, input, proc>>
    BY <1>6 DEF TakeReply, Abandon, Becomes, wire
  <2>2. \A d \in Callbacks : d = n <=> d[1] = c /\ Latest(d)
    BY CallbackShape DEF Current, Latest
  <2> HIDE DEF n
  <2>3. \A d \in Callbacks :
          /\ Latest(d)' <=> Latest(d)
          /\ Unwritten(d)' <=> Unwritten(d)
          /\ d[1] # c => worker'[d[1]] = worker[d[1]]
    BY <1>1, <2>1, CallbackShape DEF Unwritten, Latest
  <2>4. \A d \in Callbacks : /\ d \in callbacks' => d[1] # c
                             /\ d \in routed' => d[1] # c /\ d \in routed
    BY <1>1, <2>1, <2>2 DEF CallbacksKept
  <2>5. CallbackOrder'
    <3>1. \A d \in Callbacks : Unwritten(d) => d # n
      BY <2>1, <2>2 DEF Unwritten
    <3>2. abandoned' \subseteq abandoned \union {n}
      BY <2>1
    <3> QED
      BY <1>1, <1>2, <2>1, <2>3, <3>1, <3>2 DEF CallbackOrder
  <2>6. CallbacksKept'
    BY <1>1, <1>2, <2>1, <2>3, <2>4 DEF CallbacksKept
  <2>7. CallbacksLive'
    BY <1>1, <1>2, <2>1, <2>3 DEF CallbacksLive, Healthy
  <2> QED
    BY <2>5, <2>6, <2>7 DEF CallbackParts
<1>7. ASSUME NEW c \in Calls, AskUnframed(c) PROVE CallbackParts'
  <2> DEFINE n == Current(c)
  <2>1. /\ worker[c] = "ask" /\ worker' = [worker EXCEPT ![c] = "work"]
        /\ callbacks' = callbacks \ {n}
        /\ UNCHANGED <<asked, routed, abandoned, toHost, toPlugin, input, proc>>
    BY <1>7 DEF AskUnframed, Becomes, wire
  <2>2. \A d \in Callbacks : d = n <=> d[1] = c /\ Latest(d)
    BY CallbackShape DEF Current, Latest
  <2> HIDE DEF n
  <2>3. \A d \in Callbacks :
          /\ Latest(d)' <=> Latest(d)
          /\ Unwritten(d)' <=> Unwritten(d) /\ d # n
          /\ d[1] # c => worker'[d[1]] = worker[d[1]]
    BY <1>1, <2>1, <2>2, CallbackShape DEF Unwritten, Latest
  <2>4. \A d \in Callbacks : d = n =>
          /\ ~Carries(toHost, AskOf(d)) /\ ~Handled(d) /\ ~Carries(toPlugin, Reply(d))
          /\ d \notin abandoned
    BY <1>1, <2>1, <2>2, CallbackShape DEF Unwritten, Handled, CallbackOrder
  <2>5. \A d \in Callbacks : /\ d \in callbacks' => d[1] # c /\ d \in callbacks
                             /\ d \in routed => d[1] # c
    BY <1>1, <2>1, <2>2 DEF CallbacksKept
  <2>6. CallbackOrder'
    BY <1>1, <1>2, <2>1, <2>3 DEF CallbackOrder
  <2>7. CallbacksKept'
    BY <1>1, <1>2, <2>1, <2>3, <2>4, <2>5 DEF CallbacksKept
  <2>8. CallbacksLive'
    BY <1>1, <1>2, <2>1, <2>3, <2>4 DEF CallbacksLive, Healthy
  <2> QED
    BY <2>6, <2>7, <2>8 DEF CallbackParts
<1> QED
  BY <1>3, <1>4, <1>5, <1>6, <1>7

(* The callback parts of the invariant, through any step.                  *)
LEMMA CallbacksNext == IInv /\ [Next]_vars => CallbackParts'
<1> SUFFICES ASSUME IInv, [Next]_vars PROVE CallbackParts'
  OBVIOUS
<1>1. CallbackParts /\ callbacks \subseteq Callbacks /\ abandoned \subseteq Callbacks
  BY DEF IInv, CallbackParts, Bounded, TypeOK, PeerType
<1>2. CASE ClientNext /\ UNCHANGED peer
  BY <1>1, <1>2, HostWithoutCallback, CallbacksKeptByHost, CallbacksUntouched
     DEF ClientNext, Reader, Handler
<1>3. CASE PeerNext /\ UNCHANGED client
  BY <1>1, <1>3, PeerWithoutCallback, CallbacksKeptByPeer, CallbacksUntouched
     DEF PeerNext, Loop, Worker
<1>4. CASE (Hang \/ Die) /\ UNCHANGED <<client, peer>>
  <2>1. UNCHANGED <<toPlugin, toHost, worker, asked, callbacks, routed, abandoned, handler,
          readErr, input>>
        /\ (proc' = "running" => proc = "running")
    BY <1>4 DEF Hang, Die, client, peer, work, asking
  <2>2. SameCallbacks
    BY <2>1 DEF SameCallbacks, HostAsks, PluginReplies, Healthy
  <2> QED
    BY <1>1, <2>2, CallbacksUntouched
<1>5. CASE UNCHANGED vars
  <2>1. UNCHANGED <<toPlugin, toHost, worker, asked, callbacks, routed, abandoned, handler,
          readErr, input, proc>>
    BY <1>5 DEF vars, wire, client, peer, work, asking
  <2>2. SameCallbacks
    BY <2>1 DEF SameCallbacks, HostAsks, PluginReplies, Healthy
  <2> QED
    BY <1>1, <2>2, CallbacksUntouched
<1> QED
  BY <1>2, <1>3, <1>4, <1>5 DEF Next

-----------------------------------------------------------------------------
(* A step that neither lets a call begin or reads an answer, on the host,  *)
(* nor one that starts or ends a handler, in the plugin.                   *)
SettledHost ==
  /\ pending' \subseteq pending
  /\ reader' = [at |-> "handing", on |-> Shutdown] => reader = [at |-> "handing", on |-> Shutdown]
  /\ mailbox'[Shutdown] = "answer" => mailbox[Shutdown] = "answer"

SettledPeer ==
  /\ shutdownReply' = "sent" <=> shutdownReply = "sent"
  /\ \A c \in Calls : worker'[c] = "gone" <=> worker[c] = "gone"
  /\ Active' \subseteq Active

AnswersStay ==
  toHost' = toHost \/ \A c \in Calls : worker[c] = "gone" =>
    /\ Kept(toHost, toHost', AnswerOf(c))
    /\ Ordered(toHost, AnswerOf(c), AnswerOf(Shutdown)) =>
         Ordered(toHost', AnswerOf(c), AnswerOf(Shutdown))

(* Together they preserve the shutdown part.                               *)
LEMMA ShutdownUntouched ==
  ASSUME ShutdownOrder, SettledHost, SettledPeer, AnswersStay
  PROVE  ShutdownOrder'
  BY DEF ShutdownOrder, SettledHost, SettledPeer, AnswersStay, Kept

(* A failure of the connection, for the shutdown part.                     *)
LEMMA FailSettles ==
  ASSUME Shutdown \in Ids, NEW err, Fail(err)
  PROVE  /\ pending' \subseteq pending
         /\ mailbox'[Shutdown] = "answer" => mailbox[Shutdown] = "answer"
  BY DEF Fail, calls

(* The steps of the host that neither begin a call nor read an answer.     *)
LEMMA HostSettles ==
  ASSUME IInv, UNCHANGED peer, ClientNext,
         ~\E i \in Ids : Call(i), ~ReadAnswer, ~HandOver
  PROVE  ShutdownOrder'
<1>1. Bounded /\ ShutdownOrder /\ Shutdown \in Ids
  BY DEF IInv, Ids
<1>2. SettledPeer
  BY DEF peer, work, SettledPeer, Active
<1>3. SettledHost
  <2>1. ASSUME NEW i \in Ids, \/ Send(i) \/ SendFails(i) \/ Receive(i) \/ WriterFailed(i)
                 \/ GiveUp(i)
                              \/ Notify(i) \/ DrainEventEnds(i) \/ DrainCancelEnds(i)
                                   \/ ContextEnds(i)
        PROVE  SettledHost
    BY <1>1, <2>1, FailSettles
       DEF Send, SendFails, Receive, WriterFailed, GiveUp, Notify, DrainEventEnds,
           DrainCancelEnds,
           ContextEnds, SettledHost, calls
  <2>2. ASSUME ReadAsk \/ ReadEvent \/ ReadEnds PROVE SettledHost
    BY <1>1, <2>2, FailSettles
       DEF ReadAsk, ReadEvent, ReadEnds, Condemn, Reading, SettledHost, calls
  <2>3. ASSUME Deliver PROVE SettledHost
    BY <2>3 DEF Deliver, Reading, SettledHost
  <2>4. ASSUME Closing \/ \E b \in Callbacks : Handler(b) \/ TakeRefusal(b) PROVE SettledHost
    BY <2>4 DEF Closing, CloseInput, Signal, Reap, CloseExpires, Handler, LookUp, HandlerEnds,
                WriteReply, TakeRefusal, SettledHost, calls
  <2> QED
    BY <2>1, <2>2, <2>3, <2>4 DEF ClientNext, Caller, Reader
<1>4. AnswersStay
  <2>1. ASSUME ReadAsk \/ ReadEvent PROVE AnswersStay
    <3>1. \E g : Shrunk(toHost, toHost', g) /\ \A i : AnswerOf(i) # g
      BY <1>1, <2>1, ReadAskEffect, ReadEventEffect, FramesDiffer
    <3> QED
      BY <3>1, OtherFramesKept, FramesDiffer, WireAssumption DEF AnswersStay
  <2>2. ASSUME ~ReadAsk, ~ReadEvent PROVE toHost' = toHost
    BY <2>2 DEF ClientNext, Caller, Reader, ContextEnds, Send, SendFails, Receive, WriterFailed,
                GiveUp,
                Notify, DrainEventEnds, DrainCancelEnds, Deliver, ReadEnds, Handler, LookUp,
                HandlerEnds, WriteReply, TakeRefusal, Closing, CloseInput, Signal, Reap,
                CloseExpires, Written, Unwritable, Interrupted, WriteTimesOut, wire
  <2> QED
    BY <2>1, <2>2 DEF AnswersStay
<1> QED
  BY <1>1, <1>2, <1>3, <1>4, ShutdownUntouched

(* The steps of the plugin that neither start a handler nor answer.        *)
LEMMA PeerSettles ==
  ASSUME IInv, UNCHANGED client, PeerNext,
         ~ServeRequest, ~AnswerShutdown, ~\E c \in Calls : Answer(c)
  PROVE  ShutdownOrder'
<1>1. /\ Bounded /\ ShutdownOrder /\ RequestOrder /\ worker \in [Calls -> WorkerStates]
      /\ Shutdown \in Ids /\ Calls \subseteq Ids /\ Shutdown \notin Calls
  BY WireAssumption DEF IInv, Ids, Bounded, TypeOK, PeerType, WorkerStates
<1>2. SettledHost
  BY DEF client, calls, SettledHost
<1>3. ASSUME NEW g, Emitted(g), \A c \in Calls : worker[c] = "gone" => AnswerOf(c) # g
      PROVE AnswersStay
  BY <1>1, <1>3, OtherFramesKept, FramesDiffer DEF Emitted, AnswersStay
<1>4. ASSUME ServeCancel \/ ServeReply \/ ServeTorn \/ InputEnds \/ Exit PROVE ShutdownOrder'
  <2>1. UNCHANGED <<worker, shutdownReply, toHost>>
    BY <1>4 DEF ServeCancel, ServeReply, ServeTorn, InputEnds, Exit, Consumed, wire, peer, work
  <2> QED
    BY <1>1, <1>2, <2>1, ShutdownUntouched DEF SettledPeer, Active, AnswersStay
<1>5. ASSUME ServeShutdown PROVE ShutdownOrder'
  <2>1. UNCHANGED <<worker, toHost>> /\ shutdownReply' = "owed"
    BY <1>5 DEF ServeShutdown, Consumed
  <2>2. shutdownReply # "sent"
    <3>1. Shrunk(toPlugin, toPlugin', Request(Shutdown))
      BY <1>1, <1>5, ServeShutdownEffect
    <3>2. Unread(Shutdown)
      BY <1>1, <3>1 DEF RequestOrder, Shrunk
    <3> QED
      BY <1>1, <3>2 DEF RequestOrder, Unread
  <2> QED
    BY <1>1, <1>2, <2>1, <2>2, ShutdownUntouched DEF SettledPeer, Active, AnswersStay
<1>6. ASSUME RefuseWritten PROVE ShutdownOrder'
  <2>1. PICK c \in Calls : worker[c] = "refuse" /\ Emits("answer", c) /\ Becomes(c, "refused")
    BY <1>6 DEF RefuseWritten
  <2>2. UNCHANGED shutdownReply /\ proc = "running"
    BY <1>6 DEF RefuseWritten
  <2>3. Emitted(AnswerOf(c))
    BY <1>1, <2>1, <2>2, AnswerEffect
  <2>4. SettledPeer
    BY <1>1, <2>1, <2>2 DEF Becomes, SettledPeer, Active
  <2>5. AnswersStay
    BY <1>1, <1>3, <2>1, <2>3, FramesDiffer
  <2> QED
    BY <1>1, <1>2, <2>4, <2>5, ShutdownUntouched
<1>7. ASSUME NEW c \in Calls, Event(c) PROVE ShutdownOrder'
  <2>1. /\ proc = "running" /\ Emits("event", c) /\ UNCHANGED <<worker, shutdownReply>>
    BY <1>7 DEF Event
  <2>2. Emitted(EventOf(c))
    BY <1>1, <2>1, EventEffect
  <2>3. AnswersStay
    BY <1>3, <2>2, FramesDiffer
  <2> QED
    BY <1>1, <1>2, <2>1, <2>3, ShutdownUntouched DEF SettledPeer, Active
<1>8. ASSUME NEW c \in Calls, \/ Ask(c) \/ AskWritten(c) \/ AskUnframed(c) \/ TakeReply(c)
                              \/ Abandon(c) \/ Finish(c) \/ AnswerUnframed(c)
      PROVE  ShutdownOrder'
  <2>1. /\ worker[c] \in {"work", "ask", "await", "reply"}
        /\ \E to \in {"work", "ask", "await", "reply", "dropped"} :
             worker' = [worker EXCEPT ![c] = to]
        /\ UNCHANGED shutdownReply
    BY <1>8 DEF Ask, AskWritten, AskUnframed, TakeReply, Abandon, Finish, AnswerUnframed, Becomes
  <2>2. SettledPeer
    BY <1>1, <2>1 DEF SettledPeer, Active
  <2>3. CASE AskWritten(c)
    BY <1>1, <1>2, <1>3, <2>2, <2>3, AskEffect, FramesDiffer, ShutdownUntouched
  <2>4. CASE toHost' = toHost
    BY <1>1, <1>2, <2>2, <2>4, ShutdownUntouched DEF AnswersStay
  <2> QED
    BY <1>8, <2>3, <2>4 DEF Ask, AskUnframed, TakeReply, Abandon, Finish, AnswerUnframed, wire
<1> QED
  BY <1>4, <1>5, <1>6, <1>7, <1>8 DEF PeerNext, Loop, Worker

(* The shutdown reply comes last, through any step.                        *)
LEMMA ShutdownNext == IInv /\ [Next]_vars => ShutdownOrder'
<1> SUFFICES ASSUME IInv, [Next]_vars PROVE ShutdownOrder'
  OBVIOUS
<1>1. /\ Bounded /\ ShutdownOrder /\ RequestOrder /\ RequestsKept
           /\ worker \in [Calls -> WorkerStates]
      /\ Shutdown \in Ids /\ Calls \subseteq Ids /\ Shutdown \notin Calls /\ pending \subseteq Ids
      /\ mailbox \in [Ids -> {"empty", "answer", "failure"}]
      /\ reader \in [at : {"reading", "looked", "inSink", "handing", "ended"}, on : Ids]
  BY WireAssumption DEF IInv, Ids, Bounded, TypeOK, PeerType, ClientType, WorkerStates
<1>2. CASE ClientNext /\ UNCHANGED peer
  <2>1. UNCHANGED <<worker, shutdownReply, Active>>
    BY <1>2 DEF peer, work, Active
  <2>2. ASSUME NEW i \in Ids, Call(i) PROVE ShutdownOrder'
    <3>1. stage[i] = "idle" /\ pending' \subseteq pending \union {i}
            /\ UNCHANGED <<mailbox, reader, toHost>>
      BY <2>2 DEF Call, calls, wire
    <3>2. i \in Calls => worker[i] # "gone"
      BY <1>1, <3>1 DEF RequestOrder, Unread
    <3> QED
      BY <1>1, <2>1, <3>1, <3>2 DEF ShutdownOrder
  <2>3. ASSUME HandOver PROVE ShutdownOrder'
    <3>1. /\ reader.at = "handing" /\ reader' = [at |-> "reading", on |-> Shutdown]
          /\ mailbox' = [mailbox EXCEPT ![reader.on] = "answer"] /\ UNCHANGED <<pending, toHost>>
      BY <2>3 DEF HandOver, Reading, wire
    <3>2. mailbox'[Shutdown] = "answer" =>
            reader = [at |-> "handing", on |-> Shutdown] \/ mailbox[Shutdown] = "answer"
      BY <1>1, <3>1
    <3>3. reader' # [at |-> "handing", on |-> Shutdown]
      BY <3>1
    <3> QED
      BY <1>1, <2>1, <3>1, <3>2, <3>3 DEF ShutdownOrder
  <2>4. ASSUME ReadAnswer PROVE ShutdownOrder'
    <3>0. PICK i \in Ids : i = Head(toHost).id
      BY <1>1, <2>4, ReadAnswerEffect
    <3>1. Shrunk(toHost, toHost', AnswerOf(i))
      BY <1>1, <2>4, <3>0, ReadAnswerEffect
    <3>2. /\ i \notin pending' /\ pending' \subseteq pending
          /\ mailbox'[Shutdown] = "answer" => mailbox[Shutdown] = "answer"
          /\ reader' = [at |-> "handing", on |-> i] \/ reader'.at = "ended"
      BY <1>1, <2>4, <3>0, FailSettles, FailEffect DEF ReadAnswer, Condemn, Reading
    <3>3. \A c \in Calls : /\ Carries(toHost', AnswerOf(c)) <=> Carries(toHost, AnswerOf(c))
                                /\ c # i
                           /\ Ordered(toHost, AnswerOf(c), AnswerOf(Shutdown)) =>
                                /\ Ordered(toHost', AnswerOf(c), AnswerOf(Shutdown))
                                /\ i = Shutdown => ~Carries(toHost, AnswerOf(c))
      BY <1>1, <3>1, FramesDiffer DEF Shrunk, RequestOrder
    <3>4. Carries(toHost, AnswerOf(i)) /\ (i = Shutdown => shutdownReply = "sent")
      BY <1>1, <3>1 DEF Shrunk, RequestOrder, Answered
    <3> QED
      BY <1>1, <2>1, <3>2, <3>3, <3>4 DEF ShutdownOrder
  <2> QED
    BY <1>2, <2>2, <2>3, <2>4, HostSettles
<1>3. CASE PeerNext /\ UNCHANGED client
  <2>1. UNCHANGED <<pending, reader, mailbox>>
    BY <1>3 DEF client, calls
  <2>2. ASSUME ServeRequest PROVE ShutdownOrder'
    <3>0. PICK c \in Calls : c = Head(toPlugin).id
      BY <1>1, <2>2, ServeRequestEffect
    <3>1. Shrunk(toPlugin, toPlugin', Request(c)) /\ UNCHANGED toHost
      BY <1>1, <2>2, <3>0, ServeRequestEffect
    <3>2. /\ UNCHANGED shutdownReply
          /\ \/ worker' = [worker EXCEPT ![c] = "refuse"]
             \/ ~shuttingDown /\ worker' = [worker EXCEPT ![c] = "work"]
      BY <2>2, <3>0 DEF ServeRequest, Becomes
    <3>3. worker[c] = "none"
      BY <1>1, <3>1 DEF Shrunk, RequestOrder, Unread
    <3>4. shutdownReply = "sent" => worker' = [worker EXCEPT ![c] = "refuse"]
      BY <1>1, <3>2 DEF RequestOrder
    <3>5. \A d \in Calls : worker'[d] = "gone" <=> worker[d] = "gone"
      BY <1>1, <3>2, <3>3
    <3>6. shutdownReply = "sent" => Active' \subseteq Active
      BY <1>1, <3>4 DEF Active
    <3> QED
      BY <1>1, <2>1, <3>1, <3>2, <3>5, <3>6 DEF ShutdownOrder
  <2>3. ASSUME AnswerShutdown PROVE ShutdownOrder'
    <3>1. proc = "running" /\ shutdownReply = "owed" /\ shutdownReply' = "sent" /\ Active = {}
          /\ Emits("answer", Shutdown) /\ UNCHANGED worker
      BY <2>3 DEF AnswerShutdown, work
    <3>2. Emitted(AnswerOf(Shutdown))
      BY <1>1, <3>1, AnswerEffect
    <3>3. ~Carries(toHost, AnswerOf(Shutdown))
      BY <1>1, <3>1 DEF RequestOrder, Answered
    <3>4. \A c \in Calls : /\ Carries(toHost', AnswerOf(c)) <=> Carries(toHost, AnswerOf(c))
                           /\ Ordered(toHost, AnswerOf(c), AnswerOf(Shutdown)) =>
                                Ordered(toHost', AnswerOf(c), AnswerOf(Shutdown))
      BY <1>1, <3>2, FramesDiffer DEF Emitted, Grown
    <3> QED
      BY <1>1, <2>1, <3>1, <3>4 DEF ShutdownOrder, Active
  <2>4. ASSUME NEW c \in Calls, Answer(c) PROVE ShutdownOrder'
    <3>1. /\ proc = "running" /\ worker[c] = "reply" /\ worker' = [worker EXCEPT ![c] = "gone"]
          /\ Emits("answer", c) /\ UNCHANGED shutdownReply
      BY <2>4 DEF Answer, Becomes
    <3>2. Emitted(AnswerOf(c))
      BY <1>1, <3>1, AnswerEffect
    <3>3. shutdownReply # "sent"
      BY <1>1, <3>1 DEF ShutdownOrder, Active
    <3>4. ~Carries(toHost, AnswerOf(Shutdown))
      BY <1>1, <3>3 DEF RequestOrder, Answered
    <3>5. \A d \in Calls : /\ Carries(toHost', AnswerOf(d)) <=> Carries(toHost, AnswerOf(d))
                                \/ d = c
                           /\ Ordered(toHost', AnswerOf(d), AnswerOf(Shutdown))
      <4>1. ~Carries(toHost', AnswerOf(Shutdown))
        BY <1>1, <3>2, <3>4, FramesDiffer DEF Emitted, Grown
      <4>2. \A d \in Calls : Ordered(toHost', AnswerOf(d), AnswerOf(Shutdown))
        BY <4>1 DEF Carries, Ordered
      <4> QED
        BY <3>2, <4>2, FramesDiffer DEF Emitted, Grown
    <3>6. \A d \in Calls : worker'[d] = "gone" <=> worker[d] = "gone" \/ d = c
      BY <1>1, <3>1
    <3> QED
      BY <1>1, <2>1, <3>1, <3>3, <3>5, <3>6 DEF ShutdownOrder
  <2> QED
    BY <1>3, <2>2, <2>3, <2>4, PeerSettles
<1>4. CASE (Hang \/ Die) /\ UNCHANGED <<client, peer>>
  <2>1. UNCHANGED <<toHost, worker, shutdownReply, pending, reader, mailbox>>
    BY <1>4 DEF Hang, Die, client, peer, work, calls
  <2> QED
    BY <1>1, <2>1 DEF ShutdownOrder, Active
<1>5. CASE UNCHANGED vars
  <2>1. UNCHANGED <<toHost, worker, shutdownReply, pending, reader, mailbox>>
    BY <1>5 DEF vars, wire, client, peer, work, calls
  <2> QED
    BY <1>1, <2>1 DEF ShutdownOrder, Active
<1> QED
  BY <1>2, <1>3, <1>4, <1>5 DEF Next

-----------------------------------------------------------------------------
(* What Bounded says of the wire.                                          *)
Piped ==
  /\ WireType
  /\ input = "open" => Len(toPlugin) <= Room
  /\ input = "closed" <=> stalled \/ closer # "no"
  /\ Carries(toPlugin, Torn) => input = "closed"

(* The wire, through any step.                                             *)
LEMMA WireNext == IInv /\ [Next]_vars => Piped'
<1> SUFFICES ASSUME IInv, [Next]_vars PROVE Piped'
  OBVIOUS
<1>1. /\ Bounded /\ Piped /\ Room \in Nat /\ stalled \in BOOLEAN
      /\ scene \in Scenes /\ toPlugin \in Seq(ToPlugin) /\ toHost \in Seq(ToHost)
      /\ Len(toPlugin) \in Nat /\ Len(toHost) \in Nat
      /\ Len(toPlugin) <= Room + 1 /\ Len(toHost) <= Room
      /\ input \in {"open", "closed"} /\ proc \in {"running", "hung", "exited"}
      /\ closer \in {"no", "reaping", "signalled", "closed"}
  BY WireAssumption DEF IInv, Bounded, TypeOK, WireType, ClientType, Piped
<1>2. ASSUME UNCHANGED <<scene, toPlugin, toHost, input, stalled, closer>>,
             proc' \in {"running", "hung", "exited"}
      PROVE  Piped'
  BY <1>1, <1>2 DEF Piped, WireType
<1>3. ASSUME NEW g \in ToPlugin, g # Torn, Attempted(g), UNCHANGED closer PROVE Piped'
  <2>1. /\ toPlugin' \in Seq(ToPlugin) /\ Len(toPlugin') <= Room + 1
        /\ input' = "open" => Len(toPlugin') <= Room
        /\ UNCHANGED <<scene, toHost, proc>>
    BY <1>3 DEF Attempted
  <2>2. UNCHANGED <<input, stalled>> \/ (input' = "closed" /\ stalled' = TRUE)
    BY <1>3 DEF Attempted
  <2>3. Carries(toPlugin', Torn) => Carries(toPlugin, Torn) \/ input' = "closed"
    BY <1>3 DEF Attempted, Grown
  <2>4. input' = "closed" <=> stalled' \/ closer' # "no"
    BY <1>1, <1>3, <2>2 DEF Piped
  <2>5. Carries(toPlugin', Torn) => input' = "closed"
    BY <1>1, <2>2, <2>3 DEF Piped
  <2> QED
    BY <1>1, <2>1, <2>2, <2>4, <2>5 DEF Piped, WireType
<1>4. ASSUME NEW g, Shrunk(toHost, toHost', g), toHost' \in Seq(ToHost),
             UNCHANGED <<scene, toPlugin, input, proc, stalled, closer>>
      PROVE  Piped'
  BY <1>1, <1>4 DEF Piped, WireType, Shrunk
<1>5. ASSUME NEW g, Shrunk(toPlugin, toPlugin', g), toPlugin' \in Seq(ToPlugin),
             UNCHANGED <<scene, toHost, input, proc, stalled, closer>>
      PROVE  Piped'
  <2>1. Len(toPlugin') < Len(toPlugin) /\ Len(toPlugin') \in Nat
        /\ (Carries(toPlugin', Torn) => Carries(toPlugin, Torn))
    BY <1>5 DEF Shrunk
  <2> QED
    BY <1>1, <1>5, <2>1 DEF Piped, WireType
<1>6. ASSUME NEW g, Emitted(g), UNCHANGED <<stalled, closer>> PROVE Piped'
  BY <1>1, <1>6 DEF Piped, WireType, Emitted
<1>7. CASE ClientNext /\ UNCHANGED peer
  <2>1. ASSUME NEW i \in Ids, Send(i) \/ SendFails(i) PROVE Piped'
    <3>1. Attempted(Request(i)) \/ UNCHANGED <<wire, stalled>>
      BY <1>1, <2>1, SendEffect, SendFailsEffect
    <3>2. UNCHANGED closer
      BY <2>1 DEF Send, SendFails
    <3>3. CASE UNCHANGED <<wire, stalled>>
      BY <1>1, <1>2, <3>2, <3>3 DEF wire
    <3> QED
      BY <1>3, <3>1, <3>2, <3>3, PluginFrames, FramesDiffer
  <2>2. ASSUME NEW i \in Ids, Notify(i) PROVE Piped'
    <3>1. Attempted(Cancel(i)) /\ UNCHANGED closer
      BY <1>1, <2>2, NotifyEffect DEF Notify
    <3> QED
      BY <1>3, <3>1, PluginFrames, FramesDiffer
  <2>3. ASSUME NEW b \in Callbacks, WriteReply(b) PROVE Piped'
    <3>1. Attempted(Reply(b)) /\ UNCHANGED closer
      BY <1>1, <2>3, WriteReplyEffect DEF WriteReply
    <3> QED
      BY <1>3, <3>1, PluginFrames, FramesDiffer
  <2>4. ASSUME CloseInput PROVE Piped'
    <3>1. /\ toPlugin' \in Seq(ToPlugin) /\ Len(toPlugin') <= Room + 1
          /\ input' = "closed" /\ UNCHANGED <<scene, toHost, proc>>
      BY <1>1, <2>4, CloseInputEffect
    <3>2. closer' = "reaping"
      BY <2>4 DEF CloseInput
    <3> QED
      BY <1>1, <3>1, <3>2 DEF Piped, WireType
  <2>5. ASSUME ReadAsk \/ ReadAnswer \/ ReadEvent PROVE Piped'
    <3>1. UNCHANGED <<stalled, closer>>
      BY <2>5 DEF ReadAsk, ReadAnswer, ReadEvent
    <3> QED
      BY <1>1, <1>4, <2>5, <3>1, ReadAskEffect, ReadAnswerEffect, ReadEventEffect
  <2>6. ASSUME NEW i \in Ids, \/ Call(i) \/ Receive(i) \/ WriterFailed(i) \/ GiveUp(i)
                              \/ DrainEventEnds(i) \/ DrainCancelEnds(i) \/ ContextEnds(i)
        PROVE  Piped'
    BY <1>1, <1>2, <2>6 DEF Call, Receive, WriterFailed, GiveUp, DrainEventEnds, DrainCancelEnds,
                            ContextEnds, wire
  <2>7. ASSUME HandOver \/ Deliver \/ ReadEnds \/ CloseExpires PROVE Piped'
    BY <1>1, <1>2, <2>7 DEF HandOver, Deliver, ReadEnds, CloseExpires, wire
  <2>8. ASSUME NEW b \in Callbacks, LookUp(b) \/ HandlerEnds(b) \/ TakeRefusal(b) PROVE Piped'
    BY <1>1, <1>2, <2>8 DEF LookUp, HandlerEnds, TakeRefusal, wire
  <2>9. ASSUME Signal \/ Reap PROVE Piped'
    <3>1. closer # "no" /\ closer' # "no" /\ proc' \in {"running", "hung", "exited"}
          /\ UNCHANGED <<scene, toPlugin, toHost, input, stalled>>
      BY <1>1, <2>9 DEF Signal, Reap, wire
    <3> QED
      BY <1>1, <3>1 DEF Piped, WireType
  <2> QED
    BY <1>7, <2>1, <2>2, <2>3, <2>4, <2>5, <2>6, <2>7, <2>8, <2>9
       DEF ClientNext, Caller, Reader, Handler, Closing
<1>8. CASE PeerNext /\ UNCHANGED client
  <2>1. UNCHANGED <<stalled, closer>>
    BY <1>8 DEF client
  <2>2. ASSUME ServeRequest \/ ServeCancel \/ ServeShutdown \/ ServeReply \/ ServeTorn
        PROVE Piped'
    BY <1>1, <1>5, <2>1, <2>2, ServeRequestEffect, ServeCancelEffect, ServeShutdownEffect,
       ServeReplyEffect, ServeTornEffect
  <2>3. ASSUME InputEnds \/ Exit PROVE Piped'
    BY <1>1, <1>2, <2>1, <2>3 DEF InputEnds, Exit, wire
  <2>4. ASSUME RefuseWritten PROVE Piped'
    <3>1. proc = "running" /\ \E c \in Calls : c \in Ids /\ Emits("answer", c)
      BY <2>4 DEF RefuseWritten, Ids
    <3> QED
      BY <1>1, <1>6, <2>1, <3>1, AnswerEffect
  <2>5. ASSUME AnswerShutdown PROVE Piped'
    <3>1. proc = "running" /\ Shutdown \in Ids /\ Emits("answer", Shutdown)
      BY <2>5 DEF AnswerShutdown, Ids
    <3> QED
      BY <1>1, <1>6, <2>1, <3>1, AnswerEffect
  <2>6. ASSUME NEW c \in Calls, Answer(c) PROVE Piped'
    <3>1. proc = "running" /\ c \in Ids /\ Emits("answer", c)
      BY <2>6 DEF Answer, Ids
    <3> QED
      BY <1>1, <1>6, <2>1, <3>1, AnswerEffect
  <2>7. ASSUME NEW c \in Calls, Event(c) PROVE Piped'
    <3>1. proc = "running" /\ Emits("event", c)
      BY <2>7 DEF Event
    <3> QED
      BY <1>1, <1>6, <2>1, <3>1, EventEffect
  <2>8. ASSUME NEW c \in Calls, AskWritten(c) PROVE Piped'
    BY <1>1, <1>6, <2>1, <2>8, AskEffect
  <2>9. ASSUME NEW c \in Calls, \/ Ask(c) \/ AskUnframed(c) \/ TakeReply(c) \/ Abandon(c)
                                \/ Finish(c) \/ AnswerUnframed(c)
        PROVE  Piped'
    BY <1>1, <1>2, <2>1, <2>9
       DEF Ask, AskUnframed, TakeReply, Abandon, Finish, AnswerUnframed, wire
  <2> QED
    BY <1>8, <2>2, <2>3, <2>4, <2>5, <2>6, <2>7, <2>8, <2>9 DEF PeerNext, Loop, Worker
<1>9. CASE (Hang \/ Die) /\ UNCHANGED <<client, peer>>
  BY <1>1, <1>2, <1>9 DEF Hang, Die, client
<1>10. CASE UNCHANGED vars
  BY <1>1, <1>2, <1>10 DEF vars, wire, client
<1> QED
  BY <1>7, <1>8, <1>9, <1>10 DEF Next

(* What a connection is used for does not change.                          *)
LEMMA SceneStays == [Next]_vars => scene' = scene
<1>1. ASSUME ClientNext PROVE scene' = scene
  BY <1>1 DEF ClientNext, Caller, Reader, Handler, Closing, Call, ContextEnds, Send, SendFails,
              Receive,
      WriterFailed, GiveUp, Notify, DrainEventEnds, DrainCancelEnds, ReadAsk, ReadAnswer,
      HandOver,
      ReadEvent, Deliver, ReadEnds, LookUp, HandlerEnds, TakeRefusal, WriteReply, CloseInput,
      Signal,
      Reap, CloseExpires, Written, Unwritable, Interrupted, WriteTimesOut, Taken, wire
<1>2. ASSUME PeerNext PROVE scene' = scene
  BY <1>2 DEF PeerNext, Loop, Worker, ServeRequest, ServeCancel, ServeShutdown, ServeReply,
              ServeTorn,
      InputEnds, RefuseWritten, AnswerShutdown, Exit, Event, Ask, AskWritten, AskUnframed, TakeReply,
      Abandon, Finish, Answer, AnswerUnframed, Emits, Consumed, wire
<1> QED
  BY <1>1, <1>2 DEF Next, Hang, Die, vars, wire

(* A failure of the connection keeps the types.                            *)
LEMMA FailTyped ==
  ASSUME ClientType, NEW err \in {"unknown", "backpressure", "eof", "drain"}, Fail(err)
  PROVE  /\ readErr' \in {"none", "unknown", "backpressure", "eof", "drain"}
              /\ pending' \subseteq Ids
         /\ mailbox' \in [Ids -> {"empty", "answer", "failure"}]
         /\ sink' \in [Ids -> {"attached", "failed", "detached"}]
<1>1. CASE readErr # "none"
  BY <1>1 DEF Fail, ClientType, calls
<1>2. CASE readErr = "none"
  <2>1. \A i \in Ids : Detached(sink[i]) \in {"attached", "failed", "detached"}
    BY DEF Detached, ClientType
  <2> QED
    BY <1>2, <2>1 DEF Fail, ClientType
<1> QED
  BY <1>1, <1>2

(* The types of the host's variables, through any step.                    *)
LEMMA ClientTyped == IInv /\ [Next]_vars => ClientType'
<1> SUFFICES ASSUME IInv, [Next]_vars PROVE ClientType'
  OBVIOUS
<1>1. Bounded /\ ClientType /\ Shutdown \in Ids /\ Calls \subseteq Ids
  BY DEF IInv, Bounded, TypeOK, Ids
<1>2. CASE ClientNext /\ UNCHANGED peer
  <2>1. ASSUME NEW i \in Ids, Call(i) \/ WriterFailed(i) PROVE ClientType'
    BY <1>1, <2>1 DEF Call, WriterFailed, Advance, Return, calls, ClientType, Telling
  <2>2. ASSUME NEW i \in Ids, Receive(i) \/ GiveUp(i) \/ DrainCancelEnds(i) PROVE ClientType'
    <3>1. \A j \in Ids : Detached(sink[j]) \in {"attached", "failed", "detached"}
      BY <1>1 DEF Detached, ClientType
    <3> QED
      BY <1>1, <2>2, <3>1
         DEF Receive, GiveUp, DrainCancelEnds, Advance, Return, Detach, calls, ClientType, Telling
  <2>3. ASSUME NEW i \in Ids, Send(i) \/ SendFails(i) \/ Notify(i) PROVE ClientType'
    <3>1. stalled' \in BOOLEAN
      <4>1. stalled' = stalled \/ stalled' = TRUE
        BY <1>1, <2>3, SendEffect, SendFailsEffect, NotifyEffect DEF Attempted
      <4> QED
        BY <1>1, <4>1, Zenon DEF ClientType
    <3>2. \A j \in Ids : Detached(sink[j]) \in {"attached", "failed", "detached"}
      BY <1>1 DEF Detached, ClientType
    <3>3. CASE Send(i) \/ SendFails(i)
      BY <1>1, <3>1, <3>2, <3>3 DEF Send, SendFails, Advance, Return, Detach, calls, ClientType
    <3>4. CASE Notify(i)
      <4>1. /\ \E to \in {"drainEvent", "drainCancel",
                 "returned"} : stage' = [stage EXCEPT ![i] = to]
            /\ outcome' = outcome \/ outcome' = [outcome EXCEPT ![i] = "canceled"]
            /\ UNCHANGED <<ended, calls, reader, readErr, handler, closer>>
        BY <3>4 DEF Notify, Advance, Return, Telling
      <4> QED
        BY <1>1, <3>1, <4>1 DEF calls, ClientType, Draining
    <3> QED
      BY <2>3, <3>3, <3>4
  <2>4. ASSUME NEW i \in Ids, DrainEventEnds(i) PROVE ClientType'
    BY <1>1, <2>4, FailTyped DEF DrainEventEnds, Return, calls, ClientType
  <2>5. ASSUME NEW i \in Ids, ContextEnds(i) PROVE ClientType'
    BY <1>1, <2>5 DEF ContextEnds, calls, ClientType
  <2>6. ASSUME ReadAsk PROVE ClientType'
    <3>1. Head(toHost).id \in Callbacks
      BY <1>1, <2>6, ReadAskEffect
    <3> QED
      BY <1>1, <2>6, <3>1, FailTyped
         DEF ReadAsk, Condemn, Reading, callers, calls, ClientType, Holding
  <2>7. ASSUME ReadAnswer \/ ReadEvent PROVE ClientType'
    <3>1. Head(toHost).id \in Ids
      BY <1>1, <2>7, ReadAnswerEffect, ReadEventEffect
    <3> QED
      BY <1>1, <2>7, <3>1, FailTyped
         DEF ReadAnswer, ReadEvent, Condemn, Reading, callers, calls, ClientType
  <2>8. ASSUME HandOver \/ Deliver PROVE ClientType'
    BY <1>1, <2>8 DEF HandOver, Deliver, Reading, callers, calls, ClientType
  <2>9. ASSUME ReadEnds PROVE ClientType'
    BY <1>1, <2>9, FailTyped DEF ReadEnds, Condemn, Reading, callers, ClientType
  <2>10. ASSUME NEW b \in Callbacks, LookUp(b) \/ HandlerEnds(b) \/ TakeRefusal(b)
         PROVE ClientType'
    BY <1>1, <2>10 DEF LookUp, HandlerEnds, TakeRefusal, callers, calls, ClientType, Holding
  <2>11. ASSUME NEW b \in Callbacks, WriteReply(b) PROVE ClientType'
    <3>1. stalled' \in BOOLEAN
      <4>1. stalled' = stalled \/ stalled' = TRUE
        BY <1>1, <2>11, WriteReplyEffect DEF Attempted
      <4> QED
        BY <1>1, <4>1, Zenon DEF ClientType
    <3> QED
      BY <1>1, <2>11, <3>1 DEF WriteReply, callers, calls, ClientType
  <2>12. ASSUME Closing PROVE ClientType'
    BY <1>1, <2>12 DEF Closing, CloseInput, Signal, Reap, CloseExpires, callers, calls, ClientType
  <2> QED
    BY <1>2, <2>1, <2>2, <2>3, <2>4, <2>5, <2>6, <2>7, <2>8, <2>9, <2>10, <2>11, <2>12
       DEF ClientNext, Caller, Reader, Handler
<1>3. CASE UNCHANGED client
  BY <1>1, <1>3 DEF client, callers, calls, ClientType
<1> QED
  BY <1>2, <1>3 DEF Next, vars

(* The types of the plugin's variables, and a handler that waits for a     *)
(* callback has asked for one.                                             *)
PeerTyping ==
  /\ PeerType
  /\ \A c \in Calls : worker[c] \in {"ask", "await"} => asked[c] # 0

(* Both, through any step.                                                 *)
LEMMA PeerTyped == IInv /\ [Next]_vars => PeerTyping'
<1> SUFFICES ASSUME IInv, [Next]_vars PROVE PeerTyping'
  OBVIOUS
<1>1. /\ Bounded /\ PeerTyping /\ Shutdown \notin Calls /\ scene' = scene
      /\ \A c \in Calls : scene.asks[c] \in 0..MaxAsks /\ MaxAsks \in Nat
  BY WireAssumption, SceneStays DEF IInv, Bounded, TypeOK, WireType, SceneType, PeerTyping
<1>2. CASE PeerNext /\ UNCHANGED client
  <2>1. ASSUME ServeRequest PROVE PeerTyping'
    <3>1. Head(toPlugin).id \in Calls
      BY <1>1, <2>1, ServeRequestEffect
    <3> QED
      BY <1>1, <2>1, <3>1 DEF ServeRequest, Becomes, asking, PeerTyping, PeerType
  <2>2. ASSUME ServeCancel \/ RefuseWritten \/ AnswerShutdown \/ Exit PROVE PeerTyping'
    BY <1>1, <2>2
       DEF ServeCancel, RefuseWritten, AnswerShutdown, Exit, Becomes, Active, peer, work,
                      asking, PeerTyping, PeerType
  <2>3. ASSUME ServeShutdown PROVE PeerTyping'
    <3>1. shuttingDown' \in BOOLEAN
      BY <2>3, Zenon DEF ServeShutdown
    <3> QED
      BY <1>1, <2>3, <3>1 DEF ServeShutdown, Active, asking, PeerTyping, PeerType
  <2>4. ASSUME ServeReply PROVE PeerTyping'
    <3>1. Head(toPlugin).id \in Callbacks
      BY <1>1, <2>4, ServeReplyEffect
    <3>2. misread' = misread \/ misread' = TRUE
      BY <2>4 DEF ServeReply, Leave
    <3>3. misread' \in BOOLEAN
      BY <1>1, <3>2, Zenon DEF PeerTyping, PeerType
    <3> QED
      BY <1>1, <2>4, <3>1, <3>3 DEF ServeReply, Leave, Active, PeerTyping, PeerType
  <2>5. ASSUME ServeTorn \/ InputEnds PROVE PeerTyping'
    <3>1. misread' = FALSE \/ misread' = TRUE
      BY <2>5 DEF ServeTorn, InputEnds, Leave
    <3>2. misread' \in BOOLEAN
      BY <3>1, Zenon
    <3> QED
      BY <1>1, <2>5, <3>2 DEF ServeTorn, InputEnds, Leave, Active, asking, PeerTyping, PeerType
  <2>6. ASSUME NEW c \in Calls, \/ Event(c) \/ AskWritten(c) \/ AskUnframed(c) \/ TakeReply(c)
                                \/ Abandon(c) \/ Finish(c) \/ Answer(c) \/ AnswerUnframed(c)
        PROVE  PeerTyping'
    BY <1>1, <2>6 DEF Event, AskWritten, AskUnframed, TakeReply, Abandon, Finish, Answer,
                      AnswerUnframed, Becomes, asking, PeerTyping, PeerType
  <2>7. ASSUME NEW c \in Calls, Ask(c) PROVE PeerTyping'
    <3>1. /\ worker[c] = "work" /\ worker' = [worker EXCEPT ![c] = "ask"]
          /\ asked[c] < scene.asks[c] /\ asked' = [asked EXCEPT ![c] = asked[c] + 1]
          /\ callbacks' = callbacks \union {<<c, asked[c] + 1>>}
          /\ UNCHANGED <<serve, misread, emitted, gone, routed, abandoned, shuttingDown,
               shutdownReply>>
      BY <2>7 DEF Ask, Becomes
    <3>2. asked[c] \in Nat /\ scene.asks[c] \in 0..MaxAsks
      BY <1>1 DEF PeerTyping, PeerType
    <3>3. asked[c] + 1 \in 1..MaxAsks /\ asked[c] + 1 <= scene.asks[c] /\ asked[c] + 1 \in Nat
      BY <1>1, <3>1, <3>2
    <3>4. <<c, asked[c] + 1>> \in Callbacks
      BY <3>3 DEF Callbacks
    <3>5. asked' \in [Calls -> Nat] /\ \A d \in Calls : asked'[d] <= scene'.asks[d]
      BY <1>1, <3>1, <3>3 DEF PeerTyping, PeerType
    <3>6. \A d \in Calls : worker'[d] \in {"ask", "await"} => asked'[d] # 0
      BY <1>1, <3>1, <3>2 DEF PeerTyping, PeerType
    <3> QED
      BY <1>1, <3>1, <3>4, <3>5, <3>6 DEF PeerTyping, PeerType
  <2> QED
    BY <1>2, <2>1, <2>2, <2>3, <2>4, <2>5, <2>6, <2>7 DEF PeerNext, Loop, Worker
<1>3. CASE UNCHANGED peer
  BY <1>1, <1>3 DEF peer, work, asking, PeerTyping, PeerType
<1> QED
  BY <1>2, <1>3 DEF Next, vars

(* What Bounded says of the budget of callbacks.                           *)
Budgeted ==
  /\ IsFiniteSet(At(Holding)) /\ Cardinality(At(Holding)) <= MaxHostCalls
  /\ IsFiniteSet(At({"refused"})) /\ Cardinality(At({"refused"})) <= MaxRefused

(* It is kept through any step.                                            *)
LEMMA BudgetNext == IInv /\ [Next]_vars => Budgeted'
<1> SUFFICES ASSUME IInv, [Next]_vars PROVE Budgeted'
  OBVIOUS
<1>1. /\ Bounded /\ Budgeted /\ CallbackOrder
      /\ handler \in [Callbacks -> {"none", "refused", "refusing", "done"} \union Holding]
      /\ MaxHostCalls \in Nat /\ MaxRefused \in Nat
      /\ Cardinality(At(Holding)) \in Nat /\ Cardinality(At({"refused"})) \in Nat
  <2>1. Budgeted
    BY DEF IInv, Bounded, TypeOK, Budgeted
  <2> QED
    BY <2>1, FS_CardinalityType, ClientAssumption DEF IInv, Bounded, TypeOK, ClientType, Budgeted
<1> DEFINE Fewer == At(Holding)' \subseteq At(Holding)
      /\ At({"refused"})' \subseteq At({"refused"})
<1>2. ASSUME Fewer PROVE Budgeted'
  <2>1. IsFiniteSet(At(Holding)') /\ Cardinality(At(Holding)') <= Cardinality(At(Holding))
        /\ Cardinality(At(Holding)') \in Nat
    BY <1>1, <1>2, FS_Subset, FS_CardinalityType DEF Budgeted
  <2>2. IsFiniteSet(At({"refused"})')
          /\ Cardinality(At({"refused"})') <= Cardinality(At({"refused"}))
        /\ Cardinality(At({"refused"})') \in Nat
    BY <1>1, <1>2, FS_Subset, FS_CardinalityType DEF Budgeted
  <2> QED
    BY <1>1, <2>1, <2>2 DEF Budgeted
<1>3. ASSUME NEW b \in Callbacks, LookUp(b) \/ HandlerEnds(b) \/ TakeRefusal(b) \/ WriteReply(b)
      PROVE  Budgeted'
  <2>1. \/ handler[b] \in Holding
             /\ \E to \in {"run", "reply", "done"} : handler' = [handler EXCEPT ![b] = to]
        \/ \E to \in {"refusing", "done"} : handler' = [handler EXCEPT ![b] = to]
    BY <1>3 DEF LookUp, HandlerEnds, TakeRefusal, WriteReply, Holding
  <2>2. Fewer
    BY <1>1, <2>1 DEF At, Holding
  <2> QED
    BY <1>2, <2>2
<1>4. ASSUME ReadAsk PROVE Budgeted'
  <2>0. PICK b \in Callbacks : b = Head(toHost).id
    BY <1>1, <1>4, ReadAskEffect
  <2>1. handler[b] = "none"
    BY <1>1, <1>4, <2>0, ReadAskEffect DEF Shrunk, CallbackOrder
  <2>2. CASE WithinBudget /\ handler' = [handler EXCEPT ![b] = "lookup"]
    <3>1. At(Holding)' = At(Holding) \union {b} /\ b \notin At(Holding)
          /\ At({"refused"})' = At({"refused"})
      BY <1>1, <2>1, <2>2 DEF At, Holding
    <3>2. IsFiniteSet(At(Holding)') /\ Cardinality(At(Holding)') = Cardinality(At(Holding)) + 1
      BY <1>1, <3>1, FS_AddElement DEF Budgeted
    <3>3. Cardinality(At(Holding)) < MaxHostCalls
      BY <2>2 DEF WithinBudget
    <3> QED
      BY <1>1, <3>1, <3>2, <3>3 DEF Budgeted
  <2>3. CASE Cardinality(At({"refused"})) < MaxRefused
               /\ handler' = [handler EXCEPT ![b] = "refused"]
    <3>1. At({"refused"})' = At({"refused"}) \union {b} /\ b \notin At({"refused"})
          /\ At(Holding)' = At(Holding)
      BY <1>1, <2>1, <2>3 DEF At, Holding
    <3>2. IsFiniteSet(At({"refused"})')
            /\ Cardinality(At({"refused"})') = Cardinality(At({"refused"})) + 1
      BY <1>1, <3>1, FS_AddElement DEF Budgeted
    <3> QED
      BY <1>1, <2>3, <3>1, <3>2 DEF Budgeted
  <2>4. CASE UNCHANGED handler
    BY <1>2, <2>4 DEF At
  <2> QED
    BY <1>4, <2>0, <2>2, <2>3, <2>4 DEF ReadAsk
<1>5. CASE UNCHANGED handler
  BY <1>2, <1>5 DEF At
<1>6. \/ ReadAsk \/ UNCHANGED handler
      \/ \E b \in Callbacks : LookUp(b) \/ HandlerEnds(b) \/ TakeRefusal(b) \/ WriteReply(b)
  BY DEF Next, vars, client, ClientNext, Caller, Reader, Handler, Closing, Call, ContextEnds,
         Send,
         SendFails, Receive, WriterFailed, GiveUp, Notify, DrainEventEnds, DrainCancelEnds,
         ReadAnswer, HandOver, ReadEvent, Deliver, ReadEnds, CloseInput, Signal, Reap,
         CloseExpires
<1> QED
  BY <1>3, <1>4, <1>5, <1>6

-----------------------------------------------------------------------------
(* Neither end misreads the other, through any step.                       *)
LEMMA MisreadNext == IInv /\ [Next]_vars => NeverMisread'
<1> SUFFICES ASSUME IInv, [Next]_vars PROVE NeverMisread'
  OBVIOUS
<1>1. Bounded /\ Piped /\ Piped' /\ NeverMisread /\ RequestsKept /\ CallbacksKept
  BY WireNext DEF IInv, Bounded, TypeOK, Piped
<1>2. stalled => stalled'
  <2>1. ASSUME NEW i \in Ids, Send(i) \/ SendFails(i) \/ Notify(i), stalled PROVE stalled'
    BY <1>1, <2>1, SendEffect, SendFailsEffect, NotifyEffect DEF Attempted
  <2>2. ASSUME NEW b \in Callbacks, WriteReply(b), stalled PROVE stalled'
    BY <1>1, <2>2, WriteReplyEffect DEF Attempted
  <2>3. ASSUME NEW i \in Ids, \/ Call(i) \/ Receive(i) \/ WriterFailed(i) \/ GiveUp(i)
                              \/ DrainEventEnds(i) \/ DrainCancelEnds(i) \/ ContextEnds(i)
        PROVE  stalled' = stalled
    BY <2>3 DEF Call, Receive, WriterFailed, GiveUp, DrainEventEnds, DrainCancelEnds, ContextEnds
  <2>4. ASSUME Reader \/ Closing PROVE stalled' = stalled
    BY <2>4 DEF Reader, ReadAsk, ReadAnswer, HandOver, ReadEvent, Deliver, ReadEnds, Closing,
                CloseInput, Signal, Reap, CloseExpires
  <2>5. ASSUME NEW b \in Callbacks, LookUp(b) \/ HandlerEnds(b) \/ TakeRefusal(b)
        PROVE stalled' = stalled
    BY <2>5 DEF LookUp, HandlerEnds, TakeRefusal
  <2> QED
    BY <2>1, <2>2, <2>3, <2>4, <2>5 DEF Next, ClientNext, Caller, Handler, client, vars
<1>3. closer # "no" => closer' # "no"
  BY DEF Next, ClientNext, Caller, Reader, Handler, Closing, client, vars, Call, ContextEnds,
         Send,
         SendFails, Receive, WriterFailed, GiveUp, Notify, DrainEventEnds, DrainCancelEnds,
         ReadAsk,
         ReadAnswer, HandOver, ReadEvent, Deliver, ReadEnds, LookUp, HandlerEnds, TakeRefusal,
         WriteReply, CloseInput, Signal, Reap, CloseExpires
<1>4. ASSUME readErr' = "unknown" PROVE stalled'
  <2>1. CASE readErr = "unknown"
    BY <1>1, <1>2, <2>1 DEF NeverMisread
  <2>2. CASE ReadAnswer /\ readErr # "unknown"
    <3>1. Head(toHost).id \in Ids /\ Carries(toHost, AnswerOf(Head(toHost).id))
      BY <1>1, <2>2, ReadAnswerEffect DEF Shrunk
    <3>2. Head(toHost).id \notin pending /\ readErr = "none"
      BY <1>4, <2>2 DEF ReadAnswer, Condemn, Fail
    <3> QED
      BY <1>1, <1>2, <3>1, <3>2 DEF RequestsKept
  <2>3. CASE ReadEvent /\ readErr # "unknown"
    <3>1. Head(toHost).id \in Ids /\ Carries(toHost, EventOf(Head(toHost).id))
      BY <1>1, <2>3, ReadEventEffect DEF Shrunk, Ids
    <3>2. Head(toHost).id \notin pending /\ readErr = "none"
      BY <1>4, <2>3 DEF ReadEvent, Condemn, Fail
    <3> QED
      BY <1>1, <1>2, <3>1, <3>2 DEF RequestsKept
  <2>4. CASE ~ReadAnswer /\ ~ReadEvent
    <3>1. readErr' = readErr \/ readErr' \in {"backpressure", "eof", "drain"}
      BY <2>4 DEF Next, ClientNext, Caller, Reader, Handler, Closing, client, vars, Call,
                  ContextEnds,
         Send, SendFails, Receive, WriterFailed, GiveUp, Notify, DrainEventEnds, DrainCancelEnds,
         ReadAsk, HandOver, Deliver, ReadEnds, LookUp, HandlerEnds, TakeRefusal, WriteReply,
         CloseInput, Signal, Reap, CloseExpires, Condemn, Fail
    <3> QED
      BY <1>1, <1>2, <1>4, <3>1 DEF NeverMisread
  <2> QED
    BY <2>1, <2>2, <2>3, <2>4
<1>5. ASSUME misread' PROVE stalled' \/ closer' # "no"
  <2>1. CASE ServeReply
    <3>1. Head(toPlugin).id \in Callbacks /\ Carries(toPlugin, Reply(Head(toPlugin).id))
      BY <1>1, <2>1, ServeReplyEffect DEF Shrunk
    <3>2. misread' = misread
      BY <1>1, <2>1, <3>1 DEF ServeReply, CallbacksKept
    <3> QED
      BY <1>1, <1>2, <1>3, <1>5, <3>2 DEF NeverMisread
  <2>2. CASE ServeTorn
    <3>1. Carries(toPlugin, Torn)
      BY <1>1, <2>2, ServeTornEffect DEF Shrunk
    <3> QED
      BY <1>1, <1>2, <1>3, <3>1 DEF Piped
  <2>3. CASE ~ServeReply /\ ~ServeTorn
    <3>1. misread' = misread \/ misread' = FALSE
      BY <2>3 DEF Next, PeerNext, Loop, Worker, peer, vars, ServeRequest, ServeCancel,
                  ServeShutdown,
         InputEnds, RefuseWritten, AnswerShutdown, Exit, Event, Ask, AskWritten, AskUnframed,
         TakeReply, Abandon, Finish, Answer, AnswerUnframed, Leave
    <3> QED
      BY <1>1, <1>2, <1>3, <1>5, <3>1 DEF NeverMisread
  <2> QED
    BY <2>1, <2>2, <2>3
<1> QED
  BY <1>4, <1>5 DEF NeverMisread

-----------------------------------------------------------------------------
(* The sinks of the calls, through any step.                               *)
LEMMA SinkNext == IInv /\ [Next]_vars => SinkOrder'
<1> SUFFICES ASSUME IInv, [Next]_vars PROVE SinkOrder'
  OBVIOUS
<1>1. /\ SinkOrder /\ stage \in [Ids -> Stages]
           /\ sink \in [Ids -> {"attached", "failed", "detached"}]
      /\ reader \in [at : {"reading", "looked", "inSink", "handing", "ended"}, on : Ids]
      /\ Shutdown \in Ids
  BY DEF IInv, Bounded, TypeOK, ClientType, Stages, Ids
<1>2. ASSUME NEW err, Fail(err)
      PROVE  /\ sink' \in [Ids -> {"attached", "failed", "detached"}]
             /\ \A i \in Ids : sink'[i] = sink[i]
                  \/ (sink[i] = "attached" /\ sink'[i] = "detached")
             /\ reader.at = "inSink" => sink'[reader.on] = sink[reader.on]
  BY <1>1, <1>2 DEF Fail, calls, FreeToDetach, Detached
<1>3. ASSUME NEW i \in Ids, Caller(i) PROVE SinkOrder'
  <2>1. CASE Call(i) \/ Send(i) \/ WriterFailed(i)
    BY <1>1, <2>1 DEF Call, Send, WriterFailed, Advance, Return, calls, SinkOrder
  <2>2. CASE SendFails(i) \/ Receive(i) \/ GiveUp(i) \/ DrainCancelEnds(i)
    BY <1>1, <2>2
       DEF SendFails, Receive, GiveUp, DrainCancelEnds, Advance, Return, Detach, Detached,
                      FreeToDetach, Draining, SinkOrder
  <2>3. CASE Notify(i)
    BY <1>1, <2>3, ZenonT(60) DEF Notify, Advance, Return, Telling, calls, SinkOrder
  <2>4. CASE DrainEventEnds(i)
    <3>1. stage[i] = "drainEvent" /\ stage' = [stage EXCEPT ![i] = "returned"] /\ UNCHANGED reader
      BY <2>4 DEF DrainEventEnds, Return
    <3>2. UNCHANGED sink \/ Fail("drain")
      BY <2>4 DEF DrainEventEnds, calls
    <3> QED
      BY <1>1, <1>2, <3>1, <3>2 DEF SinkOrder
  <2> QED
    BY <1>3, <2>1, <2>2, <2>3, <2>4 DEF Caller
<1>4. CASE ReadAsk \/ ReadAnswer \/ ReadEvent \/ ReadEnds
  <2>1. /\ UNCHANGED stage /\ reader.at = "reading"
        /\ reader' = reader \/ reader'.at \in {"ended", "handing", "looked"}
        /\ UNCHANGED sink \/ \E err : Fail(err)
    BY <1>4 DEF ReadAsk, ReadAnswer, ReadEvent, ReadEnds, Condemn, Reading, callers, calls
  <2> QED
    BY <1>1, <1>2, <2>1 DEF SinkOrder
<1>5. CASE HandOver \/ Deliver
  BY <1>1, <1>5 DEF HandOver, Deliver, Reading, callers, SinkOrder
<1>6. CASE UNCHANGED <<stage, sink, reader>>
  BY <1>1, <1>6 DEF SinkOrder
<1>7. \/ \E i \in Ids : Caller(i)
      \/ ReadAsk \/ ReadAnswer \/ ReadEvent \/ ReadEnds \/ HandOver \/ Deliver
      \/ UNCHANGED <<stage, sink, reader>>
  BY DEF Next, ClientNext, Reader, ContextEnds, Handler, LookUp, HandlerEnds, TakeRefusal,
         WriteReply,
         Closing, CloseInput, Signal, Reap, CloseExpires, vars, client, callers, calls
<1> QED
  BY <1>3, <1>4, <1>5, <1>6, <1>7

-----------------------------------------------------------------------------
(* IInv is inductive.                                                      *)
LEMMA InitInv == Init => IInv
<1> SUFFICES ASSUME Init PROVE IInv
  OBVIOUS
<1>1. /\ WireType /\ ClientType /\ PeerType
      /\ toPlugin = << >> /\ toHost = << >> /\ pending = {} /\ callbacks = {} /\ routed = {}
      /\ abandoned = {} /\ shutdownReply = "none" /\ ~shuttingDown /\ ~misread /\ ~stalled
      /\ readErr = "none" /\ input = "open" /\ closer = "no" /\ reader.at = "reading"
      /\ Len(<< >>) = 0 /\ Room \in Nat
      /\ \A i \in Ids : stage[i] = "idle" /\ sink[i] = "detached" /\ mailbox[i] = "empty"
      /\ \A c \in Calls : worker[c] = "none" /\ asked[c] = 0
      /\ \A b \in Callbacks : handler[b] = "none"
      /\ Shutdown \in Ids /\ Shutdown \notin Calls
  <2>1. /\ Shutdown \in Ids /\ Shutdown \notin Calls /\ Room \in Nat /\ Scenes \subseteq SceneType
    BY WireAssumption DEF Ids
  <2>2. WireType /\ toPlugin = << >> /\ toHost = << >> /\ input = "open" /\ Len(<< >>) = 0
    BY <2>1 DEF Init, WireInit, WireType
  <2>3. ClientType
    BY <2>1, Zenon DEF Init, ClientInit, ClientType
  <2>4. shuttingDown \in BOOLEAN /\ misread \in BOOLEAN
    BY Zenon DEF Init, PeerInit
  <2>5. PeerType
    BY <2>1, <2>2, <2>4 DEF Init, PeerInit, PeerType, WireType, SceneType
  <2> QED
    BY <2>1, <2>2, <2>3, <2>5 DEF Init, ClientInit, PeerInit
<1>2. /\ \A f : ~Carries(toPlugin, f) /\ Single(toPlugin, f)
      /\ \A f : ~Carries(toHost, f) /\ Single(toHost, f)
      /\ \A e, f : Ordered(toHost, e, f)
  BY <1>1, EmptyPipe
<1>3. Bounded
  <2>1. At(Holding) = {} /\ At({"refused"}) = {}
    BY <1>1 DEF At, Holding
  <2> QED
    <3>1. /\ IsFiniteSet(At(Holding)) /\ Cardinality(At(Holding)) <= MaxHostCalls
          /\ IsFiniteSet(At({"refused"})) /\ Cardinality(At({"refused"})) <= MaxRefused
      BY <2>1, FS_EmptySet, ClientAssumption
    <3>2. input = "closed" <=> stalled \/ closer # "no"
      BY <1>1
    <3>3. input = "open" => Len(toPlugin) <= Room
      BY <1>1
    <3> QED
      BY <1>1, <1>2, <3>1, <3>2, <3>3 DEF Bounded, TypeOK
<1>4. SinkOrder
  BY <1>1 DEF SinkOrder
<1>5. RequestOrder /\ RequestsKept /\ RequestsLive
  <2>1. \A i \in Ids : Unread(i) /\ ~Owed(i)
    BY <1>1 DEF Unread, Owed, Ids
  <2> QED
    BY <1>1, <1>2, <2>1 DEF RequestOrder, RequestsKept, RequestsLive
<1>6. CallbackOrder /\ CallbacksKept /\ CallbacksLive
  <2>1. \A b \in Callbacks : b[1] \in Calls /\ ~Unwritten(b) /\ ~Handled(b)
    BY <1>1, CallbackShape DEF Unwritten, Handled
  <2> QED
    BY <1>1, <1>2, <2>1 DEF CallbackOrder, CallbacksKept, CallbacksLive
<1>7. ShutdownOrder /\ NeverMisread
  BY <1>1, <1>2 DEF ShutdownOrder, NeverMisread
<1> QED
  BY <1>3, <1>4, <1>5, <1>6, <1>7 DEF IInv

(* Every step preserves it.                                                *)
LEMMA NextInv == IInv /\ [Next]_vars => IInv'
<1> SUFFICES ASSUME IInv, [Next]_vars PROVE IInv'
  OBVIOUS
<1>1. Bounded'
  BY WireNext, ClientTyped, PeerTyped, BudgetNext DEF Bounded, TypeOK, Piped, PeerTyping, Budgeted
<1> QED
  BY <1>1, SinkNext, RequestsNext, CallbacksNext, ShutdownNext, MisreadNext
     DEF IInv, RequestParts, CallbackParts

(* IInv holds in every reachable state.                                    *)
THEOREM Invariance == Spec => []IInv
  BY InitInv, NextInv, PTL DEF Spec

-----------------------------------------------------------------------------
(* Every variable keeps its type, the pipes their capacity, and a plugin   *)
(* never makes the host hold more than maxConcurrentHostCalls callbacks    *)
(* and maxRefusedHostCalls refusals.                                       *)
THEOREM TypeCorrect == Spec => []TypeOK
<1>1. IInv => TypeOK
  BY DEF IInv, Bounded
<1> QED
  BY <1>1, Invariance, PTL

(* The writers of a call belong to its caller again once it has returned,  *)
(* however it returned and whatever the plugin still sends.                *)
THEOREM SinksGivenBack == Spec => []SinksReleased
<1>1. IInv => SinksReleased
  BY DEF IInv, SinkOrder, SinksReleased
<1> QED
  BY <1>1, Invariance, PTL

(* What the runs check of every state.                                     *)
THEOREM SafeAlways == Spec => []Safety
  BY TypeCorrect, SinksGivenBack, PTL DEF Safety

(* Two honest ends never condemn each other, whoever gives up and whenever.*)
THEOREM HonestEnds == Spec => []NeverMisread
<1>1. IInv => NeverMisread
  BY DEF IInv
<1> QED
  BY <1>1, Invariance, PTL

(* No result that was sent is lost to the end of a session: the shutdown   *)
(* reply reaches close behind the answers of all accepted calls, those     *)
(* excepted whose reply made no frame (peer.go:190).                       *)
THEOREM ShutdownLast == Spec => []ShutdownIsLast
<1>1. IInv => ShutdownIsLast
  <2> SUFFICES ASSUME IInv, mailbox[Shutdown] = "answer"
               PROVE  Active = {} /\ Accepted \intersect pending \subseteq Dropped
    BY DEF ShutdownIsLast
  <2>1. Active = {} /\ \A c \in Calls : worker[c] = "gone" => c \notin pending
    BY DEF IInv, ShutdownOrder
  <2>2. \A c \in Accepted : c \in Calls /\ (c \in Active \/ worker[c] = "gone" \/ c \in Dropped)
    BY DEF IInv, Bounded, TypeOK, PeerType, Accepted, Active, Dropped
  <2> QED
    BY <2>1, <2>2
<1> QED
  BY <1>1, Invariance, PTL

(* Neither end leaks an entry of its tables: once everything has settled   *)
(* no call is pending, but for those whose reply made no frame, and no     *)
(* callback registered, routed or abandoned.                               *)
THEOREM SettledForgets == Spec => []NothingRemembered
<1>1. IInv => NothingRemembered
  <2> SUFFICES ASSUME IInv, Quiet
               PROVE  pending \subseteq Dropped /\ callbacks = {} /\ routed = {} /\ abandoned = {}
    BY DEF NothingRemembered
  <2>1. /\ RequestsLive /\ CallbacksKept /\ CallbacksLive /\ Healthy
        /\ pending \subseteq Ids /\ callbacks \subseteq Callbacks /\ routed \subseteq Callbacks
        /\ abandoned \subseteq Callbacks /\ Shutdown \notin Calls /\ Ids = Calls \union {Shutdown}
    BY WireAssumption DEF IInv, Bounded, TypeOK, ClientType, PeerType, Quiet, Healthy, Ids
  <2>2. \A f : ~Carries(toPlugin, f) /\ ~Carries(toHost, f)
    BY EmptyPipe DEF Quiet
  <2>3. \A i \in Ids : stage[i] # "send" /\ ~Owed(i)
    BY <2>1 DEF Quiet, Owed
  <2>4. \A b \in Callbacks : ~Unwritten(b) /\ ~Handled(b) /\ worker[b[1]] # "await"
    BY CallbackShape DEF Quiet, Unwritten, Handled, At
  <2>5. pending \subseteq Dropped
    BY <2>1, <2>2, <2>3 DEF RequestsLive
  <2>6. callbacks = {} /\ abandoned = {}
    BY <2>1, <2>2, <2>4 DEF CallbacksLive
  <2>7. routed = {}
    BY <2>1, <2>4 DEF CallbacksKept
  <2> QED
    BY <2>5, <2>6, <2>7
<1> QED
  BY <1>1, Invariance, PTL
===============================================================================
