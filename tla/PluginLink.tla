------------------------------ MODULE PluginLink ------------------------------
(***************************************************************************)
(* A plugin connection: the host's client and a plugin built with the SDK, *)
(* each a process of its own, over two pipes.  The plugin may hang or die; *)
(*           callers may give up and close may begin at any moment.        *)
(***************************************************************************)
EXTENDS PluginClient, PluginPeer

vars == <<wire, client, peer>>

Init == WireInit /\ ClientInit /\ PeerInit

Next ==
  \/ ClientNext /\ UNCHANGED peer
  \/ PeerNext /\ UNCHANGED client
  \/ (Hang \/ Die) /\ UNCHANGED <<client, peer>>

Spec == Init /\ [][Next]_vars

(* The goroutines go on while they can: callers once they have called, the reader, the   *)
(* handlers of callbacks, the writer of refusals until the connection fails, close with  *)
(* its deadline; in a plugin that does not hang, the loop and the handlers of requests,  *)
(* which finish but need not emit or ask.  Each has finitely many steps, so fairness of  *)
(* a kind of goroutine is enough.                                                        *)
Working(c) == Finish(c) \/ AskWritten(c) \/ AskUnframed(c) \/ TakeReply(c) \/ Abandon(c)
                \/ Answer(c) \/ AnswerUnframed(c)

Fairness ==
  /\ WF_vars((\E i \in Ids : stage[i] # "idle" /\ Caller(i)) /\ UNCHANGED peer)
  /\ WF_vars(ContextEnds(Shutdown) /\ UNCHANGED peer)
  /\ WF_vars(Reader /\ UNCHANGED peer)
  /\ WF_vars((\E b \in Callbacks : Handler(b)) /\ UNCHANGED peer)
  /\ WF_vars((readErr = "none" /\ \E b \in Callbacks : TakeRefusal(b)) /\ UNCHANGED peer)
  /\ WF_vars(Closing /\ UNCHANGED peer)
  /\ WF_vars(Loop /\ UNCHANGED client)
  /\ WF_vars((\E c \in Calls : Working(c)) /\ UNCHANGED client)

FairSpec == Spec /\ Fairness

-----------------------------------------------------------------------------
(* Types, and the limits of what a plugin can make the host hold. *)
TypeOK ==
  /\ WireType /\ ClientType /\ PeerType
  /\ Cardinality(At(Holding)) <= MaxHostCalls /\ Cardinality(At({"refused"})) <= MaxRefused

(* Two honest ends never condemn each other: as long as no writer gave up on a stalled   *)
(* plugin, the host meets no response or event of an unknown call, and until close the   *)
(* plugin no reply to a callback it does not know, whoever gives up and whenever.        *)
NeverMisread ==
  /\ readErr = "unknown" => stalled
  /\ misread => stalled \/ closer # "no"

(* Once a call has returned no event of it is being delivered and none can be: the       *)
(* writers belong to the caller again.                                                   *)
SinksReleased == \A i \in Ids : stage[i] = "returned" =>
  sink[i] # "attached" /\ reader # [at |-> "inSink", on |-> i]

(* Types and limits, and the writers of a call belong to its caller again  *)
(* once it has returned.                                                   *)
Safety == TypeOK /\ SinksReleased

(* The requests serve took on, and those of them whose reply made no frame: no answer    *)
(* will come.                                                                            *)
Accepted == {c \in Calls : worker[c] \notin {"none", "refuse", "refused"}}
Dropped == {c \in Calls : worker[c] = "dropped"}

(* The shutdown reply is the last word on everything the plugin accepted: when close has *)
(* it, no handler runs and every accepted call has its answer, but for those whose reply *)
(* made no frame (peer.go:190), so that Wait, which drops what is still unread, loses    *)
(* none of the results that were sent.                                                   *)
ShutdownIsLast == mailbox[Shutdown] = "answer" =>
  Active = {} /\ Accepted \intersect pending \subseteq Dropped

(* When everything has settled neither end remembers a call or a callback, late answers  *)
(* and late replies are all accounted for, except that the host goes on waiting for the  *)
(* replies that made no frame.                                                           *)
Quiet ==
  /\ readErr = "none" /\ input = "open" /\ proc = "running" /\ toPlugin = <<>> /\ toHost = <<>>
  /\ \A i \in Ids : stage[i] \in {"idle", "returned"}
  /\ \A c \in Calls : worker[c] \in {"none", "gone", "dropped", "refused"}
  /\ reader.at = "reading" /\ At({"none", "done"}) = Callbacks /\ shutdownReply # "owed"
NothingRemembered == Quiet => pending \subseteq Dropped /\ callbacks = {} /\ routed = {} /\ abandoned = {}

(* A call returns unless its caller does not give up and the plugin hangs, or the reply  *)
(* made no frame, "leaving the host waiting forever" (plugin/sdk/plugin.go:619); close   *)
(* always returns.                                                                       *)
CallsReturn == \A i \in Ids :
  stage[i] # "idle" ~> stage[i] = "returned" \/ (i \in Calls \ ended /\ (proc = "hung" \/ i \in Dropped))
CloseReturns == stage[Shutdown] # "idle" ~> closer = "closed"
EverythingReturns == CallsReturn /\ CloseReturns

(* docs/plugin-protocol.md:27: "the plugin returns exactly one response with the same    *)
(* string id", as far as it falls to the SDK: every request it takes on is answered as   *)
(* long as the plugin runs and its connection is neither failed nor closed.  Violated.   *)
RequestsAnswered == \A c \in Calls : worker[c] = "work" ~>
  worker[c] = "gone" \/ proc # "running" \/ input = "closed" \/ readErr # "none"

(* docs/plugin-protocol.md:421: "On cancellation, Wuko stops forwarding events for that  *)
(* request immediately".  A call with a drain window keeps its sinks until the last      *)
(* answer.  Violated.                                                                    *)
ForwardingStops == [][
  reader.at = "looked" /\ reader'.at = "inSink" => stage[reader.on] # "drainCancel"]_vars
=============================================================================
