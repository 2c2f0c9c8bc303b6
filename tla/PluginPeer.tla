------------------------------ MODULE PluginPeer ------------------------------
(***************************************************************************)
(* The plugin's end of the connection, serve of plugin/sdk/peer.go: one    *)
(* loop over the frames of the host, one goroutine per request, callHost   *)
(* for the callbacks a handler makes, and the reply to shutdown.           *)
(*                                                                         *)
(* worker[c] is the goroutine of request c:                                *)
(*   "work" -> "ask" (a callback is registered) -> "await" (and written)   *)
(*   -> "work" ... -> "reply" -> "gone"                                    *)
(* or, when the reply makes no frame, "dropped": nobody is told,           *)
(* or, for a request that arrives after shutdown, "refuse" -> "refused".   *)
(* The callback it makes is <<c, asked[c]>>.                               *)
(***************************************************************************)
EXTENDS PluginWire

VARIABLES serve,           \* "serving", "refusing" or "leaving"
          misread,         \* serve returned a protocol error
          worker, asked, emitted,
          gone,            \* the requests whose context has been cancelled
          callbacks, routed, abandoned,
          shuttingDown, shutdownReply

work == <<worker, asked, emitted, gone>>
asking == <<callbacks, routed, abandoned>>
peer == <<serve, misread, work, asking, shuttingDown, shutdownReply>>

PeerInit ==
  /\ serve = "serving" /\ misread = FALSE
  /\ worker = [c \in Calls |-> "none"] /\ asked = [c \in Calls |-> 0]
  /\ emitted = {} /\ gone = {} /\ callbacks = {} /\ routed = {} /\ abandoned = {}
  /\ shuttingDown = FALSE /\ shutdownReply = "none"

PeerType ==
  /\ serve \in {"serving", "refusing", "leaving"} /\ misread \in BOOLEAN
  /\ worker \in [Calls -> {"none", "work", "ask", "await", "reply", "gone", "dropped",
                       "refuse", "refused"}]
  /\ asked \in [Calls -> Nat] /\ \A c \in Calls : asked[c] <= scene.asks[c]
  /\ emitted \subseteq scene.streams /\ gone \subseteq Calls
  /\ callbacks \subseteq Callbacks /\ routed \subseteq Callbacks /\ abandoned \subseteq Callbacks
  /\ shuttingDown \in BOOLEAN /\ shutdownReply \in {"none", "owed", "sent"}

Active == {c \in Calls : worker[c] \in {"work", "ask", "await", "reply"}}
Current(c) == <<c, asked[c]>>
Becomes(c, to) == worker' = [worker EXCEPT ![c] = to]

(* peer.write of a frame: it waits while the pipe is full.  A value that makes no frame  *)
(* is refused before that.                                                               *)
Emits(kind, i) ==
  /\ HasRoom(toHost) /\ toHost' = Append(toHost, [kind |-> kind, id |-> i])
  /\ UNCHANGED <<scene, toPlugin, input, proc>>

-----------------------------------------------------------------------------
(* The loop of serve. *)
Serving == proc = "running" /\ serve = "serving"
Consumed == toPlugin' = Tail(toPlugin) /\ UNCHANGED <<scene, toHost, input, proc>>

(* The deferred cancelAll; the loop then waits for everything it started. *)
Leave(error) == serve' = "leaving" /\ gone' = gone \union Active /\ misread' = error

ServeRequest ==
  /\ Serving /\ Heads(toPlugin, "request") /\ Head(toPlugin).id \in Calls /\ Consumed
  /\ LET c == Head(toPlugin).id IN
     \/ /\ shuttingDown /\ Becomes(c, "refuse") /\ serve' = "refusing" /\ UNCHANGED <<misread, gone>>
     \/ /\ ~shuttingDown /\ c \notin Active /\ Becomes(c, "work") /\ UNCHANGED <<serve, misread, gone>>
  /\ UNCHANGED <<asked, emitted, asking, shuttingDown, shutdownReply>>

ServeCancel ==
  /\ Serving /\ Heads(toPlugin, "cancel") /\ Consumed
  /\ gone' = gone \union ({Head(toPlugin).id} \intersect Active)
  /\ UNCHANGED <<serve, misread, worker, asked, emitted, asking, shuttingDown, shutdownReply>>

ServeShutdown ==
  /\ Serving /\ Heads(toPlugin, "request") /\ Head(toPlugin).id = Shutdown /\ Consumed
  /\ shuttingDown' = TRUE /\ gone' = gone \union Active /\ shutdownReply' = "owed"
  /\ UNCHANGED <<serve, misread, worker, asked, emitted, asking>>

(* deliver, and the protocol errors of the loop: a reply nobody waits for, a torn frame. *)
ServeReply ==
  /\ Serving /\ Heads(toPlugin, "reply") /\ Consumed
  /\ LET b == Head(toPlugin).id IN
     /\ callbacks' = callbacks \ {b} /\ abandoned' = abandoned \ {b}
     /\ routed' = IF b \in callbacks THEN routed \union {b} ELSE routed
     /\ IF b \in callbacks \union abandoned THEN UNCHANGED <<serve, misread, gone>> ELSE Leave(TRUE)
  /\ UNCHANGED <<worker, asked, emitted, shuttingDown, shutdownReply>>

ServeTorn ==
  /\ Serving /\ Heads(toPlugin, "torn") /\ Consumed /\ Leave(TRUE)
  /\ UNCHANGED <<worker, asked, emitted, asking, shuttingDown, shutdownReply>>

InputEnds ==
  /\ Serving /\ toPlugin = <<>> /\ input = "closed" /\ Leave(FALSE)
  /\ UNCHANGED <<wire, worker, asked, emitted, asking, shuttingDown, shutdownReply>>

RefuseWritten ==
  /\ proc = "running" /\ serve = "refusing" /\ serve' = "serving"
  /\ \E c \in Calls : worker[c] = "refuse" /\ Emits("answer", c) /\ Becomes(c, "refused")
  /\ UNCHANGED <<misread, asked, emitted, gone, asking, shuttingDown, shutdownReply>>

AnswerShutdownAtOnce ==
  /\ proc = "running" /\ shutdownReply = "owed"
  /\ Emits("answer", Shutdown) /\ shutdownReply' = "sent"
  /\ UNCHANGED <<serve, misread, work, asking, shuttingDown>>
AnswerShutdown ==
  /\ proc = "running" /\ shutdownReply = "owed" /\ Active = {}
  /\ Emits("answer", Shutdown) /\ shutdownReply' = "sent"
  /\ UNCHANGED <<serve, misread, work, asking, shuttingDown>>

Exit ==
  /\ proc = "running" /\ serve = "leaving" /\ Active = {} /\ shutdownReply # "owed"
  /\ proc' = "exited" /\ UNCHANGED <<scene, toPlugin, toHost, input, peer>>

Loop == ServeRequest \/ ServeCancel \/ ServeShutdown \/ ServeReply \/ ServeTorn \/ InputEnds
          \/ RefuseWritten \/ AnswerShutdown \/ Exit

-----------------------------------------------------------------------------
(* The goroutine of a request. *)
Event(c) ==
  /\ proc = "running" /\ worker[c] = "work" /\ c \in scene.streams \ emitted
  /\ Emits("event", c) /\ emitted' = emitted \union {c}
  /\ UNCHANGED <<serve, misread, worker, asked, gone, asking, shuttingDown, shutdownReply>>

(* callHost registers the callback before it writes the request. *)
Ask(c) ==
  /\ proc = "running" /\ worker[c] = "work" /\ asked[c] < scene.asks[c]
  /\ asked' = [asked EXCEPT ![c] = @ + 1] /\ callbacks' = callbacks \union {<<c, asked[c] + 1>>}
  /\ Becomes(c, "ask")
  /\ UNCHANGED <<wire, serve, misread, emitted, gone, routed, abandoned, shuttingDown, shutdownReply>>

AskWritten(c) ==
  /\ proc = "running" /\ worker[c] = "ask" /\ Emits("ask", Current(c)) /\ Becomes(c, "await")
  /\ UNCHANGED <<serve, misread, asked, emitted, gone, asking, shuttingDown, shutdownReply>>

(* The callback is forgotten and its call fails. *)
AskUnframed(c) ==
  /\ proc = "running" /\ worker[c] = "ask" /\ c \in scene.unframed /\ Becomes(c, "work")
  /\ callbacks' = callbacks \ {Current(c)}
  /\ UNCHANGED <<wire, serve, misread, asked, emitted, gone, routed, abandoned, shuttingDown, shutdownReply>>

TakeReply(c) ==
  /\ proc = "running" /\ worker[c] = "await" /\ Current(c) \in routed
  /\ routed' = routed \ {Current(c)} /\ Becomes(c, "work")
  /\ UNCHANGED <<wire, serve, misread, asked, emitted, gone, callbacks, abandoned, shuttingDown, shutdownReply>>

AbandonAlways(c) ==
  /\ proc = "running" /\ worker[c] = "await" /\ c \in gone /\ Becomes(c, "work")
  /\ callbacks' = callbacks \ {Current(c)} /\ routed' = routed \ {Current(c)}
  /\ abandoned' = abandoned \union {Current(c)}
  /\ UNCHANGED <<wire, serve, misread, asked, emitted, gone, shuttingDown, shutdownReply>>
(* The request's context has ended: only a callback still registered is abandoned. *)
Abandon(c) ==
  /\ proc = "running" /\ worker[c] = "await" /\ c \in gone /\ Becomes(c, "work")
  /\ callbacks' = callbacks \ {Current(c)} /\ routed' = routed \ {Current(c)}
  /\ abandoned' = abandoned \union ({Current(c)} \intersect callbacks)
  /\ UNCHANGED <<wire, serve, misread, asked, emitted, gone, shuttingDown, shutdownReply>>

Finish(c) ==
  /\ proc = "running" /\ worker[c] = "work" /\ Becomes(c, "reply")
  /\ UNCHANGED <<wire, serve, misread, asked, emitted, gone, asking, shuttingDown, shutdownReply>>

Answer(c) ==
  /\ proc = "running" /\ worker[c] = "reply" /\ Emits("answer", c) /\ Becomes(c, "gone")
  /\ UNCHANGED <<serve, misread, asked, emitted, gone, asking, shuttingDown, shutdownReply>>

(* The reply makes no frame; serve drops the error of reply, and the host is told nothing. *)
AnswerUnframed(c) ==
  /\ proc = "running" /\ worker[c] = "reply" /\ c \in scene.unframed /\ Becomes(c, "dropped")
  /\ UNCHANGED <<wire, serve, misread, asked, emitted, gone, asking, shuttingDown, shutdownReply>>

Worker(c) == Event(c) \/ Ask(c) \/ AskWritten(c) \/ AskUnframed(c) \/ TakeReply(c) \/ Abandon(c)
               \/ Finish(c) \/ Answer(c) \/ AnswerUnframed(c)

PeerNext == Loop \/ \E c \in Calls : Worker(c)
=============================================================================
