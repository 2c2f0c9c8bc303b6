------------------------------ MODULE PluginWire ------------------------------
(***************************************************************************)
(* The connection of a plugin: the frames of plugin/client.go and          *)
(* plugin/sdk/peer.go, and the two pipes that carry them.  A pipe holds    *)
(* Room frames.  A write that is cut short when the plugin's input is      *)
(* closed leaves a torn frame behind what the pipe already holds.          *)
(***************************************************************************)
EXTENDS Naturals, Sequences, FiniteSets

CONSTANTS Calls,     \* the calls of the host
          Shutdown,  \* the call that close makes
          MaxAsks,   \* bound: host callbacks of one handler
          Room,      \* bound: frames a pipe holds
          Scenes     \* what a connection is used for

Ids == Calls \union {Shutdown}
Callbacks == Calls \X (1..MaxAsks)

(* The calls made on a connection, those that have a drain window, those whose caller    *)
(* may give up and close if it may be called; what the handlers do; the calls with       *)
(* values that may not make a frame (too large, or not marshallable); what may go wrong. *)
SceneType == [calls : SUBSET Ids, drains : SUBSET Calls, gives : SUBSET Calls,
              streams : SUBSET Calls, asks : [Calls -> 0..MaxAsks], unframed : SUBSET Calls,
              faults : SUBSET {"hang", "die"}]

ASSUME WireAssumption ==
  /\ Shutdown \notin Calls
  /\ MaxAsks \in Nat /\ Room \in Nat \ {0}
  /\ Scenes \subseteq SceneType

Torn == [kind |-> "torn", id |-> Shutdown]
ToPlugin == [kind : {"request"}, id : Ids] \union [kind : {"cancel"}, id : Ids]
              \union [kind : {"reply"}, id : Callbacks] \union {Torn}
ToHost == [kind : {"answer"}, id : Ids] \union [kind : {"event"}, id : Calls]
            \union [kind : {"ask"}, id : Callbacks]

VARIABLES scene,
          toPlugin, toHost,
          input,     \* "open" or "closed": the host's end of the plugin's input
          proc       \* "running", "hung" or "exited": the plugin

wire == <<scene, toPlugin, toHost, input, proc>>

HasRoom(pipe) == Len(pipe) < Room
Heads(pipe, kind) == pipe # <<>> /\ Head(pipe).kind = kind

WireInit == scene \in Scenes /\ toPlugin = <<>> /\ toHost = <<>> /\ input = "open" /\ proc = "running"

WireType ==
  /\ scene \in Scenes
  /\ toPlugin \in Seq(ToPlugin) /\ Len(toPlugin) <= Room + 1
  /\ toHost \in Seq(ToHost) /\ Len(toHost) <= Room
  /\ input \in {"open", "closed"} /\ proc \in {"running", "hung", "exited"}

(* A plugin that stops altogether, without closing its pipes, and one that dies. *)
Hang == "hang" \in scene.faults /\ proc = "running" /\ proc' = "hung" /\ UNCHANGED <<scene, toPlugin, toHost, input>>
Die == "die" \in scene.faults /\ proc # "exited" /\ proc' = "exited" /\ UNCHANGED <<scene, toPlugin, toHost, input>>
=============================================================================
