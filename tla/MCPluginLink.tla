----------------------------- MODULE MCPluginLink -----------------------------
(* Eight uses of a connection with two calls. *)
EXTENDS PluginLink, TLC

CONSTANTS c1, c2

Scene(made, drains, gives, streams, asks, faults) ==
  [calls |-> made, drains |-> drains, gives |-> gives, streams |-> streams, asks |-> asks,
   unframed |-> {}, faults |-> faults]
AskedBy(n1, n2) == (c1 :> n1) @@ (c2 :> n2)

Streaming == Scene({c1, c2}, {c1}, {c1}, {c1}, AskedBy(0, 0), {})
Asking == Scene({c1, c2}, {}, {c2}, {}, AskedBy(1, 2), {})
Dying == Scene({c1, c2}, {}, {c1}, {c1}, AskedBy(0, 0), {"die"})
EndedWhileAsking == Scene({c1, Shutdown}, {}, {c1}, {}, AskedBy(1, 0), {})
EndedWhileStreaming == Scene({c1, Shutdown}, {}, {}, {c1}, AskedBy(0, 0), {})
EndedWhileHung == Scene({c1, Shutdown}, {c1}, {c1}, {}, AskedBy(0, 0), {"hang"})
Unanswered == [Scene({c1, c2}, {}, {c1}, {}, AskedBy(1, 0), {}) EXCEPT !.unframed = {c1}]
EndedUnanswered == [Scene({c1, Shutdown}, {}, {c1}, {}, AskedBy(1, 0), {}) EXCEPT !.unframed = {c1}]

Uses == {Streaming, Asking, Dying, EndedWhileAsking, EndedWhileStreaming, EndedWhileHung,
         Unanswered, EndedUnanswered}
=============================================================================
