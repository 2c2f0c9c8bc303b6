--------------------------- MODULE StoreOperations ---------------------------
(***************************************************************************)
(* The operations of keyvalue.Store as functions of the stored map: what   *)
(* each one leaves in the store, whether it rewrites the file, and what it *)
(* answers.  Keys and values are opaque; a map gives every key a value or  *)
(* Absent.                                                                 *)
(***************************************************************************)
EXTENDS Naturals, FiniteSets

CONSTANTS Keys, Values, Absent,
          Mutate(_)   \* the caller's mutate: of the value under the key or Absent

ASSUME StoreAssumption ==
  /\ IsFiniteSet(Keys)
  /\ Absent \notin Values
  /\ \A v \in Values \cup {Absent} : Mutate(v) \in Values

Maps == [Keys -> Values \cup {Absent}]

EmptyMap == [k \in Keys |-> Absent]

Ops ==
  [kind : {"List", "Clear"}]
    \cup [kind : {"Get", "Delete", "Update"}, key : Keys]
    \cup [kind : {"Set", "SetIfDifferent"}, key : Keys, value : Values]

Reads(op) == op.kind \in {"Get", "List"}

Present(map) == {k \in Keys : map[k] # Absent}

(* Mutant: Delete stores null instead of removing the key.                 *)
DeleteStoresNull(op, map) ==
  CASE op.kind \in {"Get", "List"} -> map
    [] op.kind \in {"Set", "SetIfDifferent"} -> [map EXCEPT ![op.key] = op.value]
    [] op.kind = "Update" -> [map EXCEPT ![op.key] = Mutate(map[op.key])]
    [] op.kind = "Delete" -> [map EXCEPT ![op.key] = <<"null">>]
    [] op.kind = "Clear" -> EmptyMap

(* The map after the operation.                                            *)
Effect(op, map) ==
  CASE op.kind \in {"Get", "List"} -> map
    [] op.kind \in {"Set", "SetIfDifferent"} -> [map EXCEPT ![op.key] = op.value]
    [] op.kind = "Update" -> [map EXCEPT ![op.key] = Mutate(map[op.key])]
    [] op.kind = "Delete" -> [map EXCEPT ![op.key] = Absent]
    [] op.kind = "Clear" -> EmptyMap

(* Set writes what it was given even when it is there already; the others  *)
(* leave the file alone when nothing changes.                              *)
Rewrites(op, map) == op.kind = "Set" \/ Effect(op, map) # map

Answer(op, map) ==
  CASE op.kind = "List" -> <<"List", {<<k, map[k]>> : k \in Present(map)}>>
    [] op.kind \in {"Get", "Delete"} -> <<op.kind, map[op.key]>>
    [] op.kind = "Set" -> <<"Set", op.value>>
    [] op.kind = "SetIfDifferent" -> <<"SetIfDifferent", map[op.key] # op.value>>
    [] op.kind = "Update" -> <<"Update", Mutate(map[op.key]), map[op.key] # Mutate(map[op.key])>>
    [] op.kind = "Clear" -> <<"Clear", Cardinality(Present(map))>>

NoAnswer == <<"none">>

(* How a call that has returned went; its answer was delivered.            *)
Delivered == <<"delivered">>

Error == <<"error">>

(* What a client that is not calling is taken to run.                      *)
NoOp == [kind |-> "List"]
=============================================================================
