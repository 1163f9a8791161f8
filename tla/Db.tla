-------------------------------- MODULE Db --------------------------------
(***************************************************************************)
(* The map of the key-value store and its four operations (db.go).  Every  *)
(* operation holds the mutex of the map for its whole run, so it is one    *)
(* step and a function of the map.                                         *)
(***************************************************************************)
EXTENDS Naturals, Sequences

CONSTANTS
    Key,
    Absent    \* what a key that is not in the map stands for

EmptyDb == [k \in Key |-> Absent]

\* Create wants the key absent, Update and Delete present, Cas at prev.
Succeeds(db, o) ==
    \/ o.op = "create" /\ db[o.key] = Absent
    \/ o.op \in {"update", "delete"} /\ db[o.key] # Absent
    \/ o.op = "cas" /\ db[o.key] # Absent /\ db[o.key] = o.prev

\* The map after CommitEntry: a failed operation leaves it alone.
CommitEntry(db, o) ==
    IF Succeeds(db, o)
      THEN [db EXCEPT ![o.key] = IF o.op = "delete" THEN Absent ELSE o.value]
      ELSE db

=============================================================================
