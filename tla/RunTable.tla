------------------------------ MODULE RunTable ------------------------------
(***************************************************************************)
(* What the durable store of runs promises, whatever the interleaving of   *)
(* the requests, the callbacks, the deletes and the restarts: each row is  *)
(* written whole, and while a row lives its owner and its engine mapping   *)
(* are never lost, no two rows share an engine run, and a row in a         *)
(* terminal state has its completion time.  migrations/0016 states it as   *)
(* "run identity, ownership, status, and engine mapping must survive Redis *)
(* or process restarts".                                                   *)
(*                                                                         *)
(* The actions say what the new row may be instead of choosing it: a step  *)
(* of an implementation is then checked by looking at its result.          *)
(***************************************************************************)
EXTENDS RunRow

VARIABLE table

Init == table = [r \in Runs |-> NoRow]

\* r's row becomes `row', and no other row is touched.
OnlyWrites(r, row) == table' = [table EXCEPT ![r] = row]

\* No other row is mapped to the engine run of `row'.
EngineFree(r, row) ==
    row.eng # NoEngine =>
        \A s \in Runs \ {r} : table[s] # NoRow => table[s].eng # row.eng

Acceptable(r, row) == row \in Row /\ Coherent(row) /\ EngineFree(r, row)

Insert(r) ==
    /\ table[r] = NoRow
    /\ OnlyWrites(r, table'[r])
    /\ Acceptable(r, table'[r])

Overwrite(r) ==
    /\ table[r] # NoRow
    /\ OnlyWrites(r, table'[r])
    /\ Acceptable(r, table'[r])
    /\ table[r].owned => table'[r].owned
    /\ table[r].eng # NoEngine => table'[r].eng # NoEngine

Remove(r) == table[r] # NoRow /\ OnlyWrites(r, NoRow)

Next == \E r \in Runs : Insert(r) \/ Overwrite(r) \/ Remove(r)

Spec == Init /\ [][Next]_table
=============================================================================
