----------------------------- MODULE TicketRows -----------------------------
(***************************************************************************)
(* The ticket_category row as TypeORM 0.3.20 reads and saves it over       *)
(* PostgreSQL at READ COMMITTED.  The library is not part of the           *)
(* repository: these operators are modelled from how the services use      *)
(* findOne and save.                                                       *)
(*                                                                         *)
(* save(entity) first SELECTs the row again, keeps the columns in which    *)
(* the entity in memory differs from it, and then UPDATEs these columns    *)
(* to the ABSOLUTE values in memory, by primary key only: the version is   *)
(* no part of the WHERE clause.  An entity that went stale between its     *)
(* read and its save therefore overwrites what another transaction         *)
(* committed.                                                              *)
(***************************************************************************)
EXTENDS Integers

\* The columns the services read or write.  A NULL quantity counts as 0:
\* JavaScript compares and subtracts it so.
TicketCategory == [quantity: Int, price: Nat, hide: BOOLEAN, version: Nat]

Columns == {"quantity", "price", "hide", "version"}

\* The columns an UPDATE of save(entity) would set.
ChangedColumns(entity, stored) == {f \in Columns : entity[f] # stored[f]}

\* The versions the UPDATE may leave.  The library increments the column
\* unless it counts the stale version among the changed columns, and then
\* writes the stale number back: both are allowed.
NextVersions(entity, stored, changed) ==
    {stored.version + 1} \cup
        (IF "version" \in changed THEN {entity.version} ELSE {})

\* The row after the UPDATE.
SavedRow(entity, stored, changed, v) ==
    [quantity |-> IF "quantity" \in changed THEN entity.quantity ELSE stored.quantity,
     price    |-> IF "price" \in changed THEN entity.price ELSE stored.price,
     hide     |-> IF "hide" \in changed THEN entity.hide ELSE stored.hide,
     version  |-> v]

\* repository.update(id, body): one UPDATE of the columns of the body.
Updated(body, f, stored) == IF f \in DOMAIN body THEN body[f] ELSE stored[f]
UpdatedRow(body, stored) ==
    [quantity |-> Updated(body, "quantity", stored),
     price    |-> Updated(body, "price", stored),
     hide     |-> Updated(body, "hide", stored),
     version  |-> stored.version + 1]

\* save() issues no UPDATE when nothing differs; a difference in the version
\* alone may or may not count as one.
MaySkipUpdate(changed) == changed \subseteq {"version"}
=============================================================================
