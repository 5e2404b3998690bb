------------------------------- MODULE Table --------------------------------
(***************************************************************************)
(* Class table of runtime/ram_db, as operators on values: an index from    *)
(* keys to rows, and the counter that auto_emplace takes its keys from.    *)
(* Columns are the fields of a row.  An iterator is a key that is Found or *)
(* not; the allocator of the rows is taken to have room.                   *)
(***************************************************************************)
EXTENDS Naturals

EmptyTable == [row |-> [key \in {} |-> key], auto_key |-> 0]

\* select_row and update_row give an iterator other than end().
Found(table, key) == key \in DOMAIN table.row

\* A key that exists keeps its row (emplace_result::key_already_exists).
emplace(table, key, row) ==
    IF Found(table, key) THEN table
    ELSE [table EXCEPT !.row = [k \in DOMAIN @ \cup {key} |-> IF k = key THEN row ELSE @[k]]]

\* key_limit_error: the greatest key is never used.
KeyLimitReached(table, max) == table.auto_key = max

\* Faulty variant: the key is not used up.
auto_emplace_again(table, row) == emplace(table, table.auto_key, row)

\* The key used is the auto_key of before.  The index keeps the row it has where
\* emplace has given that key already, but the key is used up all the same.
auto_emplace(table, row) ==
    [emplace(table, table.auto_key, row) EXCEPT !.auto_key = @ + 1]

\* Assignment through update_column of a row that is found.
update_column(table, key, row) == [table EXCEPT !.row[key] = row]
=============================================================================
