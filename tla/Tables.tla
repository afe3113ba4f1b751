------------------------------- MODULE Tables -------------------------------
(***************************************************************************)
(* Tables as functions from keys to rows, and the ORM's operations.        *)
(***************************************************************************)
EXTENDS Integers, FiniteSets, Sequences

CONSTANTS
    None,       \* null
    Keep        \* a property absent from the body

\* save(): the whole row, inserted or overwritten.
With(table, key, row) ==
    [k \in DOMAIN table \cup {key} |-> IF k = key THEN row ELSE table[k]]

\* The same of several rows, in one statement or transaction.
WithAll(table, rows) ==
    [k \in DOMAIN table \cup DOMAIN rows |-> IF k \in DOMAIN rows THEN rows[k] ELSE table[k]]

Single(key, row) == [k \in {key} |-> row]

\* remove() and delete(): the rows go if they are there.
Without(table, keys) == [k \in DOMAIN table \ keys |-> table[k]]

Rows(table, keys) == [k \in DOMAIN table \cap keys |-> table[k]]

Given(value, current) == IF value = Keep THEN current ELSE value
=============================================================================
