------------------------------- MODULE Records -------------------------------
(***************************************************************************)
(* The records of a repository: keys (a collection and a record key) with  *)
(* the hash of the record that each holds.  A table of records is a        *)
(* function of the keys that are set.                                      *)
(***************************************************************************)
EXTENDS Integers, Sequences, Functions

CONSTANTS
    Key,      \* a set of integers, in the order of the keys
    Val       \* the hashes of records, model values

ASSUME KeysAreOrdered == Key \subseteq Int

Table == UNION {[keys -> Val] : keys \in SUBSET Key}

\* A leaf of the tree, and the leaves that say what a table says
Leaf(k, v) == [key |-> k, val |-> v]
LeavesOf(table) == {Leaf(k, table[k]) : k \in DOMAIN table}

Without(table, k) == Restrict(table, DOMAIN table \ {k})
With(table, k, v) == [j \in {k} \cup DOMAIN table |-> IF j = k THEN v ELSE table[j]]

Write ==
    [action : {"create", "update"}, key : Key, val : Val] \cup
    [action : {"delete"}, key : Key]

=============================================================================
