-------------------------------- MODULE Lists --------------------------------
(***************************************************************************)
(* Rows in order: sorting, filtering, listing and flattening, in forms     *)
(* that can be evaluated on small tables and reasoned about for all.       *)
(***************************************************************************)
EXTENDS Naturals, Sequences, FiniteSets, FiniteSetsExt

\* The elements of a finite set in the order of Before, a strict total order:
\* the n-th is the one that comes after n - 1 others.
InOrder(S, Before(_, _)) ==
    [n \in 1..Cardinality(S) |-> CHOOSE x \in S : Cardinality({y \in S : Before(y, x)}) = n - 1]

\* The elements of a finite set, in some order.
AsRows(S) == FoldSet(LAMBDA x, rows : Append(rows, x), <<>>, S)

\* The rows of a sequence of tables, one table after the other.
FlatRows(seqs) ==
    LET Upto[n \in 0..Len(seqs)] == IF n = 0 THEN <<>> ELSE Upto[n - 1] \o seqs[n]
    IN  Upto[Len(seqs)]

\* SelectSeq, by the positions that are kept.
Select(rows, Test(_)) ==
    LET kept == InOrder({i \in DOMAIN rows : Test(rows[i])}, <)
    IN  [n \in DOMAIN kept |-> rows[kept[n]]]

=============================================================================
