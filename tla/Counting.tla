------------------------------ MODULE Counting ------------------------------
(***************************************************************************)
(* Counting the items of a kind in a queue, and adding up the values of a  *)
(* function, which is counting too.                                        *)
(***************************************************************************)
EXTENDS Naturals, Sequences, FiniteSets

CountIn(q, k) == Cardinality({i \in 1..Len(q) : q[i] = k})

\* The sum of the f[x], x in the finite set S, which are natural numbers.
SumOver(f, S) == Cardinality(UNION {{x} \X (1..f[x]) : x \in S})
=============================================================================
