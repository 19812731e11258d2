----------------------------- MODULE MCRdwrMain -----------------------------
(* A KB of four bytes in words of 16 values: a partition of 4 KB wraps to  *)
(* nothing, one of 5 KB to 1 KB.                                           *)
EXTENDS RdwrMain

Patterns == {"stride", "pageRand", "allRand", "other"}

UsualCommand ==
  [prog |-> "multiple_rdwr", region_size |-> 3, page_size |-> 1, stride |-> 2,
   pattern0 |-> "stride", pattern1 |-> "stride", partition_size |-> 1,
   num_iterations0 |-> 2, num_iterations1 |-> 2]

RingCommands ==
  {[UsualCommand EXCEPT !.region_size = r, !.page_size = g, !.stride = s,
                        !.pattern0 = a, !.partition_size = n] :
     r \in {0, 2, 5, 8}, g \in {0, 1, 4}, s \in {0, 2, 8}, a \in Patterns, n \in {0, 1, 2, 4}}

SmtCommands ==
  {[prog |-> "smt_rdwr", region_size |-> r, page_size |-> g, stride |-> s,
    pattern0 |-> a, pattern1 |-> b, partition_size |-> r,
    num_iterations0 |-> n, num_iterations1 |-> 2] :
     r \in {0, 1, 4, 5}, g \in {1, 2, 4}, s \in {2, 8}, a \in Patterns, b \in Patterns, n \in {0, 1, 3}}

AllCommands == {UsualCommand} \cup RingCommands \cup SmtCommands

=============================================================================
