----------------------------- MODULE MCENC28J60 -----------------------------
(***************************************************************************)
(* A ring of twelve cells, in which two frames fit, or five of the smallest.  *)
(***************************************************************************)
EXTENDS ENC28J60

CONSTANTS d1, d2

Good(data) == [data |-> data, ok |-> TRUE]

MCFrame ==
    {Good(<<d1>>), Good(<<d1, d2>>), Good(<<d1, d2, d1>>), Good(<<d2, d2, d1, d2>>),
     [data |-> <<d2, d2>>, ok |-> FALSE]}
=============================================================================
