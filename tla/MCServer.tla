------------------------------ MODULE MCServer ------------------------------
EXTENDS Server, TLC

CONSTANTS c1, c2, k1, k2, v1

To(op, keys) == [op |-> op, keys |-> keys, value |-> None]

SetOf(k) == [op |-> "SET", keys |-> <<k>>, value |-> v1]
Echo     == [op |-> "ECHO", keys |-> <<>>, value |-> v1]

\* Every kind of command but PING and COMMAND, which are an ECHO with another answer.
MCCommand ==
    c1 :> {To("DEL", <<k1, k2>>), SetOf(k1), Echo, To("REJECTED", <<>>)} @@
    c2 :> {To("GET", <<k1>>), SetOf(k2), To("BLANK", <<>>), To("QUIT", <<>>),
           To("MALFORMED", <<>>)}
=============================================================================
