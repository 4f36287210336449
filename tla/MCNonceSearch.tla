--------------------------- MODULE MCNonceSearch ---------------------------
EXTENDS NonceSearch

J(layout, nonce, span, unit, blob, xn) ==
    [layout |-> layout, nonce |-> nonce, span |-> span, unit |-> unit,
     blob |-> blob, xn |-> xn]

\* Plain pools, NiceHash with a leading byte or the last byte protected, and
\* an extranonce, for each layout that can meet it.
MCJobs ==
    {J(l, 0, Space, 1, 0, FALSE) : l \in {"lanes", "block", "counter"}}
    \cup {J("rx", Space - 12, Space, 1, 0, FALSE)}
    \cup {J("lanes", 2, Space, 4, 0, FALSE), J("rx", 2, Space, 4, 0, FALSE)}
    \cup {J(l, 0, Space \div 4, 1, Space \div 4, FALSE) : l \in {"lanes", "rx"}}
    \cup {J(l, Space \div 4, Space \div 4, 1, 0, TRUE) :
             l \in {"lanes", "block", "counter"}}
    \cup {J(l, Space \div 2, Space \div 4, 1, 0, FALSE) : l \in {"block", "counter"}}
    \cup {J("counter", Space - 4, Space \div 4, 1, 0, FALSE)}
    \cup {J("seed", n, Space, 2, 0, FALSE) : n \in {1, Space - 5}}
=============================================================================
