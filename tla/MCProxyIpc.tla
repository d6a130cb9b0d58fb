----------------------------- MODULE MCProxyIpc -----------------------------
(* Two workers, and loads that fill one kind of channel at a time: more     *)
(* messages than a socket holds, more lines, lines of both workers.         *)
EXTENDS ProxyIpc
MCLoad(m1, m2, l1, l2) == [msgs |-> <<m1, m2>>, lines |-> <<l1, l2>>]
MCLoads == {MCLoad(2, 1, 0, 0), MCLoad(0, 0, 3, 0), MCLoad(0, 0, 1, 1)}
=============================================================================
