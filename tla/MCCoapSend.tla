------------------------------ MODULE MCCoapSend ------------------------------
EXTENDS CoapSend

Text(first, n) == [i \in 1..n |-> first + i]
Asked(u, q, s, p) ==
    [uri |-> Text(96, u), query |-> Text(64, q), secondQuery |-> Text(32, s),
     payload |-> Text(47, p)]

(* The sketch's own request, and the lengths at which the option headers     *)
(* change: none, one byte, 12 and 13, and the largest that fit.              *)
MCRequests ==
    {Asked(11, 17, 6, 1), Asked(11, 17, 6, 5),
     Asked(0, 0, 0, 1), Asked(3, 0, 1, 2), Asked(12, 12, 12, 3),
     Asked(1, 13, 13, 2), Asked(5, 13, 0, 1), Asked(2, 14, 14, 1), Asked(12, 44, 40, 6),
     Asked(1, 100, 0, 1)}
=============================================================================
