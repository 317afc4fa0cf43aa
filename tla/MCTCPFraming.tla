---------------------------- MODULE MCTCPFraming ----------------------------
(***************************************************************************)
(* CATCPFraming with the bases of the length field scaled down from 13,    *)
(* 269 and 65805 to 3, 5 and 7, so that messages of a few bytes have each  *)
(* of the four forms of the header, and sit on both sides of a limit.      *)
(***************************************************************************)
EXTENDS CATCPFraming

MCLengthBase == [TCP |-> 0, TCP_8BIT |-> 3, TCP_16BIT |-> 5, TCP_32BIT |-> 7]

Bytes(n, b) == [i \in 1..n |-> (b + i) % 256]

MCMessages == {
    [token |-> <<>>,       code |-> 1,  body |-> <<>>],
    [token |-> <<7>>,      code |-> 2,  body |-> Bytes(2, 200)],
    [token |-> <<>>,       code |-> 69, body |-> Bytes(3, 30)],
    [token |-> <<65, 66>>, code |-> 3,  body |-> Bytes(6, 20)],
    [token |-> <<9>>,      code |-> 4,  body |-> Bytes(7, 3)] }

=============================================================================
