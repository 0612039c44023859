---------------------------- MODULE MCRlpEncoder ----------------------------
(* RLP objects for TLC: numbers with an odd digit, leading zeros, no digits *)
(* or too many; data around the lengths where the encoding changes.        *)
EXTENDS RlpEncoder

Text(p, d) == [prefix |-> p, digits |-> d]
MCQuantities == {Text(TRUE, <<0>>), Text(TRUE, <<0, 0, 7>>), Text(FALSE, <<8, 0>>), Text(TRUE, <<1, 0, 0>>),
                 Text(FALSE, <<1, 0, 0, 0, 0>>), Text(TRUE, <<>>), Text(FALSE, <<3, 16>>)}
Run(n) == [i \in 1..n |-> 170]
MCDatas == {Run(54), Run(56), Run(256)}    \* a list of the first alone has a body of 55 bytes
MCRecipients == {<<1, 2, 3, 4, 5>>, <<255, 0, 255, 0, 254>>}
MCHrp == <<108, 97, 116>>
=============================================================================
