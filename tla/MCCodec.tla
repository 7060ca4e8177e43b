------------------------------- MODULE MCCodec -------------------------------
(* Bytes of four values: a one-byte length goes up to 3, a two-byte one to 15. *)
EXTENDS Codec

MCNumbers == [width \in {1, 4, 8} |->
                 IF width = 1 THEN {0, Radix - 1} ELSE {Radix + 2, Span(width) - 1}]

MCStrings == {<< >>, <<1, 2, 3>>, <<3, 2, 1, 0>>}

MCLists == {<< >>, <<<<2>>, << >>>>, <<<<0>>, <<1>>, <<2>>>>, <<<<0>>, <<1>>, <<2>>, <<3>>>>}
=============================================================================
