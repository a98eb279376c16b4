------------------------------ MODULE MCPrintf ------------------------------
(* Arguments at the limits of a 6-bit int and of the powers of both bases. *)
EXTENDS Printf

MCInts == {-32, -31, -17, -16, -10, -9, -1, 0, 1, 9, 10, 15, 16, 31}
MCStrings == {<<>>, <<"s", "t">>}

=============================================================================
