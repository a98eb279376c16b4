-------------------------------- MODULE MCMm --------------------------------
(* Addresses and their places in the page tables, for the runs of Mm.      *)
EXTENDS Mm

(* Code and stack share all tables; each further address shares one table  *)
(* less with them.                                                         *)
Two == {"code", "stack"}
Five == Two \cup {"near", "middle", "far"}

MCPath == [a \in Five |->
             CASE a = "code" -> <<0, 0, 0, 0>>
               [] a = "stack" -> <<0, 0, 0, 1>>
               [] a = "near" -> <<0, 0, 1, 0>>
               [] a = "middle" -> <<0, 1, 0, 0>>
               [] a = "far" -> <<1, 0, 0, 0>>]

=============================================================================
