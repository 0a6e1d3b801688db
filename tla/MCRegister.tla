------------------------------ MODULE MCRegister ------------------------------
(* Two officers and two obligations, one with a recurring duty; answers    *)
(* about it for the bank, for a company, or for the bank about both.       *)
EXTENDS Register

MCAsked == {{<<1, Whole>>}, {<<1, "e1">>}, {<<1, Whole>>, <<2, Whole>>}}
=============================================================================
