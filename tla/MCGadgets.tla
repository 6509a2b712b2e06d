----------------------------- MODULE MCGadgets -----------------------------
(* Gadgets over the prime 73 = 2^6 + 9, with words of three bits.          *)
EXTENDS Gadgets

MCRoundConstants == <<<<3, 1, 4>>, <<1, 5, 9>>, <<2, 6, 5>>>>
MCMdsMatrix == <<<<2, 3, 1>>, <<1, 2, 3>>, <<3, 1, 2>>>>
============================================================================
