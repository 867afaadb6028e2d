------------------------------ MODULE MCNetwork -----------------------------
(***************************************************************************)
(* A Network of three streams of three bytes, with frames of two words and *)
(* a bit, which start at different places of the beats.                    *)
(***************************************************************************)
EXTENDS Network

Nothing == << << >>, << >>, << >> >>

Arrives(lengths, gap, offered, raw, apart) ==
  [rx |-> lengths, gap |-> gap, offered |-> offered, raw |-> raw, apart |-> apart,
   tx |-> Nothing]

Sends(lengths) ==
  [rx |-> << >>, gap |-> 1, offered |-> {TRUE}, raw |-> {FALSE}, apart |-> FALSE,
   tx |-> lengths]

(* Enough to fill every queue on the way and to stop the wire.             *)
Long == << 7, 6, 6, 7, 6, 6, 7, 6, 7, 7 >>

MixedPlans ==
  { Arrives(Long, 1, {TRUE}, {FALSE}, TRUE),
    Arrives(Long, 1, {TRUE}, {TRUE}, TRUE),
    Arrives(<< 7, 6, 6, 7 >>, 1, {TRUE}, {FALSE}, FALSE),
    Arrives(<< 7, 6, 6, 7 >>, 1, {TRUE}, {TRUE}, FALSE),
    Arrives(<< 6, 7 >>, 2, BOOLEAN, BOOLEAN, FALSE),
    Sends(<< << 7, 6, 6 >>, << 6, 7 >>, << >> >>) }

(* Both ports read at once and meet in a bank, one with a row waiting.     *)
SharedBankPlans == { Arrives(<< 7, 6, 6, 7, 6 >>, 1, {TRUE}, {TRUE}, FALSE) }
=============================================================================
