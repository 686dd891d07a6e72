------------------------------ MODULE MCNumbers ------------------------------
(* Limbs of six bits, taken apart into halves of three; digits are binary. *)
EXTENDS Numbers

MCLiterals ==
  {0, 1, -1, 3, -7, 31, -32, 32, -63, 64, 511, -4095, 4096}
MCRatios == {<<1, 2>>, <<-3, 2>>, <<2, 3>>, <<-1, 3>>}
MCExponents == {-7, -1, 0, 2, 3, 6}
=============================================================================
