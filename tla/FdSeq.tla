------------------------------- MODULE FdSeq -------------------------------
(***************************************************************************)
(* Arithmetic of the 3-bit HDLC sequence numbers (tiny_fd_i_queue_control). *)
(* The code masks with seq_bits_mask = 7; here the modulus is SeqMod, 8 in  *)
(* the code and smaller in the model-checked instances.  The wrap-around is *)
(* written with IF so that the provers need no modulo by a variable.        *)
(***************************************************************************)
EXTENDS Integers

CONSTANT SeqMod     \* seq_bits_mask + 1

ASSUME SeqModAssumption == SeqMod \in Nat /\ SeqMod >= 3

SeqNums == 0 .. SeqMod - 1

\* Mutant: the mask is forgotten.
SeqNextUnmasked(n) == n + 1

\* (n + 1) & seq_bits_mask
SeqNext(n) == IF n = SeqMod - 1 THEN 0 ELSE n + 1

\* How many SeqNext steps lead from a to b.
Dist(a, b) == IF b >= a THEN b - a ELSE (b - a) + SeqMod

\* s is one of the numbers c, c+1, ..., l-1 (cyclically).
InWin(c, l, s) == Dist(c, s) < Dist(c, l)
=============================================================================
