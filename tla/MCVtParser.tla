----------------------------- MODULE MCVtParser -----------------------------
(***************************************************************************)
(* VtParser for TLC: a byte of every class the states tell apart (BEL for  *)
(* C0, SUB, ESC; '(' for an intermediate; '1', ';' and '?'; 'P', 'X', '[', *)
(* '\', ']' and 'c', which is final and RIS; DEL and ST) and the bytes of  *)
(* UTF-8 that make characters of two and three bytes, an overlong form, a  *)
(* surrogate and a number that is too large.                               *)
(***************************************************************************)
EXTENDS VtParser

MCBytes ==
  {7, 26, 27} \cup {40, 49, 59, 63} \cup {80, 88, 91, 92, 93, 99}
    \cup {127, 156} \cup {160, 195, 224, 237, 245}

=============================================================================
