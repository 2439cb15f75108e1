-------------------------------- MODULE Picking --------------------------------
(***************************************************************************)
(* A filter over a list that looks at places rather than at elements: the  *)
(* loops and comprehensions of the code that keep some of what they read,  *)
(* in its order.                                                           *)
(***************************************************************************)
EXTENDS Naturals, Sequences

\* What stands at some places of a list, in its order.
Picked(s, places) ==
  LET upTo[n \in 0 .. Len(s)] ==
        IF n = 0 THEN <<>> ELSE IF n \in places THEN Append(upTo[n - 1], s[n]) ELSE upTo[n - 1]
  IN  upTo[Len(s)]
=============================================================================
