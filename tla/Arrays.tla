--------------------------------- MODULE Arrays ---------------------------------
(***************************************************************************)
(* What the classes take from JavaScript's arrays, as functions of the     *)
(* position reached.                                                       *)
(***************************************************************************)
EXTENDS Integers, Sequences

(* Array.filter.                                                           *)
filter(list, keep) ==
    LET upTo[i \in 0..Len(list)] ==
          IF i = 0 THEN <<>>
          ELSE IF list[i] \in keep THEN Append(upTo[i - 1], list[i])
          ELSE upTo[i - 1]
    IN  upTo[Len(list)]
================================================================================
