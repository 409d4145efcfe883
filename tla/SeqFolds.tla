-------------------------------- MODULE SeqFolds --------------------------------
(* Folds of sequences that the planner and the codec share, as recursive       *)
(* functions of the length.                                                    *)
EXTENDS Integers, Sequences

\* The elements of a sequence that belong to a set, in their order (filter).
Only(seq, set) ==
    LET only[k \in 0..Len(seq)] ==
            IF k = 0 THEN <<>> ELSE IF seq[k] \in set THEN Append(only[k - 1], seq[k]) ELSE only[k - 1]
    IN  only[Len(seq)]

\* The sequences of a sequence, one after the other (join, flat).
Flat(seqs) ==
    LET flat[k \in 0..Len(seqs)] == IF k = 0 THEN <<>> ELSE flat[k - 1] \o seqs[k]
    IN  flat[Len(seqs)]
================================================================================
