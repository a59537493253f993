----------------------------- MODULE SeqSelect -----------------------------
(***************************************************************************)
(* The elements of a sequence that belong to a set, in their order: what    *)
(* std::erase_if leaves and what a loop that moves matching elements to     *)
(* another container collects.  (SelectSeq takes a predicate; the lemmas of *)
(* SeqSelectProofs need a set.)                                            *)
(***************************************************************************)
EXTENDS Naturals, Sequences

Select(s, S) ==
    LET pick[i \in 0 .. Len(s)] ==
            IF i = 0 THEN <<>>
            ELSE IF s[i] \in S THEN Append(pick[i - 1], s[i])
                 ELSE pick[i - 1]
    IN  pick[Len(s)]
=============================================================================
