---------------------------- MODULE MCDeepSearch ----------------------------
(* Two contexts and four names, one of them of 31 characters, with a digit. *)
EXTENDS DeepSearch

MCContext == <<"profession", "emotion">>
MCSettles == [w \in {"rust", "ada", "go", "c99", "profession", "emotion"} |-> IF w = "c99" THEN 2 ELSE 0]
MCVocabulary == [profession |-> {"rust", "ada", "go"}, emotion |-> {"rust", "c99"}]
=============================================================================
