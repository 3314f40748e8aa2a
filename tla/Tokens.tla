------------------------------- MODULE Tokens -------------------------------
(***************************************************************************)
(* The readers of src/src/common/util/parse_util.cpp.  A text is a sequence *)
(* of tokens as read_word and read_char cut it: <<"w", s>> is the word s,   *)
(* <<"w", v, k>> the word k=v of an argument list, <<c>> the character c.   *)
(***************************************************************************)
EXTENDS Sequences

read_char(in) == IF in = <<>> THEN "eof" ELSE in[1][1]

(* The word that is next, "" if a character is.                             *)
read_word(in) == IF read_char(in) = "w" THEN in[1][2] ELSE ""

Skip(in) == IF in = <<>> THEN in ELSE Tail(in)
SkipWord(in) == IF read_word(in) = "" THEN in ELSE Tail(in)

=============================================================================
