------------------------------ MODULE Documents ------------------------------
(***************************************************************************)
(* What a reader finds in the documents that a caller of the builder        *)
(* (Builder) makes: the tokens that the iterator of bson.c gives, and the   *)
(* reference for the check of texts. It holds the recursive definitions,    *)
(* which Builder does without.                                              *)
(***************************************************************************)
EXTENDS Builder

CONSTANTS Samples

\* A reader: the tokens of a document from position p on, and where it ended.

RECURSIVE Tokens(_, _)
Tokens(d, p) ==
  IF d[p] = T.eoo THEN << >>
  ELSE LET name == bson_iterator_key(d, p)
           type == bson_iterator_type(d, p)
           v == bson_iterator_value(d, p)
           value == CASE type = T.bindata -> bson_iterator_bin_data(d, p)
                      [] type = T.codewscope ->
                           bson_iterator_code(d, p) \o bson_iterator_code_scope(d, p)
                      [] type = T.regex -> bson_iterator_regex(d, p) \o << 0 >>
                                           \o bson_iterator_regex_opts(d, p) \o << 0 >>
                      [] type = T.int -> Word(bson_iterator_int(d, p))
                      [] type = T.bool -> << IF bson_iterator_bool(d, p) THEN 1 ELSE 0 >>
                      [] type = T.long -> bson_iterator_long(d, p)
                      [] type = T.double -> bson_iterator_double(d, p)
                      [] type = T.date -> bson_iterator_date(d, p)
                      [] type = T.oid -> bson_iterator_oid(d, p)
                      [] type = T.timestamp -> Word(bson_iterator_timestamp(d, p).i)
                                               \o Word(bson_iterator_timestamp(d, p).t)
                      [] type = T.string -> LET text == bson_iterator_string(d, p)
                                            IN Word(Len(text) + 1) \o text \o << 0 >>
                      [] type \in {T.object, T.array} -> << >>
                      [] OTHER -> SubSeq(d, v, bson_iterator_next(d, p) - 1)
           inner == CASE type = T.object -> Tokens(bson_iterator_subobject(d, p).data, 5) \o EndMark
                      [] type = T.array -> Tokens(d, v + 4) \o EndMark
                      [] OTHER -> << >>
       IN Leaf(type, name, value) \o inner \o Tokens(d, bson_iterator_next(d, p))

\* Unicode's own table of well-formed sequences, the reference for isLegalUTF8.
WellFormed(s) ==
  LET tail(from) == \A i \in from..Len(s) : s[i] \in 128..191
  IN \/ Len(s) = 1 /\ s[1] <= 127
     \/ Len(s) = 2 /\ s[1] \in 194..223 /\ tail(2)
     \/ Len(s) = 3 /\ tail(3)
        /\ s[2] \in (CASE s[1] = 224 -> 160..191 [] s[1] = 237 -> 128..159
                       [] s[1] \in (225..239) -> 128..191 [] OTHER -> {})
     \/ Len(s) = 4 /\ tail(3)
        /\ s[2] \in (CASE s[1] = 240 -> 144..191 [] s[1] = 244 -> 128..143
                       [] s[1] \in 241..243 -> 128..191 [] OTHER -> {})

--------------------------------------------------------------------------------
\* Two holes of isLegalUTF8 (encoding.c 70-102): a surrogate half (lead 237) and a
\* second byte below 128 behind lead 244 pass.
Hole(s) == \/ Len(s) = 3 /\ s[1] = 237 /\ s[2] \in 160..191 /\ s[3] \in 128..191
           \/ Len(s) = 4 /\ s[1] = 244 /\ s[2] < 128 /\ \A i \in {3, 4} : s[i] \in 128..191

RECURSIVE MadeOfPieces(_)
MadeOfPieces(s) ==
  s = << >> \/ \E n \in 1..Min({4, Len(s)}) :
                /\ WellFormed(SubSeq(s, 1, n)) \/ Hole(SubSeq(s, 1, n))
                /\ MadeOfPieces(SubSeq(s, n + 1, Len(s)))

\* A text is let in exactly if it is well-formed UTF-8, but for these holes.
TextIsChecked == \A s \in Samples : bson_check_string(build, s).ok <=> MadeOfPieces(s)

\* What a reader finds in a finished document is what the accepted calls put in.
ReadsBack ==
  /\ calls = 0 => TextIsChecked
  /\ "finished" \in slips /\ slips \intersect {"half", "headless", "behind"} = {}
       => Tokens(build.data, Start(build.data)) = said
================================================================================
