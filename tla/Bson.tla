-------------------------------- MODULE Bson --------------------------------
(***************************************************************************)
(* The BSON library of bson/bson: the builder (bson.c 604-1040), its text   *)
(* checks (encoding.c) and the iterator over a finished document (bson.c    *)
(* 296-596). A document is the sequence of its bytes; a text is a sequence  *)
(* of bytes without the closing 0, which the operators add. A 64-bit value  *)
(* is its eight bytes. Unset stands for a byte that was allocated and never *)
(* written. Constants: IntMax for INT_MAX, StackCells for the 32 cells of   *)
(* the builder's own stack; both are small in a run so that the code gets   *)
(* there.                                                                   *)
(* Builder drives these operators as a caller may; Dialog as bson_parser.cpp *)
(* and CBson.cpp do.                                                        *)
(***************************************************************************)
EXTENDS Integers, SequencesExt, FiniteSetsExt

CONSTANTS IntMax, StackCells, Unset

--------------------------------------------------------------------------------
\* Words and text

T == [eoo |-> 0, double |-> 1, string |-> 2, object |-> 3, array |-> 4, bindata |-> 5,
      undefined |-> 6, oid |-> 7, bool |-> 8, date |-> 9, null |-> 10, regex |-> 11,
      dbref |-> 12, code |-> 13, symbol |-> 14, codewscope |-> 15, int |-> 16,
      timestamp |-> 17, long |-> 18]

BinaryOld == 2

\* The little-endian bytes of a 32-bit int, and back.
Word(i) == << i % 256, (i \div 256) % 256, (i \div 65536) % 256, (i \div 16777216) % 256 >>

UnWord(w) == w[1] + 256 * w[2] + 65536 * w[3]
             + 16777216 * (IF w[4] >= 128 THEN w[4] - 256 ELSE w[4])

bson_swap_endian32(w) == Reverse(w)

\* A 64-bit integer whose value an int holds.
Long(i) == Word(i) \o (IF i < 0 THEN << 255, 255, 255, 255 >> ELSE << 0, 0, 0, 0 >>)

\* A double with an integral value, abstracted to that value and four further bytes.
Double(i) == Word(i) \o << 0, 0, 240, 63 >>

trailingBytesForUTF8(c) ==
  CASE c < 192 -> 0 [] c \in 192..223 -> 1 [] c \in 224..239 -> 2
    [] c \in 240..247 -> 3 [] c \in 248..251 -> 4 [] OTHER -> 5

isLegalUTF8(s) ==
  /\ Len(s) <= 4
  /\ \A i \in 3..Len(s) : s[i] \in 128..191
  /\ Len(s) >= 2 => /\ s[2] <= 191
                    /\ CASE s[1] = 224 -> s[2] >= 160
                         [] s[1] = 240 -> s[2] >= 144
                         [] s[1] = 244 -> s[2] <= 143
                         [] OTHER -> s[2] >= 128
  /\ s[1] \notin 128..193
  /\ s[1] <= 244

bson_string_is_db_ref(s) ==
  \/ Len(s) >= 4 /\ SubSeq(s, 2, 4) = << 114, 101, 102 >>
  \/ Len(s) = 3 /\ SubSeq(s, 2, 3) \in { << 105, 100 >>, << 100, 98 >> }

\* One character more: where the search is behind it, and what was wrong so far. One that
\* is not UTF-8 ends the search.
Turned(s, dot, t) ==
  LET n == trailingBytesForUTF8(s[t.at]) + 1
      seen == t.wrong \union IF dot /\ s[t.at] = 46 THEN {"FIELD_HAS_DOT"} ELSE {}
  IN IF t.at > Len(s) \/ "NOT_UTF8" \in t.wrong THEN t
     ELSE IF t.at + n - 1 <= Len(s) /\ isLegalUTF8(SubSeq(s, t.at, t.at + n - 1))
     THEN [at |-> t.at + n, wrong |-> seen]
     ELSE [t EXCEPT !.wrong = seen \union {"NOT_UTF8"}]

\* What is wrong with the text s.
Wrongs(s, dot) ==
  LET turn[k \in 0..Len(s)] ==
        IF k = 0 THEN [at |-> 1, wrong |-> {}] ELSE Turned(s, dot, turn[k - 1])
  IN turn[Len(s)].wrong

Noted(b, wrong) == [b EXCEPT !.err = @ \union wrong, !.ok = "NOT_UTF8" \notin wrong]

bson_validate_string(b, s, dot) == Noted(b, Wrongs(s, dot))

bson_check_string(b, s) == bson_validate_string(b, s, FALSE)

bson_check_field_name(b, s) ==
  LET dollar == s # << >> /\ s[1] = 36 /\ ~bson_string_is_db_ref(s)
  IN bson_validate_string([b EXCEPT !.err = @ \union IF dollar THEN {"FIELD_INIT_DOLLAR"} ELSE {}],
                          s, TRUE)

--------------------------------------------------------------------------------
\* The builder. data holds what was written, the four size bytes first; back is how far
\* the write position (cur) lies before its end: not at all while a document is built;
\* all of it where cur is NULL. ok is what the last call returned; dead stands for the
\* end of the process.

bson_init_size(n) ==
  [data |-> << Unset, Unset, Unset, Unset >>, back |-> 0, dataSize |-> n, ownsData |-> TRUE,
   finished |-> FALSE, stack |-> << >>, stackSize |-> 0, err |-> {}, ok |-> TRUE,
   dead |-> FALSE]

bson_fatal_msg(b) == [b EXCEPT !.dead = TRUE, !.ok = FALSE]

bson_size(b) == IF b.data = << >> THEN 0
                ELSE IF Unset \in { b.data[i] : i \in 1..4 } THEN Unset
                ELSE UnWord(b.data)

bson_destroy(b) ==
  [b EXCEPT !.data = << >>, !.back = 0, !.dataSize = 0, !.ownsData = FALSE, !.stack = << >>,
            !.stackSize = 0, !.err = {}, !.finished = TRUE, !.ok = TRUE]

\* A finished document taken over without a copy, where cur stays NULL, and with one,
\* where it stays behind the size bytes.
bson_init_finished_data(d, owns) ==
  [bson_init_size(0) EXCEPT !.data = SubSeq(d, 1, UnWord(d)), !.back = UnWord(d),
                            !.dataSize = UnWord(d), !.ownsData = owns,
                            !.finished = TRUE]

bson_init_finished_data_with_copy(d) ==
  [bson_init_size(UnWord(d)) EXCEPT !.data = SubSeq(d, 1, UnWord(d)),
                                    !.back = UnWord(d) - 4, !.finished = TRUE]

bson_position(b) == Len(b.data) - b.back

bson_append_grow_stack(b) ==
  [b EXCEPT !.stackSize = IF @ = 0 THEN StackCells ELSE 2 * @]

\* The position of NULL is beyond every room.
bson_ensure_space(b, n) ==
  LET pos == bson_position(b)
      sum == b.dataSize + n
      wanted == (3 * sum) \div 2
  IN IF pos # 0 /\ pos + n <= b.dataSize THEN [b EXCEPT !.ok = TRUE]
     ELSE IF wanted > IntMax /\ sum >= IntMax
     THEN [b EXCEPT !.err = {"SIZE_OVERFLOW"}, !.ok = FALSE]
     ELSE IF ~b.ownsData THEN [b EXCEPT !.err = {"DOES_NOT_OWN_DATA"}, !.ok = FALSE]
     ELSE [b EXCEPT !.dataSize = Min({wanted, IntMax}), !.ok = TRUE]

\* What lies behind the write position is overwritten; a write through NULL ends the
\* process.
Overwritten(b, bytes) ==
  LET pos == bson_position(b)
  IN IF pos = 0 THEN [b EXCEPT !.dead = TRUE, !.ok = FALSE]
     ELSE [b EXCEPT !.data = SubSeq(@, 1, pos) \o bytes \o SubSeq(@, pos + Len(bytes) + 1, Len(@)),
                    !.back = Max({0, @ - Len(bytes)}), !.ok = TRUE]

bson_append(b, bytes) ==
  IF b.back = 0 THEN [b EXCEPT !.data = @ \o bytes, !.ok = TRUE] ELSE Overwritten(b, bytes)

\* The bytes behind a step, if it was not refused.
Followed(b, bytes) == IF b.ok THEN bson_append(b, bytes) ELSE b

\* Mutant of bson_append_estart: reserves no byte for the type.
bson_append_estartShort(b, type, name, n) ==
  LET e == bson_ensure_space(b, Len(name) + 1 + n)
      c == bson_check_field_name(e, name)
  IN IF ~e.ok THEN e
     ELSE IF ~c.ok THEN c
     ELSE bson_append(c, << type >> \o name \o << 0 >>)

bson_append_estart(b, type, name, n) ==
  IF b.finished THEN [b EXCEPT !.err = @ \union {"ALREADY_FINISHED"}, !.ok = FALSE]
  ELSE LET e == bson_ensure_space(b, Len(name) + 2 + n)
           c == bson_check_field_name(e, name)
       IN IF ~e.ok THEN e ELSE Followed(c, << type >> \o name \o << 0 >>)

\* The shape of nearly every append: the head of the element, then its value.
Appended(b, type, name, bytes) ==
  Followed(bson_append_estart(b, type, name, Len(bytes)), bytes)

bson_append_int(b, name, i) == Appended(b, T.int, name, Word(i))

bson_append_long(b, name, eight) == Appended(b, T.long, name, eight)

bson_append_double(b, name, eight) == Appended(b, T.double, name, eight)

bson_append_bool(b, name, i) == Appended(b, T.bool, name, IF i # 0 THEN << 1 >> ELSE << 0 >>)

bson_append_null(b, name) == Appended(b, T.null, name, << >>)

bson_append_undefined(b, name) == Appended(b, T.undefined, name, << >>)

bson_append_string_base(b, name, s, type) ==
  LET c == bson_check_string(b, s)
  IN IF Len(s) + 1 > IntMax THEN [b EXCEPT !.err = {"SIZE_OVERFLOW"}, !.ok = FALSE]
     ELSE IF ~c.ok THEN c
     ELSE Appended(c, type, name, Word(Len(s) + 1) \o s \o << 0 >>)

bson_append_string(b, name, s) == bson_append_string_base(b, name, s, T.string)

bson_append_symbol(b, name, s) == bson_append_string_base(b, name, s, T.symbol)

bson_append_code(b, name, s) == bson_append_string_base(b, name, s, T.code)

bson_append_code_w_scope(b, name, code, scope) ==
  LET size == 9 + Len(code) + bson_size(scope)
  IN IF size > IntMax THEN [b EXCEPT !.err = {"SIZE_OVERFLOW"}, !.ok = FALSE]
     ELSE Appended(b, T.codewscope, name,
                   Word(size) \o Word(Len(code) + 1) \o code \o << 0 >> \o scope.data)

\* Mutant of bson_append_binary: the outer count of the old type leaves the inner one out.
bson_append_binaryShort(b, name, type, bytes) ==
  Appended(b, T.bindata, name,
           IF type = BinaryOld
           THEN Word(Len(bytes)) \o << type >> \o Word(Len(bytes)) \o bytes
           ELSE Word(Len(bytes)) \o << type >> \o bytes)

bson_append_binary(b, name, type, bytes) ==
  Appended(b, T.bindata, name,
           IF type = BinaryOld
           THEN Word(Len(bytes) + 4) \o << type >> \o Word(Len(bytes)) \o bytes
           ELSE Word(Len(bytes)) \o << type >> \o bytes)

bson_oid_gen(time, fuzz, incr) ==
  bson_swap_endian32(Word(time)) \o Word(fuzz) \o bson_swap_endian32(Word(incr))

bson_append_oid(b, name, oid) == Appended(b, T.oid, name, oid)

\* The pattern is checked when the head of the element is already there.
bson_append_regex(b, name, pattern, opts) ==
  LET e == bson_append_estart(b, T.regex, name, Len(pattern) + Len(opts) + 2)
      c == bson_check_string(e, pattern)
  IN IF ~e.ok THEN e ELSE Followed(c, pattern \o << 0 >> \o opts \o << 0 >>)

bson_append_bson(b, name, sub) == Appended(b, T.object, name, sub.data)

bson_append_timestamp(b, name, time, increment) ==
  Appended(b, T.timestamp, name, Word(increment) \o Word(time))

bson_append_date(b, name, eight) == Appended(b, T.date, name, eight)

\* Five bytes are reserved, four are written: the fifth is the closing 0.
Opened(e) ==
  LET g == IF Len(e.stack) >= e.stackSize THEN bson_append_grow_stack(e) ELSE e
  IN IF ~e.ok THEN e
     ELSE bson_append([g EXCEPT !.stack = Append(@, Len(g.data))], Word(0))

OpenedAs(b, type, name) == Opened(bson_append_estart(b, type, name, 5))

bson_append_start_object(b, name) == OpenedAs(b, T.object, name)

bson_append_start_array(b, name) == OpenedAs(b, T.array, name)

\* The size of what was begun at start, written where it was left open.
Sized(b, start) ==
  [b EXCEPT !.data = SubSeq(@, 1, start) \o Word(Len(@) - start)
                     \o SubSeq(@, start + 5, Len(@)), !.ok = TRUE]

\* An unmatched call replaces the errors noted so far.
bson_append_finish_object(b) ==
  IF b.stack = << >> THEN [b EXCEPT !.err = {"NOT_IN_SUBOBJECT"}, !.ok = FALSE]
  ELSE LET e == bson_ensure_space(b, 1)
           start == Last(b.stack)
           c == [bson_append(e, << 0 >>) EXCEPT !.stack = Front(@)]
       IN IF ~e.ok THEN e
          ELSE IF Len(c.data) - start >= IntMax
          THEN [c EXCEPT !.err = {"SIZE_OVERFLOW"}, !.ok = FALSE]
          ELSE Sized(c, start)

bson_append_finish_array(b) == bson_append_finish_object(b)

bson_finish(b) ==
  IF "NOT_UTF8" \in b.err THEN [b EXCEPT !.ok = FALSE]
  ELSE IF b.finished THEN [b EXCEPT !.ok = TRUE]
  ELSE IF b.stack # << >> THEN bson_fatal_msg(b)
  ELSE LET e == bson_ensure_space(b, 1)
           c == bson_append(e, << 0 >>)
       IN IF ~e.ok THEN e
          ELSE IF Len(c.data) >= IntMax THEN [c EXCEPT !.err = {"SIZE_OVERFLOW"}, !.ok = FALSE]
          ELSE [Sized(c, 0) EXCEPT !.finished = TRUE]

--------------------------------------------------------------------------------
\* The iterator: a position in the bytes of a finished document. bson_iterator_next
\* goes to the first element when it is called first, so Start is that position.

Start(d) == 5

bson_iterator_type(d, p) == d[p]

\* The position of the 0 that closes the text at p.
TextEnd(d, p) == CHOOSE q \in p..Len(d) : d[q] = 0 /\ \A r \in p..q-1 : d[r] # 0

TextAt(d, p) == SubSeq(d, p, TextEnd(d, p) - 1)

bson_iterator_key(d, p) == TextAt(d, p + 1)

bson_iterator_value(d, p) == TextEnd(d, p + 1) + 1

IntAt(d, p) == UnWord(SubSeq(d, p, p + 3))

bson_iterator_int_raw(d, p) == IntAt(d, bson_iterator_value(d, p))

bson_iterator_long_raw(d, p) ==
  SubSeq(d, bson_iterator_value(d, p), bson_iterator_value(d, p) + 7)

bson_iterator_bool_raw(d, p) == d[bson_iterator_value(d, p)]

bson_iterator_oid(d, p) == SubSeq(d, bson_iterator_value(d, p), bson_iterator_value(d, p) + 11)

\* The bytes of a value by its type; any other type ends the program.
FixedSize ==
  [t \in {T.undefined, T.null, T.bool, T.int, T.oid, T.long, T.double, T.timestamp, T.date} |->
     CASE t \in {T.undefined, T.null} -> 0 [] t = T.bool -> 1 [] t = T.int -> 4
       [] t = T.oid -> 12 [] OTHER -> 8]

CountedSize ==
  [t \in {T.string, T.symbol, T.code, T.bindata, T.object, T.array, T.codewscope, T.dbref} |->
     CASE t \in {T.string, T.symbol, T.code} -> 4 [] t = T.bindata -> 5
       [] t \in {T.object, T.array, T.codewscope} -> 0 [] OTHER -> 16]

KnownType(t) == t \in DOMAIN FixedSize \union DOMAIN CountedSize \union {T.regex}

ValueSize(d, p) ==
  LET t == d[p]
      v == bson_iterator_value(d, p)
  IN CASE t \in DOMAIN FixedSize -> FixedSize[t]
       [] t \in DOMAIN CountedSize -> CountedSize[t] + bson_iterator_int_raw(d, p)
       [] t = T.regex -> TextEnd(d, TextEnd(d, v) + 1) + 1 - v

bson_iterator_next(d, p) ==
  IF d[p] = T.eoo THEN p ELSE bson_iterator_value(d, p) + ValueSize(d, p)

\* Conversions. A double stands for its integral value, so all of them are ints; a
\* 64-bit value keeps its low half.
Numeric(d, p) == d[p] \in {T.int, T.long, T.double}

bson_iterator_int(d, p) == IF Numeric(d, p) THEN bson_iterator_int_raw(d, p) ELSE 0

bson_iterator_long(d, p) ==
  CASE d[p] = T.long -> bson_iterator_long_raw(d, p)
    [] d[p] \in {T.int, T.double} -> Long(bson_iterator_int_raw(d, p))
    [] OTHER -> Long(0)

bson_iterator_double(d, p) ==
  IF d[p] = T.double THEN bson_iterator_long_raw(d, p) ELSE Double(bson_iterator_int(d, p))

bson_iterator_bool(d, p) ==
  CASE d[p] = T.bool -> bson_iterator_bool_raw(d, p) # 0
    [] d[p] = T.long -> bson_iterator_long_raw(d, p) # Long(0)
    [] d[p] \in {T.int, T.double} -> bson_iterator_int_raw(d, p) # 0
    [] OTHER -> d[p] \notin {T.eoo, T.null}

bson_iterator_string(d, p) ==
  IF d[p] \in {T.string, T.symbol} THEN TextAt(d, bson_iterator_value(d, p) + 4) ELSE << >>

bson_iterator_date(d, p) == bson_iterator_long_raw(d, p)

bson_iterator_bin_type(d, p) == d[bson_iterator_value(d, p) + 4]

bson_iterator_bin_len(d, p) ==
  bson_iterator_int_raw(d, p) - (IF bson_iterator_bin_type(d, p) = BinaryOld THEN 4 ELSE 0)

bson_iterator_bin_data(d, p) ==
  LET from == bson_iterator_value(d, p)
              + (IF bson_iterator_bin_type(d, p) = BinaryOld THEN 9 ELSE 5)
  IN SubSeq(d, from, from + bson_iterator_bin_len(d, p) - 1)

bson_iterator_timestamp(d, p) ==
  [i |-> IntAt(d, bson_iterator_value(d, p)), t |-> IntAt(d, bson_iterator_value(d, p) + 4)]

bson_iterator_regex(d, p) == TextAt(d, bson_iterator_value(d, p))

bson_iterator_regex_opts(d, p) == TextAt(d, TextEnd(d, bson_iterator_value(d, p)) + 1)

bson_iterator_code(d, p) ==
  TextAt(d, bson_iterator_value(d, p) + (IF d[p] = T.codewscope THEN 8 ELSE 4))

bson_iterator_code_scope(d, p) ==
  LET v == bson_iterator_value(d, p)
      from == v + 8 + IntAt(d, v + 4)
  IN SubSeq(d, from, from + IntAt(d, from) - 1)

bson_iterator_subobject(d, p) ==
  LET v == bson_iterator_value(d, p)
  IN bson_init_finished_data_with_copy(SubSeq(d, v, Len(d)))

\* An element copied from another document, under its own name or a new one. With a
\* new name a refused head is not noticed: the value follows all the same.
OwnElement(b, d, p) ==
  LET element == SubSeq(d, p, bson_iterator_next(d, p) - 1)
      room == bson_ensure_space(b, Len(element))
  IN IF room.ok THEN bson_append(room, element) ELSE room

bson_append_element(b, name, d, p) ==
  LET value == SubSeq(d, bson_iterator_value(d, p), bson_iterator_next(d, p) - 1)
  IN bson_append(bson_append_estart(b, d[p], name, Len(value)), value)
================================================================================
