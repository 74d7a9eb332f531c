------------------------------- MODULE Builder -------------------------------
(***************************************************************************)
(* The BSON builder in the hands of a caller who ignores every result, as   *)
(* bson_parser.cpp and CBson.cpp do: the calls of bson.c in any order, up   *)
(* to MaxCalls of them, then bson_finish and a reader who walks the bytes.  *)
(* said is what the calls that returned BSON_OK were asked to put in, flat, *)
(* with a mark where a sub-object ends; slips is what went wrong on the way.*)
(***************************************************************************)
EXTENDS Bson

CONSTANTS Names, Texts, RoomSizes, MaxCalls

\* INT_MAX of a 32-bit int, which IntMax stands for.
GreatestInt == 127 * 16777216 + 16777215

\* The room a builder starts with holds at least the four size bytes (bson_init asks for
\* 128).
BuilderAssumption ==
  /\ IntMax \in 16..GreatestInt /\ StackCells \in Nat \ {0} /\ Unset \notin 0..255
  /\ RoomSizes # {} /\ RoomSizes \subseteq 4..IntMax
  /\ \A s \in Names \union Texts : s \in Seq(0..255)
  /\ MaxCalls \in Nat
ASSUME RoomAssumption == BuilderAssumption

VARIABLES build, said, slips, calls

builderVars == << build, said, slips, calls >>

\* A finished document of one int, the material of the calls that take a document.
SampleBytes == << 12, 0, 0, 0, 16, 115, 0, 7, 0, 0, 0, 0 >>

Sample == [bson_init_size(16) EXCEPT !.data = SampleBytes, !.finished = TRUE]

BuilderInit ==
  /\ build \in { bson_init_size(n) : n \in RoomSizes }
  /\ said = << >> /\ slips = {} /\ calls = 0

\* What a call adds to said when it is answered with BSON_OK.
Leaf(type, name, value) == << [type |-> type, name |-> name, value |-> value] >>

EndMark == Leaf(T.eoo, << >>, << >>)

\* A call that leaves the builder as b and was to put in the tokens.
Call(b, tokens, slip) ==
  /\ calls < MaxCalls /\ ~build.dead /\ build.data # << >>
  /\ build' = b
  /\ said' = IF b.ok THEN said \o tokens ELSE said
  /\ slips' = slips \union slip \union IF "SIZE_OVERFLOW" \in b.err THEN {"full"} ELSE {}
  /\ calls' = calls + 1

Put(b, type, name, value) == Call(b, Leaf(type, name, value), {})

PutInt(name) == Put(bson_append_int(build, name, -2), T.int, name, Word(-2))

PutString(s) ==
  \E type \in {T.string, T.symbol, T.code} :
    Put(CASE type = T.string -> bson_append_string(build, << 97 >>, s)
          [] type = T.symbol -> bson_append_symbol(build, << 97 >>, s)
          [] OTHER -> bson_append_code(build, << 97 >>, s),
        type, << 97 >>, Word(Len(s) + 1) \o s \o << 0 >>)

PutFixed ==
  \/ Put(bson_append_long(build, << 97 >>, Long(5)), T.long, << 97 >>, Long(5))
  \/ Put(bson_append_double(build, << 97 >>, Double(5)), T.double, << 97 >>, Double(5))
  \/ Put(bson_append_bool(build, << 97 >>, 3), T.bool, << 97 >>, << 1 >>)
  \/ Put(bson_append_null(build, << 97 >>), T.null, << 97 >>, << >>)
  \/ Put(bson_append_undefined(build, << 97 >>), T.undefined, << 97 >>, << >>)
  \/ Put(bson_append_timestamp(build, << 97 >>, 1, 2), T.timestamp, << 97 >>, Word(2) \o Word(1))
  \/ Put(bson_append_date(build, << 97 >>, Long(9)), T.date, << 97 >>, Long(9))
  \/ Put(bson_append_oid(build, << 97 >>, bson_oid_gen(1, 2, 3)), T.oid, << 97 >>,
         << 0, 0, 0, 1, 2, 0, 0, 0, 0, 0, 0, 3 >>)

PutBinary ==
  \/ Put(bson_append_binary(build, << 97 >>, 0, << 0, 9 >>), T.bindata, << 97 >>, << 0, 9 >>)
  \/ Put(bson_append_binary(build, << 97 >>, BinaryOld, << 0, 9 >>), T.bindata, << 97 >>,
         << 0, 9 >>)

PutRegex(s) ==
  LET b == bson_append_regex(build, << 97 >>, s, << 105 >>)
  IN Call(b, Leaf(T.regex, << 97 >>, s \o << 0, 105, 0 >>),
          IF ~b.ok /\ Len(b.data) > Len(build.data) THEN {"half"} ELSE {})

PutScoped ==
  Put(bson_append_code_w_scope(build, << 97 >>, << 98 >>, Sample), T.codewscope, << 97 >>,
      << 98 >> \o Sample.data)

\* A sub-document arrives whole: its elements and the mark of its end.
PutBson ==
  Call(bson_append_bson(build, << 97 >>, Sample),
       Leaf(T.object, << 97 >>, << >>) \o Leaf(T.int, << 115 >>, Word(7)) \o EndMark, {})

PutElement(name) ==
  LET head == bson_append_estart(build, T.int, name, 4)
  IN /\ Call(bson_append_element(build, name, Sample.data, Start(Sample.data)),
             Leaf(T.int, name, Word(7)), IF head.ok THEN {} ELSE {"headless"})

PutOwnElement ==
  Call(OwnElement(build, Sample.data, Start(Sample.data)), Leaf(T.int, << 115 >>, Word(7)),
       IF build.finished THEN {"behind"} ELSE {})

OpenSub ==
  \/ Put(bson_append_start_object(build, << 97 >>), T.object, << 97 >>, << >>)
  \/ Put(bson_append_start_array(build, << 97 >>), T.array, << 97 >>, << >>)

CloseSub ==
  Call(bson_append_finish_object(build), EndMark,
       IF build.stack = << >> THEN {"unmatched"} ELSE {})

\* A finished document is taken over, with a copy (bson_copy) or without. Its write
\* position is no longer behind its last element.
Copy ==
  /\ build.finished /\ build.data # << >> /\ build.ok
  /\ calls < MaxCalls
  /\ \/ build' = bson_init_finished_data_with_copy(build.data)
     \/ build' = bson_init_finished_data(build.data, FALSE)
  /\ calls' = calls + 1
  /\ slips' = slips \union {"copied"}
  /\ UNCHANGED said

Finish ==
  /\ ~build.dead
  /\ build' = bson_finish(build)
  /\ slips' = slips \union IF build'.ok /\ ~build.finished THEN {"finished"} ELSE {}
  /\ UNCHANGED << said, calls >>

Destroy ==
  /\ ~build.dead
  /\ build' = bson_destroy(build)
  /\ said' = << >> /\ slips' = {}
  /\ UNCHANGED calls

BuilderNext ==
  \/ \E name \in Names : PutInt(name) \/ PutElement(name)
  \/ \E s \in Texts : PutString(s) \/ PutRegex(s)
  \/ PutFixed \/ PutBinary \/ PutScoped \/ PutBson \/ PutOwnElement
  \/ OpenSub \/ CloseSub \/ Copy \/ Finish \/ Destroy

BuilderSpec == BuilderInit /\ [][BuilderNext]_builderVars

--------------------------------------------------------------------------------
\* The builder never writes beyond what it allocated, and its stack of open sub-objects
\* holds places inside the document, unless an element is copied in behind a head that
\* was refused: bson_append_element (bson.c 968) does not look at what
\* bson_append_estart returns.
BuilderTypeOK ==
  /\ build.dataSize \in 0..IntMax
  /\ build.err \subseteq {"FIELD_HAS_DOT", "FIELD_INIT_DOLLAR", "NOT_UTF8", "ALREADY_FINISHED", "NOT_IN_SUBOBJECT",
                          "SIZE_OVERFLOW", "DOES_NOT_OWN_DATA"}
  /\ Len(build.stack) <= build.stackSize
  /\ \A i \in 1..Len(build.stack) : build.stack[i] + 4 <= Len(build.data)
  /\ slips \subseteq {"half", "headless", "behind", "unmatched", "full", "copied", "finished"}
  /\ "headless" \notin slips => Len(build.data) <= build.dataSize

\* Half an element of a refused regular expression gets into a finished document only
\* when another refusal, an unmatched bson_append_finish_object or a lack of room,
\* replaced the note of the error in between (bson.c 1020 and 704 assign err, where the
\* checks add to it).
HalfIsCovered ==
  {"finished", "half"} \subseteq slips => slips \intersect {"unmatched", "full"} # {}

\* The builder keeps to its room and to its stack (bson.c 604-1040), and what it refused
\* does not get out unnoticed.
BuilderSafe == BuilderTypeOK /\ HalfIsCovered
================================================================================
