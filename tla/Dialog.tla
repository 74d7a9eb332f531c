-------------------------------- MODULE Dialog --------------------------------
(***************************************************************************)
(* One request and its answer, from the program that makes the request to   *)
(* the one that reads the answer: the two object layers over the BSON       *)
(* library (bson_parser.cpp in the server, CBson.cpp and CBsonObject.cpp in *)
(* the test client), the frame and its cipher (bson_buffer.cpp and the test *)
(* client's own sendData), ServletDispatch::dispatchMessage and two of the  *)
(* requests it hands on, RunInLobby and LoadRoles. A value is a record of   *)
(* one field named for its type; an object is a function from keys; a key   *)
(* of the protocol is its first letter.                                     *)
(***************************************************************************)
EXTENDS Bson, Bitwise

CONSTANTS MaxFrame, Nicks, MaxGets

Command == << 67 >>     Token == << 84 >>     Body == << 66 >>      Name == << 78 >>
KeyX == << 88 >>        KeyY == << 89 >>      Id == << 73 >>        Roles == << 82 >>
Walk == << 87 >>        Load == << 76 >>      Hello == << 72 >>
OtherWalk == << 79 >>   UserId == << 85 >>

Nothing == << >>        \* the object with no key

Kind(v) == CHOOSE k \in DOMAIN v : TRUE

KeysInOrder(o) == SetToSortSeq(DOMAIN o, LAMBDA a, b : a[1] < b[1])

--------------------------------------------------------------------------------
\* bson_parser.cpp: the server's objects. A value that was never set is bool false.

Default == [bool |-> FALSE]

\* setIntVal and its sisters insert: a key that is there keeps its value.
SetVal(o, key, v) == IF key \in DOMAIN o THEN o ELSE key :> v @@ o

\* getIntVal and its sisters: a missing key has the default of the type, a value of
\* another type is thrown.
Throws(o, key, kind) == key \in DOMAIN o /\ kind \notin DOMAIN o[key]

GetVal(o, key, kind, default) ==
  IF key \in DOMAIN o /\ ~Throws(o, key, kind) THEN o[key][kind] ELSE default

RECURSIVE serializeValue(_, _, _)
serializeValue(b, key, v) ==
  CASE "double" \in DOMAIN v -> bson_append_double(b, key, v.double)
    [] "int" \in DOMAIN v -> bson_append_int(b, key, v.int)
    [] "bool" \in DOMAIN v -> bson_append_bool(b, key, IF v.bool THEN 1 ELSE 0)
    [] "string" \in DOMAIN v -> bson_append_string(b, key, v.string)
    [] "date" \in DOMAIN v -> bson_append_date(b, key, v.date)
    [] "object" \in DOMAIN v ->
         bson_append_finish_object(
           FoldLeft(LAMBDA c, k : serializeValue(c, k, v.object[k]),
                    bson_append_start_object(b, key), KeysInOrder(v.object)))
    [] "array" \in DOMAIN v ->
         bson_append_finish_array(
           FoldLeft(LAMBDA c, w : serializeValue(c, << >>, w),
                    bson_append_start_array(b, key), v.array))
    [] OTHER -> b

\* The finished builder; bson_finish's result is not looked at.
Serialized(o) ==
  bson_finish(FoldLeft(LAMBDA b, k : serializeValue(b, k, o[k]), bson_init_size(128),
                       KeysInOrder(o)))

\* What may get into the buffer: all, or nothing when it is too long; with an unset
\* size whichever the value found there leads to.
serializeToBuffer(o) ==
  LET b == Serialized(o)
  IN CASE bson_size(b) = Unset -> {<< >>, b.data}
       [] bson_size(b) # Unset /\ bson_size(b) >= MaxFrame -> {<< >>}
       [] OTHER -> {b.data}

\* Where a walk from position p ends: at a closing 0, in the exit of an unknown type,
\* or beyond the bytes that were received.
RECURSIVE Walkable(_, _)
Walkable(d, p) ==
  IF p \notin 1..Len(d) \/ Unset \in { d[i] : i \in p..Len(d) } THEN "beyond"
  ELSE IF d[p] = T.eoo THEN "ends"
  ELSE IF \A q \in p + 1..Len(d) : d[q] # 0 THEN "beyond"
  ELSE IF ~KnownType(d[p]) THEN "exit"
  ELSE LET v == bson_iterator_value(d, p)
           counted == d[p] \in DOMAIN CountedSize
           inside == IF d[p] = T.object /\ v + 4 <= Len(d) THEN Walkable(d, v + 4) ELSE "ends"
       IN IF \/ counted /\ (v + 3 > Len(d) \/ IntAt(d, v) \notin 0..Len(d))
             \/ d[p] = T.regex /\ Cardinality({ q \in v..Len(d) : d[q] = 0 }) < 2
          THEN "beyond"
          ELSE IF inside # "ends" THEN inside
          ELSE Walkable(d, bson_iterator_next(d, p))

\* parse and parseValue: the first value of a key stays; a bool_t is an int and an
\* int64_t a date. The iterator over an array is never set, so an array's elements
\* cannot be said.
RECURSIVE parse(_, _)
parseValue(d, p) ==
  CASE d[p] = T.double -> [double |-> bson_iterator_double(d, p)]
    [] d[p] = T.int -> [int |-> bson_iterator_int(d, p)]
    [] d[p] = T.long -> [date |-> bson_iterator_long(d, p)]
    [] d[p] = T.bool -> [int |-> IF bson_iterator_bool(d, p) THEN 1 ELSE 0]
    [] d[p] = T.string -> [string |-> bson_iterator_string(d, p)]
    [] d[p] = T.date -> [date |-> bson_iterator_date(d, p)]
    [] d[p] = T.object -> [object |-> parse(d, bson_iterator_value(d, p) + 4)]
    [] d[p] = T.array -> [array |-> << >>]
    [] OTHER -> Default

parse(d, p) ==
  IF d[p] = T.eoo THEN Nothing
  ELSE bson_iterator_key(d, p) :> parseValue(d, p) @@ parse(d, bson_iterator_next(d, p))

RECURSIVE HasArray(_)
HasArray(o) == \E k \in DOMAIN o : \/ "array" \in DOMAIN o[k]
                                   \/ "object" \in DOMAIN o[k] /\ HasArray(o[k].object)

--------------------------------------------------------------------------------
\* CBson.cpp and CBsonObject.cpp: the test client's objects.

\* setElementValue assigns: the last value of a key stays.
setElementValue(o, key, v) == key :> v @@ o

RECURSIVE save_value(_, _, _)
save_value(b, key, v) ==
  CASE "binary" \in DOMAIN v -> bson_append_binary(b, key, 0, v.binary)
    [] "null" \in DOMAIN v -> bson_append_null(b, key)
    [] "object" \in DOMAIN v ->
         bson_append_finish_object(
           FoldLeft(LAMBDA c, k : save_value(c, k, v.object[k]),
                    bson_append_start_object(b, key), KeysInOrder(v.object)))
    [] "array" \in DOMAIN v ->
         bson_append_finish_array(
           FoldLeft(LAMBDA c, w : save_value(c, << >>, w),
                    bson_append_start_array(b, key), v.array))
    [] OTHER -> serializeValue(b, key, v)

Saved(o) ==
  bson_finish(FoldLeft(LAMBDA b, k : save_value(b, k, o[k]), bson_init_size(128),
                       KeysInOrder(o))).data

\* A 64-bit value is put into the int of the union; arrays are read as they are; the
\* last value of a key stays.
RECURSIVE parse_dict(_, _)
RECURSIVE parse_list(_, _)
parse_value(d, p) ==
  CASE d[p] = T.long -> [long |-> bson_iterator_int(d, p)]
    [] d[p] = T.bool -> [bool |-> bson_iterator_bool(d, p)]
    [] d[p] = T.null -> [null |-> 0]
    [] d[p] = T.bindata -> [binary |-> bson_iterator_bin_data(d, p)]
    [] d[p] = T.object -> [object |-> parse_dict(d, bson_iterator_value(d, p) + 4)]
    [] d[p] = T.array -> [array |-> parse_list(d, bson_iterator_value(d, p) + 4)]
    [] OTHER -> parseValue(d, p)

parse_dict(d, p) ==
  IF d[p] = T.eoo THEN Nothing
  ELSE parse_dict(d, bson_iterator_next(d, p)) @@ bson_iterator_key(d, p) :> parse_value(d, p)

parse_list(d, p) ==
  IF d[p] = T.eoo THEN << >>
  ELSE << parse_value(d, p) >> \o parse_list(d, bson_iterator_next(d, p))

\* getElementValue looks a key up with operator[]: a missing key is there afterwards,
\* without a value and under the address of a string that is gone.
Probed == [dangling |-> 0]

getElementValue(o, key) == IF key \in DOMAIN o THEN o ELSE key :> Probed @@ o

isExist(o, key) == key \in DOMAIN o

\* Getters that look whether there is an element before they read it.
Careful == {"int", "string", "object"}

\* A getter's answer: the value; the default; what the union holds of another type; or
\* the crash of a getter that reads through NULL.
GetOf(o, key, kind) ==
  LET missing == key \notin DOMAIN o \/ o[key] = Probed
  IN CASE missing -> IF kind \in Careful THEN "default" ELSE "crash"
       [] ~missing /\ kind \in DOMAIN o[key] -> "value"
       [] ~missing /\ kind \notin DOMAIN o[key] /\ kind \in {"object", "array"} -> "default"
       [] OTHER -> "another"

\* createNew first destroys the object it had, element by element.
createNew(o) == IF Probed \in { o[k] : k \in DOMAIN o } THEN "crash" ELSE "new"

--------------------------------------------------------------------------------
\* bson_buffer.cpp and the test client's sendData: ten bytes of head, of which the
\* version and the size matter, and the body under a key of version and size.

Version == 1256

SyncWord == 1886222456          \* "xxmp" as a little-endian int

HeadSize == 10

Cipher(body, srand) ==
  [i \in 1..Len(body) |->
     IF body[i] = Unset THEN Unset ELSE body[i] ^^ Word(srand)[((i - 1) % 4) + 1]]

\* Mutant of Framed: the key is made of the size of the whole frame.
FramedWhole(body) ==
  [version |-> Version, size |-> Len(body),
   body |-> Cipher(body, (SyncWord % Version) * (Len(body) + HeadSize))]

\* BsonBuffer::serializeToBuffer, as far as the frame fits into m_buffer
Framed(body) ==
  [version |-> Version, size |-> Len(body),
   body |-> Cipher(body, (SyncWord % Version) * Len(body))]

\* serializeToBuffer leaves out the head when it compares with the buffer's size, and
\* copyIn compares nothing: a body of the last ten sizes goes beyond m_buffer.
Overruns(body) == Len(body) + HeadSize > MaxFrame

\* The bytes beyond are those of whatever else lies there.
Overrun(frame) ==
  [frame EXCEPT !.body = [i \in DOMAIN @ |-> IF i + HeadSize <= MaxFrame THEN @[i] ELSE Unset]]

\* The frame written: such a one may also come out with another end.
FramesWritten(body) ==
  {Framed(body)} \union IF Overruns(body) THEN {Overrun(Framed(body))} ELSE {}

\* sendData takes the version for its key after htons has swapped its bytes.
sendData(body) ==
  LET swapped == (Version % 256) * 256 + Version \div 256
  IN [version |-> Version, size |-> Len(body),
      body |-> Cipher(body, (SyncWord % swapped) * Len(body))]

\* BsonBuffer::parseFromBuffer, for a frame that is all there
Deciphered(frame) == Cipher(frame.body, (SyncWord % frame.version) * frame.size)

--------------------------------------------------------------------------------
VARIABLE talk

(* phase: "asking", "sent", "read", "answered", "heard" or an end: "overrun" is that  *)
(* of a program that wrote beyond a buffer, "refused" a frame too long to be received,*)
(* "null" the server's in a handler; way: which layer                                 *)
(* the client uses; draft and inner: its object and the one it makes for the body;    *)
(* request and answer: the server's; heard: what the client read.                     *)

DialogInit ==
  talk \in { [phase |-> "asking", way |-> w, draft |-> Nothing, inner |-> Nothing,
              frame |-> Framed(<< >>), request |-> Nothing, answer |-> Nothing,
              heard |-> Nothing, gets |-> 0] : w \in {"bson_parser", "CBson"} }

Set(o, key, v) == IF talk.way = "CBson" THEN setElementValue(o, key, v) ELSE SetVal(o, key, v)

SetHead ==
  /\ talk.phase = "asking"
  /\ \E f \in { << Command, [string |-> Walk] >>, << Command, [string |-> Load] >>,
                << Command, [string |-> Hello] >>, << Command, [int |-> 1] >>,
                << Token, [string |-> << 116 >>] >>, << Token, [bool |-> TRUE] >>,
                << Body, [int |-> 1] >> } :
       /\ f[1] \notin DOMAIN talk.draft
       /\ talk' = [talk EXCEPT !.draft = Set(@, f[1], f[2])]

\* setObjectValue of CBsonObject shares the object, setObjectVal copies it.
SetBody ==
  /\ talk.phase = "asking"
  /\ talk' = [talk EXCEPT !.draft = Set(@, Body, [object |-> talk.inner])]

FillBody ==
  /\ talk.phase = "asking"
  /\ \E f \in { << KeyX, [double |-> Double(3)] >>, << KeyX, [int |-> 3] >>,
                << KeyY, [double |-> Double(4)] >>, << Name, [int |-> 5] >>,
                << UserId, [string |-> << 97 >>] >>, << Roles, [array |-> << [int |-> 1] >>] >>,
                << KeyY, [binary |-> << 0 >>] >> } :
       /\ f[1] \notin DOMAIN talk.inner
       /\ talk.way = "CBson" \/ "binary" \notin DOMAIN f[2]
       /\ LET inner == Set(talk.inner, f[1], f[2])
              shared == /\ talk.way = "CBson" /\ Body \in DOMAIN talk.draft
                        /\ "object" \in DOMAIN talk.draft[Body]
          IN talk' = [talk EXCEPT !.inner = inner,
                        !.draft = IF shared THEN Body :> [object |-> inner] @@ @ ELSE @]

\* sendData has a buffer of the frame's size.
Send ==
  /\ talk.phase = "asking"
  /\ \/ /\ talk.way = "CBson"
        /\ talk' = [talk EXCEPT !.phase = "sent", !.frame = sendData(Saved(talk.draft))]
     \/ /\ talk.way = "bson_parser"
        /\ \E body \in serializeToBuffer(talk.draft) :
             \/ \E frame \in FramesWritten(body) :
                  talk' = [talk EXCEPT !.phase = "sent", !.frame = frame]
             \/ Overruns(body) /\ talk' = [talk EXCEPT !.phase = "overrun"]

\* Buffer::add takes less than the buffer's size: a longer frame is never all there.
Refuse ==
  /\ talk.phase = "sent" /\ talk.frame.size + HeadSize >= MaxFrame
  /\ talk' = [talk EXCEPT !.phase = "refused"]

\* What a walk beyond the end, or over an array, does is not defined: the server ends
\* or goes on with some object, here an empty one or the one with an empty array.
parseFromBuffer ==
  /\ talk.phase = "sent" /\ talk.frame.size + HeadSize < MaxFrame
  /\ LET d == Deciphered(talk.frame)
         walk == Walkable(d, Start(d))
     IN \/ /\ walk # "ends"
           /\ talk' = [talk EXCEPT !.phase = "ended"]
        \/ /\ walk = "beyond"
           /\ talk' = [talk EXCEPT !.phase = "read"]
        \/ /\ walk = "ends"
           /\ talk' = [talk EXCEPT !.phase = "read", !.request = parse(d, Start(d))]
        \/ /\ walk = "ends" /\ HasArray(parse(d, Start(d)))
           /\ talk' = [talk EXCEPT !.phase = "ended"]

\* The part of dispatchMessage outside its try: a value of another type ends the server.
HeadThrows(r) ==
  \/ Throws(r, Command, "string")
  \/ Throws(r, Token, "string")
  \/ /\ GetVal(r, Command, "string", << >>) \in {Walk, Load}
     /\ \/ Throws(r, Body, "object")
        \/ Throws(GetVal(r, Body, "object", Nothing), Name, "string")

\* What the others on the scene are sent.
OthersSee(body) ==
  LET shown == SetVal(SetVal(SetVal(Nothing, Id, [int |-> 1]),
                             KeyX, [double |-> GetVal(body, KeyX, "double", Double(0))]),
                      KeyY, [double |-> GetVal(body, KeyY, "double", Double(0))])
  IN SetVal(SetVal(Nothing, Command, [string |-> OtherWalk]), Body, [object |-> shown])

\* A role's level, profession, state and days left, four more ints, are left out.
RolesShown(nicks) ==
  LET role(i) == SetVal(SetVal(Nothing, Id, [int |-> i]), Name, [string |-> nicks[i]])
      roles == [i \in DOMAIN nicks |-> [object |-> role(i)]]
      shown == SetVal(Nothing, Roles, [array |-> roles])
  IN SetVal(SetVal(Nothing, Command, [string |-> Load]), Body, [object |-> shown])

Unanswered(phase) == talk' = [talk EXCEPT !.phase = phase]

Answer(answer) ==
  \E body \in serializeToBuffer(answer) :
    \/ \E frame \in FramesWritten(body) :
         talk' = [talk EXCEPT !.phase = "answered", !.answer = answer, !.frame = frame]
    \/ /\ Overruns(body)
       /\ talk' = [talk EXCEPT !.phase = "overrun", !.answer = answer]

\* doAvatarWalk. The token may have no account and the account no current role; the
\* session may have no role, though another with its token has one; the role no scene.
AnswerWalk(body) ==
  LET throws == Throws(body, KeyX, "double") \/ Throws(body, KeyY, "double")
  IN \/ Unanswered("unanswered")
     \/ throws /\ Unanswered("thrown")
     \/ ~throws /\ Unanswered("null")
     \/ ~throws /\ Answer(OthersSee(body))

\* doLoadRoles shows the roles of whatever account UserId names; there may be none.
AnswerLoad(body) ==
  LET throws == Throws(body, UserId, "int")
  IN \/ throws /\ Unanswered("thrown")
     \/ ~throws /\ Unanswered("null")
     \/ /\ ~throws
        /\ \E nicks \in {<< >>} \union { << n >> : n \in Nicks } :
             Answer(RolesShown(nicks))

\* An exception inside doRequest is caught and the request is not answered.
dispatchMessage ==
  /\ talk.phase = "read"
  /\ LET r == talk.request
         command == GetVal(r, Command, "string", << >>)
         body == GetVal(r, Body, "object", Nothing)
     IN \/ /\ HeadThrows(r)
           /\ talk' = [talk EXCEPT !.phase = "ended"]
        \/ /\ ~HeadThrows(r) /\ command \notin {Walk, Load}
           /\ talk' = [talk EXCEPT !.phase = "unknown"]
        \/ ~HeadThrows(r) /\ command = Walk /\ AnswerWalk(body)
        \/ ~HeadThrows(r) /\ command = Load /\ AnswerLoad(body)

\* CBsonObject::parse of the deciphered answer.
ReadAnswer ==
  /\ talk.phase = "answered"
  /\ LET d == Deciphered(talk.frame)
     IN IF Walkable(d, Start(d)) # "ends"
        THEN talk' = [talk EXCEPT !.phase = "unread"]
        ELSE talk' = [talk EXCEPT !.phase = "heard", !.heard = parse_dict(d, Start(d))]

Get ==
  /\ talk.phase = "heard" /\ talk.gets < MaxGets
  /\ \E key \in {Command, Body, Token}, kind \in {"int", "string", "bool", "object"} :
       IF GetOf(talk.heard, key, kind) = "crash"
       THEN talk' = [talk EXCEPT !.phase = "crashed"]
       ELSE talk' = [talk EXCEPT !.heard = getElementValue(@, key), !.gets = @ + 1]

\* The client reuses its object for the next request.
Reuse ==
  /\ talk.phase = "heard"
  /\ talk' = [talk EXCEPT !.phase = IF createNew(talk.heard) = "crash" THEN "crashed" ELSE "done"]

DialogNext ==
  SetHead \/ SetBody \/ FillBody \/ Send \/ Refuse \/ parseFromBuffer \/ dispatchMessage
    \/ ReadAnswer \/ Get \/ Reuse

--------------------------------------------------------------------------------
DialogTypeOK ==
  /\ talk.phase \in {"asking", "sent", "read", "answered", "heard", "ended", "unknown",
                     "thrown", "unread", "crashed", "done", "overrun", "refused", "null",
                     "unanswered"}
  /\ talk.way \in {"bson_parser", "CBson"}
  /\ talk.gets \in 0..MaxGets

\* A request as the server should see it: a bool is read as an int, a binary not at all.
RECURSIVE Seen(_)
Seen(o) == [k \in DOMAIN o |-> CASE "object" \in DOMAIN o[k] -> [object |-> Seen(o[k].object)]
                                 [] "binary" \in DOMAIN o[k] -> Default
                                 [] "array" \in DOMAIN o[k] -> [array |-> << >>]
                                 [] "bool" \in DOMAIN o[k] -> [int |-> IF o[k].bool THEN 1 ELSE 0]
                                 [] OTHER -> o[k]]

\* An object that need not get through: a text of it is not UTF-8, and its size was
\* never written, or its frame is longer than there is room for.
Lost(o, room) ==
  LET size == bson_size(Serialized(o))
  IN IF size = Unset THEN TRUE ELSE size + HeadSize > room

\* The server reads what the client set through bson_parser.cpp, but for the bools that
\* become ints. It ends over such a request only if a field of the head has another type
\* than dispatchMessage expects, outside its try, or if the request holds an array.
RequestIsRead ==
  talk.way = "bson_parser" /\ ~Lost(talk.draft, MaxFrame - 1) =>
    /\ talk.phase = "read" => talk.request = Seen(talk.draft)
    /\ talk.phase = "ended" => HeadThrows(talk.draft) \/ HasArray(talk.draft)
    /\ talk.phase # "refused"
    /\ talk.phase = "overrun" => talk.answer # Nothing

\* Nothing that goes through the test client's sendData is read as it was sent: its
\* cipher takes the version in network order (client.cpp 127).
GarbledByVersion ==
  talk.way = "CBson" /\ talk.phase = "read" /\ talk.draft # Nothing
    => talk.request # Seen(talk.draft)

\* A client, the one that asked or, of a walk, another, reads the whole answer the server
\* set, unless it was lost on the way, and the server gets over sending it.
AnswerIsRead ==
  /\ talk.phase = "heard" /\ talk.gets = 0 => talk.heard = talk.answer
  /\ talk.phase = "unread" \/ (talk.phase = "overrun" /\ talk.answer # Nothing)
       => Lost(talk.answer, MaxFrame)

\* Reading a key that is missing leaves it in the object, without a value, for isExist
\* and for createNew to find.
ProbeStays ==
  talk.phase = "heard" =>
    \A k \in {Command, Body, Token} :
      isExist(talk.heard, k) /\ k \notin DOMAIN talk.answer => createNew(talk.heard) = "crash"

\* A request and its answer get through as they were set, but for what is said above.
DialogFaithful == RequestIsRead /\ GarbledByVersion /\ AnswerIsRead /\ ProbeStays
================================================================================
