------------------------------- MODULE Messages -------------------------------
(***************************************************************************)
(* The protocol-buffer messages: warrior::Role, Item and SoulItem, in which *)
(* the server keeps a role, its items and its souls, and                    *)
(* peer::RegisterServer, with which a server reports itself. protoc         *)
(* unfolded one scheme into warrior.pb.cc and peer.pb.cc, field by field;   *)
(* here the scheme is stated once, over the list of a message's fields, and *)
(* each generated function is that scheme for its list. A message is the    *)
(* set of its fields that have a value, and the unknown fields it carries   *)
(* along as they came; the wire is a sequence of bytes. The runtime library *)
(* (varints, tags, skipping) is external and modelled as the code uses it.  *)
(* The server itself only sets and gets the fields (role.h, item.h,         *)
(* souls_bag.h), and peer/test.cpp writes them as text; reading and writing *)
(* the wire is what the classes promise to any program linked with them.    *)
(* The state machine has one program fill a message and write it, in one    *)
(* file or two behind each other, the wire lose its end, and another        *)
(* program read it, as the same message or another.                         *)
(***************************************************************************)
EXTENDS Integers, SequencesExt, FiniteSetsExt

CONSTANTS Pairs,        \* the messages written and read: a set of <<type, type>>
          Touched,      \* the numbers of the fields that are set one by one
          Ints, Strings, MaxSteps

Byte  == 0..255
MaxInt32 == 7 * 268435456 + 268435455
Int32 == (-MaxInt32 - 1)..MaxInt32
Text  == { s \in Seq(Byte) : Len(s) \in Int32 }

MessagesAssumption ==
  /\ Pairs # {} /\ Pairs \subseteq { "Role", "Item", "SoulItem", "RegisterServer" } \X
                                  { "Role", "Item", "SoulItem", "RegisterServer" }
  /\ Ints # {} /\ Ints \subseteq Int32
  /\ Strings # {} /\ \A s \in Strings : s \in Text
ASSUME WireAssumption == MessagesAssumption

--------------------------------------------------------------------------------
\* The fields.

Field(n, kind, label) == [number |-> n, kind |-> kind, required |-> label = "required"]

Role_role_id == Field(1, "int32", "required")
Role_profession == Field(2, "int32", "required")
Role_role_name == Field(3, "string", "required")
Role_gold == Field(4, "int32", "required")
Role_money == Field(5, "int32", "required")
Role_rmb == Field(6, "int32", "required")
Role_level == Field(7, "int32", "required")
Role_vip_level == Field(8, "int32", "required")
Role_exp == Field(9, "int32", "required")
Role_last_logout_time == Field(10, "int32", "optional")
Role_souls_value == Field(11, "int32", "optional")
Role_souls_index == Field(12, "int32", "optional")

Item_global_id == Field(1, "int32", "required")
Item_role_id == Field(2, "int32", "required")
Item_item_id == Field(3, "int32", "required")
Item_item_num == Field(4, "int32", "required")
Item_index == Field(5, "int32", "required")
Item_level == Field(6, "int32", "required")
Item_state == Field(7, "int32", "required")
Item_quality == Field(8, "int32", "optional")
Item_is_equip == Field(9, "int32", "optional")
Item_gems == Field(10, "string", "optional")

SoulItem_id == Field(1, "int32", "required")
SoulItem_soul_id == Field(2, "int32", "required")
SoulItem_index == Field(3, "int32", "required")
SoulItem_type == Field(4, "int32", "required")
SoulItem_exp == Field(5, "int32", "required")

RegisterServer_server_name == Field(1, "string", "required")
RegisterServer_server_id == Field(2, "int32", "required")
RegisterServer_param == Field(3, "string", "required")

Role == << Role_role_id, Role_profession, Role_role_name, Role_gold, Role_money, Role_rmb,
           Role_level, Role_vip_level, Role_exp, Role_last_logout_time, Role_souls_value,
           Role_souls_index >>

Item == << Item_global_id, Item_role_id, Item_item_id, Item_item_num, Item_index,
           Item_level, Item_state, Item_quality, Item_is_equip, Item_gems >>

SoulItem == << SoulItem_id, SoulItem_soul_id, SoulItem_index, SoulItem_type, SoulItem_exp >>

RegisterServer == << RegisterServer_server_name, RegisterServer_server_id,
                     RegisterServer_param >>

--------------------------------------------------------------------------------
\* The runtime library: varints, as protoc's code asks for them. A negative int is
\* written as 64 bits, in ten bytes; of any varint the low 32 bits are read.

Base == << 1, 128, 16384, 2097152, 268435456 >>

Digit(i, k) == (i \div Base[k]) % 128

VarintOf(i) ==
  IF i < 0 THEN [k \in 1..10 |-> IF k <= 5 THEN 128 + Digit(i, k) ELSE IF k < 10 THEN 255 ELSE 1]
  ELSE LET n == Min({ k \in 1..5 : k < 5 => i < Base[k + 1] })
       IN [k \in 1..n |-> IF k < n THEN 128 + Digit(i, k) ELSE Digit(i, k)]

Int32Size(i) == IF i < 0 THEN 10 ELSE 1 + Cardinality({ k \in 2..5 : i >= Base[k] })

Fail == [ok |-> FALSE, value |-> 0, next |-> 0]

\* The int in the bytes of d from p to last, of which the first 32 bits count.
VarintTo(d, p, last) ==
  LET digit == [k \in 1..5 |-> IF p + k - 1 <= last THEN d[p + k - 1] % 128 ELSE 0]
  IN digit[1] + Base[2] * digit[2] + Base[3] * digit[3] + Base[4] * digit[4]
     + Base[5] * (((digit[5] + 8) % 16) - 8)

\* The varint at position p of the bytes d: its value and the position behind it.
ReadVarint(d, p) ==
  LET ends == { q \in p..p + 9 : q <= Len(d) /\ d[q] < 128 }
  IN IF ends = {} THEN Fail
     ELSE [ok |-> TRUE, value |-> VarintTo(d, p, Min(ends)), next |-> Min(ends) + 1]

\* A counted text; of one that is cut short the part that is there is kept.
Counted(d, count) ==
  IF ~count.ok \/ count.value < 0 THEN [Fail EXCEPT !.value = << >>]
  ELSE [ok |-> count.next + count.value <= Len(d) + 1, next |-> count.next + count.value,
        value |-> SubSeq(d, count.next, Min({count.next + count.value - 1, Len(d)}))]

\* A value by its wire type, also to skip the field of a number that means nothing to
\* the reader. No message of the program has a group.
ReadValue(d, p, wiretype) ==
  CASE wiretype = 0 -> ReadVarint(d, p)
    [] wiretype = 1 -> [ok |-> p + 7 <= Len(d), value |-> 0, next |-> p + 8]
    [] wiretype = 2 -> Counted(d, ReadVarint(d, p))
    [] wiretype = 5 -> [ok |-> p + 3 <= Len(d), value |-> 0, next |-> p + 4]
    [] OTHER -> Fail

--------------------------------------------------------------------------------
\* The scheme of the generated functions, for the list of fields fs. m.has gives the
\* fields that have a value; m.rest are the bytes of the unknown fields.

New == [has |-> << >>, rest |-> << >>]

WireType(f) == IF f.kind = "int32" THEN 0 ELSE 2

Tag(f) == 8 * f.number + WireType(f)

Encoded(f, v) ==
  VarintOf(Tag(f)) \o (IF f.kind = "int32" THEN VarintOf(v.int) ELSE VarintOf(Len(v.text)) \o v.text)

\* What g says, and what only h says.
Over(g, h) == [n \in DOMAIN g \union DOMAIN h |-> IF n \in DOMAIN g THEN g[n] ELSE h[n]]

SetField(m, f, v) == [m EXCEPT !.has = Over([n \in {f.number} |-> v], @)]

ClearField(m, f) == [m EXCEPT !.has = [n \in DOMAIN @ \ {f.number} |-> @[n]]]

Initialized(fs, m) == \A i \in 1..Len(fs) : fs[i].required => fs[i].number \in DOMAIN m.has

IsSet(f, m) == f.number \in DOMAIN m.has

\* The fields that are set, in the order of the list, and the unknown ones behind.
Written(fs, m) ==
  LET upTo[k \in 0..Len(fs)] ==
        IF k = 0 THEN << >>
        ELSE upTo[k - 1] \o (IF IsSet(fs[k], m) THEN Encoded(fs[k], m.has[fs[k].number]) ELSE << >>)
  IN upTo[Len(fs)] \o m.rest

SizeOfField(f, v) ==
  1 + (IF f.kind = "int32" THEN Int32Size(v.int) ELSE Int32Size(Len(v.text)) + Len(v.text))

SizeOf(fs, m) ==
  LET upTo[k \in 0..Len(fs)] ==
        IF k = 0 THEN 0
        ELSE upTo[k - 1] + (IF IsSet(fs[k], m) THEN SizeOfField(fs[k], m.has[fs[k].number]) ELSE 0)
  IN upTo[Len(fs)] + Len(m.rest)

\* A field with a known number and the wire type of its kind is taken, the last value
\* of a number wins; any other field is kept as it came.
Mine(fs, tag) == { i \in 1..Len(fs) : Tag(fs[i]) = tag }

TookField(fs, m, tag, value, bytes) ==
  IF Mine(fs, tag) = {} THEN [m EXCEPT !.rest = @ \o bytes]
  ELSE LET f == fs[CHOOSE i \in Mine(fs, tag) : TRUE]
       IN SetField(m, f, IF f.kind = "int32" THEN [int |-> value] ELSE [text |-> value])

\* One field of the bytes d, from position p on: its tag, its value, and how it ended.
FieldRead(p, tag, read) ==
  [end |-> IF read.ok THEN "open" ELSE "failed", tag |-> tag, value |-> read.value,
   next |-> IF read.ok THEN read.next ELSE p]

FieldAt(d, p) ==
  LET tag == ReadVarint(d, p)
  IN IF ~tag.ok \/ tag.value = 0 \/ tag.value % 8 = 4
     THEN [end |-> "stopped", tag |-> 0, value |-> 0, next |-> p]
     ELSE FieldRead(p, tag.value, ReadValue(d, tag.next, tag.value % 8))

\* One round of the loop over the fields. A text has its has-bit set before it is read,
\* an int behind.
BehindField(fs, d, r, f) ==
  [end |-> f.end, at |-> f.next,
   m |-> IF f.end = "open" \/ (f.end = "failed" /\ f.tag % 8 = 2 /\ Mine(fs, f.tag) # {})
         THEN TookField(fs, r.m, f.tag, f.value, SubSeq(d, r.at, f.next - 1))
         ELSE r.m]

Round(fs, d, r) ==
  IF r.end # "open" THEN r
  ELSE IF r.at > Len(d) THEN [r EXCEPT !.end = "whole"]
  ELSE BehindField(fs, d, r, FieldAt(d, r.at))

\* ok is what the function returns, whole says that it read to the end.
Returned(r) == [ok |-> r.end # "failed", whole |-> r.end = "whole", m |-> r.m]

\* Every round but the last takes a byte at least.
MessageParsed(fs, m, d) ==
  LET loop[k \in 0..Len(d) + 1] ==
        IF k = 0 THEN [end |-> "open", at |-> 1, m |-> m] ELSE Round(fs, d, loop[k - 1])
  IN Returned(loop[Len(d) + 1])

Merged(m, from) == [has |-> Over(from.has, m.has), rest |-> m.rest \o from.rest]

--------------------------------------------------------------------------------
\* The generated functions.

Role_SharedCtor == New
Role_Clear(m) == [m EXCEPT !.has = << >>, !.rest = << >>]
Role_MergePartialFromCodedStream(m, d) == MessageParsed(Role, m, d)
Role_SerializeWithCachedSizes(m) == Written(Role, m)
Role_SerializeWithCachedSizesToArray(m) == Written(Role, m)
\* Mutant of Role_ByteSize: unknown fields are not counted.
Role_ByteSizeKnown(m) == SizeOf(Role, [m EXCEPT !.rest = << >>])

Role_ByteSize(m) == SizeOf(Role, m)
Role_MergeFrom(m, from) == Merged(m, from)
Role_CopyFrom(m, from) == Role_MergeFrom(Role_Clear(m), from)
Role_IsInitialized(m) == Initialized(Role, m)
Role_Swap(m, other) == << other, m >>

Item_SharedCtor == New
Item_Clear(m) == [m EXCEPT !.has = << >>, !.rest = << >>]
Item_MergePartialFromCodedStream(m, d) == MessageParsed(Item, m, d)
Item_SerializeWithCachedSizes(m) == Written(Item, m)
Item_SerializeWithCachedSizesToArray(m) == Written(Item, m)
Item_ByteSize(m) == SizeOf(Item, m)
Item_MergeFrom(m, from) == Merged(m, from)
Item_CopyFrom(m, from) == Item_MergeFrom(Item_Clear(m), from)
Item_IsInitialized(m) == Initialized(Item, m)
Item_Swap(m, other) == << other, m >>

SoulItem_SharedCtor == New
SoulItem_Clear(m) == [m EXCEPT !.has = << >>, !.rest = << >>]
SoulItem_MergePartialFromCodedStream(m, d) == MessageParsed(SoulItem, m, d)
SoulItem_SerializeWithCachedSizes(m) == Written(SoulItem, m)
SoulItem_SerializeWithCachedSizesToArray(m) == Written(SoulItem, m)
SoulItem_ByteSize(m) == SizeOf(SoulItem, m)
SoulItem_MergeFrom(m, from) == Merged(m, from)
SoulItem_CopyFrom(m, from) == SoulItem_MergeFrom(SoulItem_Clear(m), from)
SoulItem_IsInitialized(m) == Initialized(SoulItem, m)
SoulItem_Swap(m, other) == << other, m >>

RegisterServer_SharedCtor == New
RegisterServer_Clear(m) == [m EXCEPT !.has = << >>, !.rest = << >>]
RegisterServer_MergePartialFromCodedStream(m, d) == MessageParsed(RegisterServer, m, d)
RegisterServer_SerializeWithCachedSizes(m) == Written(RegisterServer, m)
RegisterServer_SerializeWithCachedSizesToArray(m) == Written(RegisterServer, m)
RegisterServer_ByteSize(m) == SizeOf(RegisterServer, m)
RegisterServer_MergeFrom(m, from) == Merged(m, from)
RegisterServer_CopyFrom(m, from) == RegisterServer_MergeFrom(RegisterServer_Clear(m), from)
RegisterServer_IsInitialized(m) == Initialized(RegisterServer, m)
RegisterServer_Swap(m, other) == << other, m >>

--------------------------------------------------------------------------------
\* The same by the name of the message, as a caller has it through Message.

FieldsOf == [Role |-> Role, Item |-> Item, SoulItem |-> SoulItem, RegisterServer |-> RegisterServer]

Made(t) ==
  CASE t = "Role" -> Role_SharedCtor
    [] t = "Item" -> Item_SharedCtor
    [] t = "SoulItem" -> SoulItem_SharedCtor
    [] OTHER -> RegisterServer_SharedCtor

Clear(t, m) ==
  CASE t = "Role" -> Role_Clear(m)
    [] t = "Item" -> Item_Clear(m)
    [] t = "SoulItem" -> SoulItem_Clear(m)
    [] OTHER -> RegisterServer_Clear(m)

MergePartial(t, m, d) ==
  CASE t = "Role" -> Role_MergePartialFromCodedStream(m, d)
    [] t = "Item" -> Item_MergePartialFromCodedStream(m, d)
    [] t = "SoulItem" -> SoulItem_MergePartialFromCodedStream(m, d)
    [] OTHER -> RegisterServer_MergePartialFromCodedStream(m, d)

Serialize(t, m) ==
  CASE t = "Role" -> Role_SerializeWithCachedSizes(m)
    [] t = "Item" -> Item_SerializeWithCachedSizes(m)
    [] t = "SoulItem" -> SoulItem_SerializeWithCachedSizes(m)
    [] OTHER -> RegisterServer_SerializeWithCachedSizes(m)

SerializeToArray(t, m) ==
  CASE t = "Role" -> Role_SerializeWithCachedSizesToArray(m)
    [] t = "Item" -> Item_SerializeWithCachedSizesToArray(m)
    [] t = "SoulItem" -> SoulItem_SerializeWithCachedSizesToArray(m)
    [] OTHER -> RegisterServer_SerializeWithCachedSizesToArray(m)

ByteSize(t, m) ==
  CASE t = "Role" -> Role_ByteSize(m)
    [] t = "Item" -> Item_ByteSize(m)
    [] t = "SoulItem" -> SoulItem_ByteSize(m)
    [] OTHER -> RegisterServer_ByteSize(m)

MergeFrom(t, m, from) ==
  CASE t = "Role" -> Role_MergeFrom(m, from)
    [] t = "Item" -> Item_MergeFrom(m, from)
    [] t = "SoulItem" -> SoulItem_MergeFrom(m, from)
    [] OTHER -> RegisterServer_MergeFrom(m, from)

CopyFrom(t, m, from) ==
  CASE t = "Role" -> Role_CopyFrom(m, from)
    [] t = "Item" -> Item_CopyFrom(m, from)
    [] t = "SoulItem" -> SoulItem_CopyFrom(m, from)
    [] OTHER -> RegisterServer_CopyFrom(m, from)

IsInitialized(t, m) ==
  CASE t = "Role" -> Role_IsInitialized(m)
    [] t = "Item" -> Item_IsInitialized(m)
    [] t = "SoulItem" -> SoulItem_IsInitialized(m)
    [] OTHER -> RegisterServer_IsInitialized(m)

Swap(t, m, other) ==
  CASE t = "Role" -> Role_Swap(m, other)
    [] t = "Item" -> Item_Swap(m, other)
    [] t = "SoulItem" -> SoulItem_Swap(m, other)
    [] OTHER -> RegisterServer_Swap(m, other)

\* ParseFromString: what was there is dropped, and the reader is told whether it got a
\* whole message with all its required fields.
Judged(t, r) == [r EXCEPT !.ok = r.ok /\ r.whole /\ IsInitialized(t, r.m)]

ParseFromString(t, d) == Judged(t, MergePartial(t, Clear(t, Made(t)), d))

--------------------------------------------------------------------------------
VARIABLES pair, left, right, wire, verdict, msgSteps

(* pair: the type of the message written and of the one read; left and right: those   *)
(* two; wire: what was written; verdict: whether the last reader was content.          *)

messageVars == << pair, left, right, wire, verdict, msgSteps >>

Values(f) == IF f.kind = "int32" THEN { [int |-> i] : i \in Ints } ELSE { [text |-> s] : s \in Strings }

\* A message with all its required fields, an int with the number of its field.
FirstValues(f) == IF f.kind = "int32" THEN { [int |-> f.number] } ELSE Values(f)

Full(t) ==
  LET fs == FieldsOf[t]
      required == { fs[i].number : i \in { j \in 1..Len(fs) : fs[j].required } }
  IN [Made(t) EXCEPT !.has = [n \in required |->
        CHOOSE v \in UNION { FirstValues(fs[i]) : i \in { j \in 1..Len(fs) : fs[j].number = n } } : TRUE]]

MessageInit ==
  /\ pair \in Pairs
  /\ left \in {Made(pair[1]), Full(pair[1])}
  /\ right = Made(pair[2])
  /\ wire = << >> /\ verdict = "none" /\ msgSteps = 0

TouchedFields(t) == { FieldsOf[t][i] : i \in { j \in 1..Len(FieldsOf[t]) : FieldsOf[t][j].number \in Touched } }

Step == msgSteps < MaxSteps /\ msgSteps' = msgSteps + 1 /\ UNCHANGED pair

set_field ==
  /\ Step
  /\ \E f \in TouchedFields(pair[1]) : \E v \in Values(f) : left' = SetField(left, f, v)
  /\ UNCHANGED << right, wire, verdict >>

clear_field ==
  /\ Step
  /\ \E f \in TouchedFields(pair[1]) : f.number \in DOMAIN left.has /\ left' = ClearField(left, f)
  /\ UNCHANGED << right, wire, verdict >>

ClearLeft ==
  /\ Step
  /\ left' = Clear(pair[1], left)
  /\ UNCHANGED << right, wire, verdict >>

\* To the stream or to an array, behind what is there.
Write ==
  /\ Step
  /\ \/ wire' = wire \o Serialize(pair[1], left)
     \/ wire' = wire \o SerializeToArray(pair[1], left)
  /\ UNCHANGED << left, right, verdict >>

Cut ==
  /\ Step
  /\ wire # << >>
  /\ \E n \in {1, Len(wire) - 1} : wire' = SubSeq(wire, 1, n)
  /\ UNCHANGED << left, right, verdict >>

ReadWire ==
  /\ Step
  /\ LET r == ParseFromString(pair[2], wire)
     IN right' = r.m /\ verdict' = IF r.ok THEN "content" ELSE "refused"
  /\ UNCHANGED << left, wire >>

Merge ==
  /\ Step
  /\ pair[1] = pair[2]
  /\ \/ left' = MergeFrom(pair[1], left, right)
     \/ left' = CopyFrom(pair[1], left, right)
  /\ UNCHANGED << right, wire, verdict >>

Exchange ==
  /\ Step
  /\ pair[1] = pair[2]
  /\ left' = Swap(pair[1], left, right)[1]
  /\ right' = Swap(pair[1], left, right)[2]
  /\ UNCHANGED << wire, verdict >>

MessageNext ==
  set_field \/ clear_field \/ ClearLeft \/ Write \/ Cut \/ ReadWire \/ Merge \/ Exchange

MessageSpec == MessageInit /\ [][MessageNext]_messageVars

--------------------------------------------------------------------------------
MessageTypeOK ==
  /\ pair \in Pairs
  /\ verdict \in {"none", "content", "refused"}
  /\ \A f \in Range(FieldsOf[pair[1]]) :
       f.number \in DOMAIN left.has => DOMAIN left.has[f.number] = IF f.kind = "int32" THEN {"int"} ELSE {"text"}

\* The size announced is the size written, by either way of writing.
SizeIsWritten ==
  \A k \in {1, 2} : LET m == << left, right >>[k] IN
    /\ Len(Serialize(pair[k], m)) = ByteSize(pair[k], m)
    /\ SerializeToArray(pair[k], m) = Serialize(pair[k], m)

\* A program that knows another message, or an older one, passes every field on: what
\* is written as one message, read and written again as another, is read as it was.
RelayKeeps ==
  \A t \in { p[2] : p \in Pairs } :
    LET through == MergePartial(t, Made(t), Serialize(pair[1], left))
        back == MergePartial(pair[1], Made(pair[1]), Serialize(t, through.m))
    IN through.ok /\ back.ok /\ back.m.has = left.has

\* Two messages written behind each other are read as the second merged into the first.
ConcatIsMerge ==
  pair[1] = pair[2] =>
    MergePartial(pair[1], Made(pair[1]), Serialize(pair[1], left) \o Serialize(pair[1], right)).m
      = MergeFrom(pair[1], left, right)

\* A message whose end was lost is refused, or nothing it needs is missing or changed:
\* a cut between two fields, behind all the required ones, is not noticed.
CutIsNoticed ==
  LET bytes == Serialize(pair[1], left)
  IN \A n \in 0..Len(bytes) - 1 :
       LET r == ParseFromString(pair[1], SubSeq(bytes, 1, n))
       IN r.ok => /\ IsInitialized(pair[1], left)
                  /\ \A k \in DOMAIN r.m.has : k \in DOMAIN left.has /\ r.m.has[k] = left.has[k]

\* The generated messages keep what protocol buffers promise to the programs that
\* exchange them (warrior.pb.cc, peer.pb.cc).
MessageIsKept == MessageTypeOK /\ SizeIsWritten /\ RelayKeeps /\ ConcatIsMerge /\ CutIsNoticed
================================================================================
