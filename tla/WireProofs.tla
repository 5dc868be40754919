----------------------------- MODULE WireProofs -----------------------------
(***************************************************************************)
(* In a call of unpack_msg the parser stays within the bytes it has been   *)
(* given and its containers within the memory they were given, for every   *)
(* buffer and every cut, and an int field gets only what an int can hold.  *)
(***************************************************************************)
EXTENDS Wire, SequenceTheorems, TLAPS

\* The states that wait for a length know how many bytes it has.
LengthBytes == cs \in {"STR", "BIN", "EXT", "ARRAY", "MAP"} => trail \in {1, 2, 4}

ParseInv == ParseTypeOK /\ WithinBytes /\ RoomForItem /\ LengthBytes

\* The tables of the trailing selectors agree: each of the 28 selectors has a
\* state and a trail, and a length has one, two or four bytes.
LEMMA Tables ==
  ASSUME NEW i \in 1..28
  PROVE  /\ trailOf[i] \in Nat
         /\ next_cs[i] \in Kinds
         /\ next_cs[i] \in {"STR", "BIN", "EXT", "ARRAY", "MAP"} => trailOf[i] \in {1, 2, 4}
<1>1. CASE i \in 1..9
  BY <1>1 DEF trailOf, next_cs, Kinds
<1>2. CASE i \in 10..18
  BY <1>2 DEF trailOf, next_cs, Kinds
<1>3. CASE i \in 19..28
  BY <1>3 DEF trailOf, next_cs, Kinds
<1> QED BY <1>1, <1>2, <1>3

\* A byte below len is a byte of the buffer.
LEMMA ByteAt ==
  ASSUME ParseInv, NEW i \in Nat, i >= 1, i <= len
  PROVE  input.data[i] \in 0..255
<1>1. input.data \in Seq(0..255) /\ len <= Len(input.data) /\ len \in Nat
  BY InputAssumption DEF ParseInv, ParseTypeOK, WithinBytes
<1>2. Len(input.data) \in Nat
  BY <1>1
<1>3. i \in 1..Len(input.data)
  BY <1>1, <1>2
<1> QED BY <1>1, <1>3, ElementOfSeq

\* Two bytes are a number, and so are two such numbers.
LEMMA WordNat ==
  ASSUME NEW b, NEW i \in {1, 3}, b[i] \in 0..255, b[i + 1] \in 0..255
  PROVE  Word(b, i) \in Nat
<1> DEFINE x == b[i]
           y == b[i + 1]
<1>1. x \in Nat /\ y \in Nat
  OBVIOUS
<1>2. Word(b, i) = 256 * x + y
  BY DEF Word
<1> HIDE DEF x, y
<1> QED BY <1>1, <1>2

\* A length all of whose bytes are there is a number.
LEMMA LoadNat ==
  ASSUME ParseInv, Enough, trail \in {1, 2, 4}
  PROVE  load(Trail) \in Nat
<1>1. /\ input.data \in Seq(0..255) /\ off \in Nat /\ len \in Nat
      /\ off + trail <= Len(input.data)
  BY InputAssumption DEF ParseInv, ParseTypeOK, WithinBytes, Enough
<1>2. ASSUME NEW i \in (off + 1)..(off + trail)
      PROVE  input.data[i] \in 0..255
  <2>1. i \in 1..Len(input.data)
    BY <1>1
  <2> QED BY <1>1, <2>1, ElementOfSeq
<1>3. /\ Trail \in Seq(0..255)
      /\ Len(Trail) = trail
  <2>1. off + 1 \in Int /\ off + trail \in Int /\ off + 1 <= off + trail
    BY <1>1
  <2>2. /\ Trail \in Seq(0..255)
        /\ Len(Trail) = (off + trail) - (off + 1) + 1
    BY <1>2, <2>1, SubSeqProperties DEF Trail
  <2> QED BY <1>1, <2>2
<1>4. ASSUME NEW k \in 1..trail PROVE Trail[k] \in 0..255
  <2>1. k \in 1..Len(Trail)
    BY <1>3
  <2>2. Trail \in Seq(0..255)
    BY <1>3
  <2> QED BY <2>1, <2>2, ElementOfSeq, Zenon
<1>5. CASE trail = 1
  <2>1. Trail[1] \in 0..255
    BY <1>4, <1>5
  <2>2. load(Trail) = Trail[1]
    BY <1>3, <1>5 DEF load
  <2> QED BY <2>1, <2>2
<1>6. CASE trail = 2
  <2>1. Trail[1] \in 0..255 /\ Trail[1 + 1] \in 0..255
    BY <1>4, <1>6
  <2>2. load(Trail) = Word(Trail, 1)
    BY <1>3, <1>6 DEF load
  <2> QED BY <2>1, <2>2, WordNat
<1>7. CASE trail = 4
  <2>1. /\ Trail[1] \in 0..255 /\ Trail[1 + 1] \in 0..255
        /\ Trail[3] \in 0..255 /\ Trail[3 + 1] \in 0..255
    BY <1>4, <1>7
  <2>2. load(Trail) = 256 * (256 * Word(Trail, 1)) + Word(Trail, 3)
    BY <1>3, <1>7 DEF load
  <2>3. Word(Trail, 1) \in Nat /\ Word(Trail, 3) \in Nat
    BY <2>1, WordNat
  <2> QED BY <2>2, <2>3
<1> QED BY <1>5, <1>6, <1>7

\* Opening a container of n items keeps the containers in order.
LEMMA OpenKeeps ==
  ASSUME ParseInv, NEW n \in Nat, NEW type \in {"ARRAY", "MAP"}, push_aggregate(type, n)
  PROVE  /\ stack' \in Seq(Containers)
         /\ RoomForItem'
         /\ cs' \in {"HEADER", "PUSH"}
         /\ ret' = ret
<1>1. CASE n = 0
  BY <1>1 DEF push_aggregate, Push, ParseInv, ParseTypeOK, RoomForItem
<1>2. CASE n > 0
  <2> DEFINE c == [ct |-> IF type = "ARRAY" THEN "ARRAY_ITEM" ELSE "MAP_KEY",
                   alloc |-> n, size |-> 0, count |-> n]
  <2>1. stack' = Append(stack, c) /\ cs' = "HEADER" /\ ret' = ret
    BY <1>2 DEF push_aggregate
  <2>2. c \in Containers /\ c.count > 0 /\ c.size + c.count = c.alloc
    BY <1>2 DEF Containers
  <2>3. stack \in Seq(Containers)
    BY DEF ParseInv, ParseTypeOK
  <2>4. stack' \in Seq(Containers)
    BY <2>1, <2>2, <2>3
  <2>5. \A i \in 1..Len(stack') : stack'[i] = IF i = Len(stack) + 1 THEN c ELSE stack[i]
    BY <2>1, <2>2, <2>3
  <2>6. Len(stack') = Len(stack) + 1
    BY <2>1, <2>3
  <2>7. RoomForItem'
    BY <2>2, <2>3, <2>5, <2>6 DEF RoomForItem, ParseInv
  <2> QED BY <2>1, <2>4, <2>7
<1> QED BY <1>1, <1>2

\* Storing an item closes the container or leaves it waiting for one fewer.
LEMMA StoredKeeps ==
  ASSUME ParseInv, top > 0,
         NEW type, NEW ct \in {"ARRAY_ITEM", "MAP_KEY"}, Stored(type, ct)
  PROVE  /\ stack' \in Seq(Containers)
         /\ RoomForItem'
         /\ cs' \in {cs, "HEADER"}
<1>1. stack \in Seq(Containers) /\ top \in 1..Len(stack) /\ stack[top] \in Containers
  BY DEF ParseInv, ParseTypeOK, top
<1>2. /\ stack[top].count \in Nat /\ stack[top].size \in Nat /\ stack[top].alloc \in Nat
      /\ stack[top].count > 0
      /\ stack[top].size + stack[top].count = stack[top].alloc
  BY <1>1 DEF ParseInv, RoomForItem, Containers
<1>3. CASE stack[top].count = 1
  <2>1. stack' = SubSeq(stack, 1, top - 1) /\ cs' = cs
    BY <1>3 DEF Stored
  <2>2. /\ 1 \in Int /\ top - 1 \in Int
        /\ \A i \in 1..(top - 1) : stack[i] \in Containers
    BY <1>1, ElementOfSeq
  <2>3. /\ stack' \in Seq(Containers)
        /\ Len(stack') = (IF 1 <= top - 1 THEN (top - 1) - 1 + 1 ELSE 0)
        /\ \A i \in 1..((top - 1) - 1 + 1) : stack'[i] = stack[1 + i - 1]
    BY <2>1, <2>2, SubSeqProperties
  <2>4. RoomForItem'
    BY <2>3, <1>1 DEF RoomForItem, ParseInv
  <2> QED BY <2>1, <2>3, <2>4
<1>4. CASE stack[top].count # 1
  <2> DEFINE c == [ct |-> ct, alloc |-> stack[top].alloc,
                   size |-> stack[top].size + 1, count |-> stack[top].count - 1]
  <2>1. stack' = [stack EXCEPT ![top] = c] /\ cs' = "HEADER"
    BY <1>4, <1>1 DEF Stored
  <2>2. c \in Containers /\ c.count > 0 /\ c.size + c.count = c.alloc
    BY <1>2, <1>4 DEF Containers
  <2>3. Len(stack') = Len(stack) /\ \A i \in 1..Len(stack) :
                                      stack'[i] = IF i = top THEN c ELSE stack[i]
    BY <2>1, <1>1
  <2>4. stack' \in Seq(Containers)
    BY <2>1, <2>2, <1>1
  <2>5. RoomForItem'
    BY <2>2, <2>3, <1>1 DEF RoomForItem, ParseInv
  <2> QED BY <2>1, <2>4, <2>5
<1> QED BY <1>3, <1>4

\* A step that only completes an item, at a position within the bytes.
LEMMA PushKeeps ==
  ASSUME ParseInv, NEW o, Push(o),
         off' \in Nat, off' <= len, input' = input, len' = len, trail' \in Nat
  PROVE  ParseInv'
BY DEF ParseInv, ParseTypeOK, WithinBytes, RoomForItem, LengthBytes, Push, Kinds

\* A step that announces a body of n bytes.
LEMMA BodyKeeps ==
  ASSUME ParseInv, NEW type, NEW value \in {"STR_VALUE", "BIN_VALUE", "EXT_VALUE"},
         NEW n \in Nat, Body(type, value, n),
         off' \in Nat, off' <= len, input' = input, len' = len
  PROVE  ParseInv'
BY DEF ParseInv, ParseTypeOK, WithinBytes, RoomForItem, LengthBytes, Body, Push, Kinds

\* A step that opens a container.
LEMMA AggregateKeeps ==
  ASSUME ParseInv, NEW type \in {"ARRAY", "MAP"}, NEW n \in Nat, push_aggregate(type, n),
         off' \in Nat, off' <= len, input' = input, len' = len, trail' = trail
  PROVE  ParseInv'
<1>1. /\ stack' \in Seq(Containers) /\ RoomForItem'
      /\ cs' \in {"HEADER", "PUSH"} /\ ret' = ret
  BY OpenKeeps
<1> QED BY <1>1 DEF ParseInv, ParseTypeOK, WithinBytes, LengthBytes, Kinds

\* A new context is in order.
LEMMA ParseInitial == ParseInit => ParseInv
<1> SUFFICES ASSUME ParseInit PROVE ParseInv
  OBVIOUS
<1>1. Len(input.data) \in Nat
  BY InputAssumption DEF ParseInit
<1>2. Len(stack) = 0 /\ stack \in Seq(Containers)
  BY DEF ParseInit
<1> QED BY <1>1, <1>2 DEF ParseInit, ParseInv, ParseTypeOK, WithinBytes, RoomForItem, LengthBytes

\* Reading a selector.
LEMMA HeaderKeeps ==
  ASSUME ParseInv, Header
  PROVE  ParseInv'
<1>1. AtHeader /\ off \in Nat /\ len \in Nat /\ trail \in Nat
  BY DEF Header, PositiveFixnum, NegativeFixnum, Constant, Trailing, FixAggregate,
         FixStr, Unknown, ParseInv, ParseTypeOK
<1>2. Selector \in 0..255
  BY <1>1, ByteAt DEF Selector, AtHeader
<1>3. off + 1 \in Nat /\ off + 1 <= len
  BY <1>1 DEF AtHeader
<1>4. CASE PositiveFixnum
  BY <1>1, <1>3, <1>4, PushKeeps DEF PositiveFixnum
<1>5. CASE NegativeFixnum
  BY <1>1, <1>3, <1>5, PushKeeps DEF NegativeFixnum
<1>6. CASE Constant
  BY <1>1, <1>3, <1>6, PushKeeps DEF Constant
<1>7. CASE Trailing
  <2>1. Selector - 195 \in 1..28
    BY <1>7 DEF Trailing
  <2>2. /\ trail' \in Nat /\ cs' \in Kinds
        /\ cs' \in {"STR", "BIN", "EXT", "ARRAY", "MAP"} => trail' \in {1, 2, 4}
    BY <2>1, <1>7, Tables DEF Trailing
  <2> QED BY <1>3, <1>7, <2>2
          DEF Trailing, ParseInv, ParseTypeOK, WithinBytes, RoomForItem, LengthBytes
<1>8. CASE FixAggregate
  <2>1. Selector % 16 \in Nat
    BY <1>2
  <2> QED BY <1>3, <1>8, <2>1, AggregateKeeps DEF FixAggregate
<1>9. CASE FixStr
  <2>1. Selector % 32 \in Nat
    BY <1>2
  <2> QED BY <1>3, <1>9, <2>1, BodyKeeps DEF FixStr
<1>10. CASE Unknown
  BY <1>10 DEF Unknown, ParseInv, ParseTypeOK, WithinBytes, RoomForItem, LengthBytes
<1> QED BY <1>4, <1>5, <1>6, <1>7, <1>8, <1>9, <1>10 DEF Header

\* Reading what follows a selector.
LEMMA TrailKeeps ==
  ASSUME ParseInv, Scalar \/ FixExt \/ Value \/ BodyLength \/ Aggregate
  PROVE  ParseInv'
<1>1. Enough /\ off \in Nat /\ len \in Nat /\ trail \in Nat
  BY DEF Scalar, FixExt, Value, BodyLength, Aggregate, AtTrail, ParseInv, ParseTypeOK
<1>2. off + trail \in Nat /\ off + trail <= len
  BY <1>1 DEF Enough
<1>3. CASE Scalar
  BY <1>1, <1>2, <1>3, PushKeeps DEF Scalar
<1>7. CASE FixExt
  BY <1>1, <1>2, <1>7, PushKeeps DEF FixExt
<1>4. CASE Value
  BY <1>1, <1>2, <1>4, PushKeeps DEF Value
<1>5. CASE BodyLength
  <2>1. load(Trail) \in Nat
    BY <1>1, <1>5, LoadNat DEF BodyLength, ParseInv, LengthBytes
  <2>2. load(Trail) + 1 \in Nat
    BY <2>1
  <2> QED BY <1>2, <1>5, <2>1, <2>2, BodyKeeps DEF BodyLength
<1>6. CASE Aggregate
  <2>1. load(Trail) \in Nat
    BY <1>1, <1>6, LoadNat DEF Aggregate, ParseInv, LengthBytes
  <2> QED BY <1>2, <1>6, <2>1, AggregateKeeps DEF Aggregate
<1> QED BY <1>3, <1>4, <1>5, <1>6, <1>7

\* Storing an item.
LEMMA PushItemKeeps ==
  ASSUME ParseInv, push_item
  PROVE  ParseInv'
<1>1. CASE PushRoot
  BY <1>1 DEF PushRoot, ParseInv, ParseTypeOK, WithinBytes, RoomForItem, LengthBytes
<1>2. CASE PushArrayItem \/ PushMapValue
  <2>1. stack' \in Seq(Containers) /\ RoomForItem' /\ cs' \in {"PUSH", "HEADER"}
    BY <1>2, StoredKeeps DEF PushArrayItem, PushMapValue
  <2>2. UNCHANGED <<input, len, off, trail, ret>>
    BY <1>2 DEF PushArrayItem, PushMapValue
  <2> QED BY <2>1, <2>2 DEF ParseInv, ParseTypeOK, WithinBytes, LengthBytes, Kinds
<1>3. CASE PushMapKey
  <2> DEFINE c == [ct |-> "MAP_VALUE", alloc |-> stack[top].alloc,
                   size |-> stack[top].size, count |-> stack[top].count]
  <2>1. /\ stack \in Seq(Containers) /\ top \in 1..Len(stack)
        /\ stack' = [stack EXCEPT ![top] = c]
        /\ cs' = "HEADER" /\ UNCHANGED <<input, len, off, trail, ret>>
    BY <1>3 DEF PushMapKey, ParseInv, ParseTypeOK, top
  <2>2. stack[top] \in Containers
    BY <2>1, ElementOfSeq
  <2>3. /\ c \in Containers
        /\ c.count = stack[top].count /\ c.size = stack[top].size /\ c.alloc = stack[top].alloc
    BY <2>2 DEF Containers
  <2>4. stack' \in Seq(Containers) /\ Len(stack') = Len(stack)
    BY <2>1, <2>3
  <2>5. \A i \in 1..Len(stack) : stack'[i] = IF i = top THEN c ELSE stack[i]
    BY <2>1
  <2>6. \A i \in 1..Len(stack) : /\ stack'[i].count = stack[i].count
                                 /\ stack'[i].size = stack[i].size
                                 /\ stack'[i].alloc = stack[i].alloc
    <3> HIDE DEF c
    <3> QED BY <2>5, <2>3
  <2>7. RoomForItem'
    BY <2>4, <2>6 DEF ParseInv, RoomForItem
  <2> QED BY <2>1, <2>4, <2>7 DEF ParseInv, ParseTypeOK, WithinBytes, LengthBytes, Kinds
<1> QED BY <1>1, <1>2, <1>3 DEF push_item

\* Every step of the parser.
LEMMA ParseStep == ParseInv /\ [execute]_parseVars => ParseInv'
<1> SUFFICES ASSUME ParseInv, [execute]_parseVars
             PROVE  ParseInv'
  OBVIOUS
<1>1. CASE OutOfBytes
  BY <1>1 DEF OutOfBytes, ParseInv, ParseTypeOK, WithinBytes, RoomForItem, LengthBytes
<1>2. CASE UNCHANGED parseVars
  BY <1>2 DEF parseVars, ParseInv, ParseTypeOK, WithinBytes, RoomForItem, LengthBytes
<1> QED BY <1>1, <1>2, HeaderKeeps, TrailKeeps, PushItemKeeps DEF execute

\* The invariant the two theorems rest on.
LEMMA ParseInvariant == Spec => []ParseInv
<1>1. Init => ParseInv
  BY ParseInitial DEF Init
<1>2. [Next]_vars => [execute]_parseVars
  BY DEF Next, vars, Parse, unpack_msg, Terminated, parseVars
<1> QED BY <1>1, <1>2, ParseStep, PTL DEF Spec

\* context::execute, run by unpack_msg, never reads past the bytes it was
\* given, whatever the buffer holds and wherever it is cut.
THEOREM ParserStaysWithinBytes == Spec => []WithinBytes
<1>1. ParseInv => WithinBytes
  BY DEF ParseInv
<1> QED BY <1>1, ParseInvariant, PTL

\* push_item always finds room for the item in the container on top of
\* m_stack, in the memory push_aggregate reserved from the header's count.
THEOREM ContainersHaveRoom == Spec => []RoomForItem
<1>1. ParseInv => RoomForItem
  BY DEF ParseInv
<1> QED BY <1>1, ParseInvariant, PTL

-----------------------------------------------------------------------------
(***************************************************************************)
(* unpack_msg.                                                             *)
(***************************************************************************)
\* A 64-bit value that fits an int.
InInt(d) == IF Negative(d) THEN AtLeast(d, 4) ELSE Below(d, 4) /\ d[5] < 128

\* The message is as it was constructed until it is converted, and every field of type
\* int holds an int, after a type_error that left it half filled, too.
FieldsInv ==
  /\ DOMAIN msg = 1..8
  /\ result = "none" => msg = NoopMsg
  /\ \A i \in 1..8 : Field[i] = "int" => InInt(msg[i])

\* convert_integer<int> lets a value pass only if it fits.
LEMMA ConvertedFits ==
  ASSUME NEW o, convertible(o, "int")
  PROVE  InInt(o.via)
<1>1. \/ o.type = "POSITIVE_INTEGER" /\ Below(o.via, 4) /\ o.via[5] < 128
      \/ o.type = "NEGATIVE_INTEGER" /\ AtLeast(o.via, 4)
  BY DEF convertible
<1>2. CASE Below(o.via, 4) /\ o.via[5] < 128
  <2>1. o.via[1] = 0
    BY <1>2 DEF Below
  <2> QED BY <1>2, <2>1 DEF InInt, Negative
<1>3. CASE AtLeast(o.via, 4)
  <2>1. o.via[1] = 255
    BY <1>3 DEF AtLeast
  <2> QED BY <1>3, <2>1 DEF InInt, Negative
<1> QED BY <1>1, <1>2, <1>3

\* The fields of a new message are zero.
LEMMA NoopFits ==
  /\ DOMAIN NoopMsg = 1..8
  /\ \A i \in 1..8 : Field[i] = "int" => InInt(NoopMsg[i])
<1>1. DOMAIN NoopMsg = 1..8
  BY DEF NoopMsg
<1>2. InInt(Zero)
  BY DEF InInt, Zero, Negative, Below
<1>3. ASSUME NEW i \in 1..8, Field[i] = "int" PROVE NoopMsg[i] = Zero
  BY <1>3 DEF Field, NoopMsg
<1> QED BY <1>1, <1>2, <1>3

\* A step keeps the fields within their types.
LEMMA FieldsStep == FieldsInv /\ [Next]_vars => FieldsInv'
<1> SUFFICES ASSUME FieldsInv, [Next]_vars PROVE FieldsInv'
  OBVIOUS
<1>1. ASSUME UNCHANGED msg, result' = "none" => result = "none" PROVE FieldsInv'
  BY <1>1 DEF FieldsInv
<1>2. ASSUME msgpack_unpack(obj) PROVE FieldsInv'
  <2>1. CASE obj.type # "ARRAY"
    BY <1>1, <1>2, <2>1 DEF msgpack_unpack
  <2>2. CASE obj.type = "ARRAY"
    <3>1. /\ result' # "none"
          /\ msg' = [i \in DOMAIN msg |->
                       IF i \in Given(obj) /\ \A j \in Bad(obj) : i < j
                       THEN obj.via[i].via ELSE msg[i]]
      BY <1>2, <2>2 DEF msgpack_unpack
    <3>2. ASSUME NEW i \in 1..8, Field[i] = "int" PROVE InInt(msg'[i])
      <4>1. CASE i \in Given(obj) /\ \A j \in Bad(obj) : i < j
        <5>1. i \notin Bad(obj)
          BY <4>1
        <5>2. convertible(obj.via[i], "int")
          BY <3>2, <4>1, <5>1 DEF Bad
        <5>3. msg'[i] = obj.via[i].via
          BY <3>1, <4>1 DEF FieldsInv
        <5> QED BY <5>2, <5>3, ConvertedFits
      <4>2. CASE ~(i \in Given(obj) /\ \A j \in Bad(obj) : i < j)
        <5>1. msg'[i] = msg[i]
          BY <3>1, <4>2 DEF FieldsInv
        <5> QED BY <3>2, <5>1 DEF FieldsInv
      <4> QED BY <4>1, <4>2
    <3> QED BY <3>1, <3>2 DEF FieldsInv
  <2> QED BY <2>1, <2>2
<1> QED BY <1>1, <1>2 DEF Next, vars, Parse, unpack_msg, Terminated

\* A message that unpack_msg accepts has in opcode_ and errval_ values that fit their
\* 32 bits, whatever object the header held and however many fields it had.
THEOREM UnpackedFieldsInRange == Spec => []FieldsInRange
<1>1. Init => FieldsInv
  BY NoopFits DEF Init, FieldsInv
<1>2. FieldsInv => FieldsInRange
  <2>1. DOMAIN Field = 1..8
    BY DEF Field
  <2> QED BY <2>1 DEF FieldsInv, FieldsInRange, InInt
<1> QED BY <1>1, <1>2, FieldsStep, PTL DEF Spec
=============================================================================
