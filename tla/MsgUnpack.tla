----------------------------- MODULE MsgUnpack -----------------------------
(***************************************************************************)
(* The MessagePack parser that every message of the wire protocol goes     *)
(* through: msgpack::detail::context of the vendored unpack.hpp, as        *)
(* unpack_imp runs it, once over the bytes there are.  One action is one   *)
(* branch of the loop of context::execute, or one turn of the loop of      *)
(* push_item.                                                              *)
(*                                                                         *)
(* m_current is kept as the offset off.  The code leaves m_current on the  *)
(* last byte of an item until push_proc has stored it; here off is past    *)
(* the item as soon as its bytes are read.  A width in bytes (UINT_8 ..    *)
(* UINT_64) is the value of m_trail, so the states of one kind are one.    *)
(***************************************************************************)
EXTENDS Integers, Sequences

CONSTANT Inputs     \* the buffers: data, the bytes; size, those of the first
                    \* object (0 if none begins there); object, what was
                    \* packed into them

\* Buffers hold bytes, and the first object lies inside its buffer.
ASSUME InputAssumption ==
  \A i \in Inputs : i.data \in Seq(0..255) /\ i.size \in 0..Len(i.data)

VARIABLES
  input,   \* the buffer being parsed
  len,     \* how many of its bytes there are (pe - data)
  off,     \* the parser's position (m_current - m_start)
  cs,      \* m_cs, or PUSH inside push_item
  trail,   \* m_trail, the bytes the state cs waits for
  obj,     \* the object last built
  stack,   \* m_stack without its last, empty entry: the open containers
  ptr,     \* the items stored so far in each open container
  ret      \* what execute returned, or "running"

parseVars == <<input, len, off, cs, trail, obj, stack, ptr, ret>>

-----------------------------------------------------------------------------
(* Objects and the loading of numbers. *)

Object(type, via) == [type |-> type, via |-> via]
Nil == Object("NIL", <<>>)

\* A faulty load that takes the bytes of a number in the order of the host.
load_little(b) == IF Len(b) = 1 THEN b[1]
                  ELSE IF Len(b) = 2 THEN 256 * b[2] + b[1]
                  ELSE 256 * (256 * (256 * b[4] + b[3]) + b[2]) + b[1]

\* load<T> into a length: the big-endian value of one, two or four bytes.
Word(b, i) == 256 * b[i] + b[i + 1]
load(b) == IF Len(b) = 1 THEN b[1]
           ELSE IF Len(b) = 2 THEN Word(b, 1)
           ELSE 256 * (256 * Word(b, 1)) + Word(b, 3)

\* Widening to the 64 bits of via.u64 and via.i64, as eight bytes.
Widen(b, fill) == [i \in 1..(8 - Len(b)) |-> fill] \o b

unpack_uint(b) == Object("POSITIVE_INTEGER", Widen(b, 0))

unpack_int(b) == IF b[1] < 128 THEN unpack_uint(b)
                 ELSE Object("NEGATIVE_INTEGER", Widen(b, 255))

\* 0xc4 .. 0xdf: the bytes that follow the selector and the state that
\* next_cs goes to.
trailOf == <<1, 2, 4, 1, 2, 4, 4, 8, 1, 2, 4, 8, 1, 2, 4, 8,
             2, 3, 5, 9, 17, 1, 2, 4, 2, 4, 2, 4>>

next_cs == <<"BIN", "BIN", "BIN", "EXT", "EXT", "EXT", "FLOAT", "FLOAT",
             "UINT", "UINT", "UINT", "UINT", "INT", "INT", "INT", "INT",
             "FIXEXT", "FIXEXT", "FIXEXT", "FIXEXT", "FIXEXT",
             "STR", "STR", "STR", "ARRAY", "ARRAY", "MAP", "MAP">>

-----------------------------------------------------------------------------
(* A call of execute. *)

ParseInit == /\ input \in Inputs
             /\ len \in 0..Len(input.data)
             /\ off = 0
             /\ cs = "HEADER"
             /\ trail = 0
             /\ obj = Nil
             /\ stack = <<>>
             /\ ptr = <<>>
             /\ ret = "running"

\* The next byte, read as the selector of an item.
AtHeader == ret = "running" /\ cs = "HEADER" /\ off < len
Selector == input.data[off + 1]

\* An item is complete: go on in push_item.
Push(o) == /\ obj' = o
           /\ cs' = "PUSH"
           /\ UNCHANGED <<stack, ptr, ret>>

\* push_aggregate: an empty container is an item, another one is opened.
push_aggregate(type, n) ==
  \/ /\ n = 0
     /\ Push(Object(type, <<>>))
  \/ /\ n > 0
     /\ stack' = Append(stack,
                   [ct    |-> IF type = "ARRAY" THEN "ARRAY_ITEM" ELSE "MAP_KEY",
                    alloc |-> n, size |-> 0, count |-> n])
     /\ ptr' = Append(ptr, <<>>)
     /\ cs' = "HEADER"
     /\ UNCHANGED <<obj, ret>>

PositiveFixnum == /\ AtHeader /\ Selector <= 127
                  /\ Push(unpack_uint(<<Selector>>))
                  /\ off' = off + 1
                  /\ UNCHANGED <<input, len, trail>>

NegativeFixnum == /\ AtHeader /\ Selector >= 224
                  /\ Push(unpack_int(<<Selector>>))
                  /\ off' = off + 1
                  /\ UNCHANGED <<input, len, trail>>

\* nil, false and true.
Constant == /\ AtHeader /\ Selector \in {192, 194, 195}
            /\ \/ Selector = 192 /\ Push(Nil)
               \/ Selector # 192 /\ Push(Object("BOOLEAN", <<Selector - 194>>))
            /\ off' = off + 1
            /\ UNCHANGED <<input, len, trail>>

Trailing == /\ AtHeader /\ Selector \in 196..223
            /\ trail' = trailOf[Selector - 195]
            /\ cs' = next_cs[Selector - 195]
            /\ off' = off + 1
            /\ UNCHANGED <<input, len, obj, stack, ptr, ret>>

FixAggregate == /\ AtHeader /\ Selector \in 128..159
                /\ push_aggregate(IF Selector >= 144 THEN "ARRAY" ELSE "MAP",
                                  Selector % 16)
                /\ off' = off + 1
                /\ UNCHANGED <<input, len, trail>>

\* A body of n bytes follows; one of no bytes is complete at once.
\* (An extension's body begins with its type, so it has at least one.)
Body(type, value, n) ==
  /\ trail' = n
  /\ \/ /\ n = 0
        /\ Push(Object(type, <<>>))
     \/ /\ n > 0
        /\ cs' = value
        /\ UNCHANGED <<obj, stack, ptr, ret>>

FixStr == /\ AtHeader /\ Selector \in 160..191
          /\ Body("STR", "STR_VALUE", Selector % 32)
          /\ off' = off + 1
          /\ UNCHANGED <<input, len>>

\* 0xc1 begins no item.
Unknown == /\ AtHeader /\ Selector = 193
           /\ ret' = "error"
           /\ UNCHANGED <<input, len, off, cs, trail, obj, stack, ptr>>

-----------------------------------------------------------------------------
(* The bytes after a selector. *)

\* A faulty reading of the same test: one byte too few is enough.
EnoughOffByOne == len - off >= trail - 1

\* pe - m_current against m_trail.
Enough == len - off >= trail

AtTrail == ret = "running" /\ cs \notin {"HEADER", "PUSH"} /\ Enough
Trail == SubSeq(input.data, off + 1, off + trail)

Scalar == /\ AtTrail /\ cs \in {"FLOAT", "UINT", "INT"}
          /\ \/ cs = "FLOAT" /\ Push(Object("FLOAT", Trail))
             \/ cs = "UINT"  /\ Push(unpack_uint(Trail))
             \/ cs = "INT"   /\ Push(unpack_int(Trail))
          /\ off' = off + trail
          /\ UNCHANGED <<input, len, trail>>

\* An extension of 1, 2, 4, 8 or 16 bytes, its type before them.
FixExt == /\ AtTrail /\ cs = "FIXEXT"
          /\ Push(Object("EXT", Trail))
          /\ off' = off + trail
          /\ UNCHANGED <<input, len, trail>>

Value == /\ AtTrail /\ cs \in {"STR_VALUE", "BIN_VALUE", "EXT_VALUE"}
         /\ \/ cs = "STR_VALUE" /\ Push(Object("STR", Trail))
            \/ cs = "BIN_VALUE" /\ Push(Object("BIN", Trail))
            \/ cs = "EXT_VALUE" /\ Push(Object("EXT", Trail))
         /\ off' = off + trail
         /\ UNCHANGED <<input, len, trail>>

BodyLength == /\ AtTrail /\ cs \in {"STR", "BIN", "EXT"}
              /\ \/ cs = "STR" /\ Body("STR", "STR_VALUE", load(Trail))
                 \/ cs = "BIN" /\ Body("BIN", "BIN_VALUE", load(Trail))
                 \/ cs = "EXT" /\ Body("EXT", "EXT_VALUE", load(Trail) + 1)
              /\ off' = off + trail
              /\ UNCHANGED <<input, len>>

Aggregate == /\ AtTrail /\ cs \in {"ARRAY", "MAP"}
             /\ push_aggregate(cs, load(Trail))
             /\ off' = off + trail
             /\ UNCHANGED <<input, len, trail>>

-----------------------------------------------------------------------------
(* push_item: the item goes into the innermost container, which becomes an *)
(* item itself when it is full.                                            *)

top == Len(stack)

PushRoot == /\ ret = "running" /\ cs = "PUSH" /\ top = 0
            /\ ret' = "done"
            /\ UNCHANGED <<input, len, off, cs, trail, obj, stack, ptr>>

\* A faulty container that closes only after one item too many.
StoredLate(type, ct) ==
  IF stack[top].count = 0
  THEN /\ obj' = Object(type, Append(ptr[top], obj))
       /\ stack' = SubSeq(stack, 1, top - 1)
       /\ ptr' = SubSeq(ptr, 1, top - 1)
       /\ UNCHANGED cs
  ELSE /\ stack' = [stack EXCEPT ![top] = [ct |-> ct, alloc |-> @.alloc,
                                           size |-> @.size + 1, count |-> @.count - 1]]
       /\ ptr' = [ptr EXCEPT ![top] = Append(@, obj)]
       /\ cs' = "HEADER"
       /\ UNCHANGED obj

\* The item is stored: the container is complete, or waits for the next one.
Stored(type, ct) ==
  IF stack[top].count = 1
  THEN /\ obj' = Object(type, Append(ptr[top], obj))
       /\ stack' = SubSeq(stack, 1, top - 1)
       /\ ptr' = SubSeq(ptr, 1, top - 1)
       /\ UNCHANGED cs
  ELSE /\ stack' = [stack EXCEPT ![top] = [ct |-> ct, alloc |-> @.alloc,
                                           size |-> @.size + 1, count |-> @.count - 1]]
       /\ ptr' = [ptr EXCEPT ![top] = Append(@, obj)]
       /\ cs' = "HEADER"
       /\ UNCHANGED obj

PushArrayItem == /\ ret = "running" /\ cs = "PUSH" /\ top > 0
                 /\ stack[top].ct = "ARRAY_ITEM"
                 /\ Stored("ARRAY", "ARRAY_ITEM")
                 /\ UNCHANGED <<input, len, off, trail, ret>>

\* set_map_key.  A map's items are its keys and values in turn.
PushMapKey == /\ ret = "running" /\ cs = "PUSH" /\ top > 0
              /\ stack[top].ct = "MAP_KEY"
              /\ stack' = [stack EXCEPT ![top] = [ct |-> "MAP_VALUE", alloc |-> @.alloc,
                                                  size |-> @.size, count |-> @.count]]
              /\ ptr' = [ptr EXCEPT ![top] = Append(@, obj)]
              /\ cs' = "HEADER"
              /\ UNCHANGED <<input, len, off, trail, obj, ret>>

PushMapValue == /\ ret = "running" /\ cs = "PUSH" /\ top > 0
                /\ stack[top].ct = "MAP_VALUE"
                /\ Stored("MAP", "MAP_KEY")
                /\ UNCHANGED <<input, len, off, trail, ret>>

-----------------------------------------------------------------------------
(* Returning for want of bytes. *)

\* A faulty loop that looks for the end only between items.
OutOfBytesAtHeader == /\ ret = "running"
                      /\ cs = "HEADER" /\ off = len
                      /\ ret' = "continue"
                      /\ UNCHANGED <<input, len, off, cs, trail, obj, stack, ptr>>

OutOfBytes == /\ ret = "running"
              /\ \/ cs = "HEADER" /\ off = len
                 \/ cs \notin {"HEADER", "PUSH"} /\ ~Enough
              /\ ret' = "continue"
              /\ UNCHANGED <<input, len, off, cs, trail, obj, stack, ptr>>

Header == \/ PositiveFixnum \/ NegativeFixnum \/ Constant \/ Trailing
          \/ FixAggregate \/ FixStr \/ Unknown

push_item == PushRoot \/ PushArrayItem \/ PushMapKey \/ PushMapValue

execute == \/ Header \/ Scalar \/ FixExt \/ Value \/ BodyLength \/ Aggregate
           \/ push_item \/ OutOfBytes

-----------------------------------------------------------------------------
(* Properties. *)

Kinds == {"BIN", "EXT", "FLOAT", "UINT", "INT", "FIXEXT", "STR", "ARRAY",
          "MAP", "STR_VALUE", "BIN_VALUE", "EXT_VALUE"}

Containers == [ct    : {"ARRAY_ITEM", "MAP_KEY", "MAP_VALUE"},
               alloc : Nat, size : Nat, count : Nat]

\* Every variable has its type; m_cs is a state the loop has a case for.
ParseTypeOK == /\ input \in Inputs
               /\ len \in Nat /\ off \in Nat /\ trail \in Nat
               /\ cs \in {"HEADER", "PUSH"} \cup Kinds
               /\ stack \in Seq(Containers)
               /\ ret \in {"running", "done", "continue", "error"}

\* context::execute never reads past the bytes it has been given, wherever
\* the buffer is cut: its position stays inside what there is, and that
\* inside the buffer.
WithinBytes == off <= len /\ len <= Len(input.data)

\* An open container still has room in the array or map it was given when
\* its header was read: the items stored and those awaited are together the
\* number that was allocated, and at least one is awaited.
RoomForItem ==
  \A i \in 1..Len(stack) : /\ stack[i].count > 0
                           /\ stack[i].size + stack[i].count = stack[i].alloc

\* context::execute finishes a packed object exactly when its last byte is
\* there, at its last byte, with the object that was packed, and reports an
\* error only where no object begins: no strict prefix of an object is an
\* object, and what follows the object does not matter.
ParsedExactly ==
  /\ ret = "done" => off = input.size /\ obj = input.object
  /\ ret = "continue" => len < input.size \/ len = 0
  /\ ret = "error" => input.size = 0
=============================================================================
