------------------------------ MODULE MCWire ------------------------------
(***************************************************************************)
(* Wire over the headers that client and server exchange, each field at    *)
(* the limits of its encodings, and over one object of every other type    *)
(* and form the parser knows.                                              *)
(***************************************************************************)
EXTENDS Wire, MsgPackObject

Fill(n, b) == [i \in 1..n |-> b]
U64(k, tail) == Fill(8 - Len(tail) - k, 0) \o tail \o Fill(k, 0)

\* 2^7, 2^8, 2^16, 2^32 and 2^63, one less, and the largest.
Unsigned ==
  {Zero, U64(0, <<127>>), U64(0, <<128>>), U64(0, <<255>>), U64(1, <<1>>),
   U64(0, <<255, 255>>), U64(2, <<1>>), U64(0, Fill(4, 255)), U64(4, <<1>>),
   <<127>> \o Fill(7, 255), U64(7, <<128>>), Fill(8, 255)}

\* -1, -2^5, -2^7, -2^15, -2^31 and one less, and -2^63.
Minus(k, tail) == Fill(8 - Len(tail) - k, 255) \o tail \o Fill(k, 255)
NegativeInts ==
  {Fill(8, 255), Minus(0, <<224>>), Minus(0, <<223>>), Minus(0, <<128>>),
   Minus(0, <<127>>), Minus(0, <<128, 0>>), Minus(1, <<255, 127>>),
   Minus(0, <<128, 0, 0, 0>>), Minus(3, <<127>>), U64(7, <<128>>)}

Signed == {d \in Unsigned : ~Negative(d)} \cup NegativeInts
Ints == {d \in Signed : IF Negative(d) THEN AtLeast(d, 4)
                        ELSE Below(d, 4) /\ d[5] < 128}

Op(n) == U64(0, <<n>>)
Pointer == <<0, 0, 127, 1, 2, 3, 4, 8>>

\* xio_send_read_request and xio_send_open_request; the replies of pack_msg
\* in NetworkXioIOHandler.cpp.
Read(name, size, offset, opaque) ==
  <<Op(5), name, size, offset, Zero, Zero, opaque, Zero>>
Reply(op, retval, errval) ==
  <<Op(op), <<>>, Zero, Zero, retval, errval, Pointer, Zero>>

Names == {Fill(n, 47) : n \in {1, 31, 32, 255, 256}}
Name == <<97, 98>>

Messages ==
  {<<Op(1), <<>>, Zero, Zero, Zero, Zero, Pointer, Zero>>}
  \cup {Read(n, Op(1), Zero, Pointer) : n \in Names}
  \cup {Read(Name, d, Zero, Pointer) : d \in Unsigned}
  \cup {Read(Name, Op(1), d, d) : d \in Unsigned}
  \cup {Reply(6, d, Zero) : d \in Signed}
  \cup {Reply(7, Fill(8, 255), d) : d \in Ints}

Str(n) == Object("STR", Fill(n, 120))
Bin(n) == Object("BIN", Fill(n, 193))
Ext(n) == Object("EXT", <<7>> \o Fill(n, 1))
Array(s) == Object("ARRAY", s)
Map(s) == Object("MAP", s)
Small == Object("POSITIVE_INTEGER", Op(3))
Big == Object("POSITIVE_INTEGER", U64(4, <<128>>))

\* The integers on either side of the limits of an int: 2^31 - 1 and 2^31,
\* -2^31 and -2^31 - 1.
AroundInt == {Object("POSITIVE_INTEGER", U64(0, <<127, 255, 255, 255>>)),
              Object("POSITIVE_INTEGER", U64(3, <<128>>)),
              Object("NEGATIVE_INTEGER", Minus(0, <<128, 0, 0, 0>>)),
              Object("NEGATIVE_INTEGER", Minus(3, <<127>>))}

Objects ==
  {Nil, Object("BOOLEAN", <<0>>), Object("FLOAT", Fill(4, 63)),
   Object("FLOAT", Fill(8, 63)), Bin(0), Bin(256), Ext(300),
   Array(<<>>), Map(<<>>), Array(Fill(16, Nil)), Map(Fill(32, Small)),
   Array(<<Object("BOOLEAN", <<1>>), Array(<<Map(<<Small, Array(<<>>)>>)>>)>>),
   Map(<<Array(<<Small, Str(1)>>), Bin(2), Nil, Map(<<Nil, Ext(4)>>)>>),
   Array(<<Small>>), Array(<<Small, Bin(3)>>), Array(<<Big, Str(1)>>),
   Array(<<Small, Small>>)}
  \cup {Ext(n) : n \in {1, 2, 3, 4, 8, 16}}
  \cup {Array(<<o>>) : o \in AroundInt}

Packed(data, object, m, extra) ==
  [data |-> data \o extra, size |-> Len(data), object |-> object, msg |-> m]

\* The array of a message's fields, as the parser sees it.
FieldObject(v, type) ==
  CASE type = "string" -> Object("STR", v)
    [] type # "string" /\ type # "uint64" /\ Negative(v) ->
         Object("NEGATIVE_INTEGER", v)
    [] OTHER -> Object("POSITIVE_INTEGER", v)
MsgObject(m) == Array([i \in 1..8 |-> FieldObject(m[i], Field[i])])

MCInputs ==
  {Packed(pack_msg(m), MsgObject(m), m, <<>>) : m \in Messages}
  \cup {Packed(pack_msg(NoopMsg), MsgObject(NoopMsg), NoopMsg, <<193, 0>>)}
  \cup {Packed(pack_object(o), o, <<>>, <<>>) : o \in Objects}
  \cup {[data |-> <<193>>, size |-> 0, object |-> Nil, msg |-> <<>>]}
=============================================================================
