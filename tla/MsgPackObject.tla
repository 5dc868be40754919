--------------------------- MODULE MsgPackObject ---------------------------
(***************************************************************************)
(* The packer of object.hpp for a msgpack::object, which is of any type    *)
(* and contains others.                                                    *)
(***************************************************************************)
EXTENDS MsgPack

\* adaptor::pack<msgpack::object>: an object and all it contains.  A double
\* has eight bytes; a float, which the parser also reads, has four.
RECURSIVE pack_object(_)
pack_object(v) ==
  LET n == Len(v.via)
      items == FlattenSeq([i \in 1..n |-> pack_object(v.via[i])])
  IN CASE v.type = "NIL" -> <<192>>
       [] v.type = "BOOLEAN" -> <<194 + v.via[1]>>
       [] v.type = "POSITIVE_INTEGER" -> pack_uint(v.via)
       [] v.type = "NEGATIVE_INTEGER" -> pack_int(v.via)
       [] v.type = "FLOAT" -> <<IF n = 8 THEN 203 ELSE 202>> \o v.via
       [] v.type = "STR" -> pack_str(n) \o v.via
       [] v.type = "BIN" -> pack_bin(n) \o v.via
       [] v.type = "EXT" -> pack_ext(n - 1, v.via[1]) \o Tail(v.via)
       [] v.type = "ARRAY" -> pack_array(n) \o items
       [] v.type = "MAP" -> pack_map(n \div 2) \o items
=============================================================================
