------------------------------- MODULE Wire -------------------------------
(***************************************************************************)
(* NetworkXioMsg of NetworkXioProtocol.h: pack_msg writes its eight fields *)
(* as one MessagePack array, unpack_msg parses the header of a request or  *)
(* a reply (module MsgUnpack) and converts the array back, field by field. *)
(* A message is the sequence of its fields; see Field for their types.     *)
(***************************************************************************)
EXTENDS MsgUnpack, MsgPack

VARIABLES
  msg,      \* *this of unpack_msg
  result    \* how unpack_msg ended: "none" yet, "ok", or what it threw

vars == <<input, len, off, cs, trail, obj, stack, ptr, ret, msg, result>>

\* opcode_, filename_, size_, offset_, retval_, errval_, opaque_, timeout_:
\* the order of MSGPACK_DEFINE.  The enumeration of opcode_ is an int.
Field == <<"int", "string", "uint64", "uint64", "int64", "int",
           "uint64", "int64">>

Zero == <<0, 0, 0, 0, 0, 0, 0, 0>>

\* What NetworkXioMsg i_msg(Noop) holds before it is unpacked.
NoopMsg == <<Zero, <<>>, Zero, Zero, Zero, Zero, Zero, Zero>>

Init == ParseInit /\ msg = NoopMsg /\ result = "none"

pack_field(v, type) == CASE type = "string" -> pack_str(Len(v)) \o v
                         [] type = "uint64" -> pack_uint(v)
                         [] OTHER -> pack_int(v)

pack_msg(m) ==
  pack_array(Len(Field))
    \o FlattenSeq([i \in 1..Len(Field) |-> pack_field(m[i], Field[i])])

\* A conversion that does not compare with the limits of the type.
convertible_unchecked(o, type) ==
  CASE type = "string" -> o.type \in {"STR", "BIN"}
    [] type = "uint64" -> o.type = "POSITIVE_INTEGER"
    [] OTHER -> o.type \in {"POSITIVE_INTEGER", "NEGATIVE_INTEGER"}

\* convert<std::string> and convert_integer<T>: the type must be right and
\* the value within the limits of T; type_error is thrown otherwise.
convertible(o, type) ==
  CASE type = "string" -> o.type \in {"STR", "BIN"}
    [] type = "uint64" -> o.type = "POSITIVE_INTEGER"
    [] type = "int64" ->
         \/ o.type = "POSITIVE_INTEGER" /\ ~Negative(o.via)
         \/ o.type = "NEGATIVE_INTEGER"
    [] type = "int" ->
         \/ o.type = "POSITIVE_INTEGER" /\ Below(o.via, 4) /\ o.via[5] < 128
         \/ o.type = "NEGATIVE_INTEGER" /\ AtLeast(o.via, 4)

\* define_array::msgpack_unpack: the fields that the array has, in order, up
\* to the first that cannot be converted; those before it are stored.
Given(o) == 1..(IF Len(o.via) < Len(Field) THEN Len(o.via) ELSE Len(Field))
Bad(o) == {i \in Given(o) : ~convertible(o.via[i], Field[i])}

msgpack_unpack(o) ==
  IF o.type # "ARRAY"
  THEN result' = "type_error" /\ UNCHANGED msg
  ELSE /\ result' = IF Bad(o) = {} THEN "ok" ELSE "type_error"
       /\ msg' = [i \in DOMAIN msg |->
                    IF i \in Given(o) /\ \A j \in Bad(o) : i < j
                    THEN o.via[i].via ELSE msg[i]]

\* msgpack::unpack over the bytes there are, then obj.convert(this).
unpack_msg ==
  /\ result = "none"
  /\ \/ /\ ret = "continue"
        /\ result' = "insufficient_bytes" /\ UNCHANGED msg
     \/ /\ ret = "error"
        /\ result' = "parse_error" /\ UNCHANGED msg
     \/ /\ ret = "done"
        /\ msgpack_unpack(obj)
  /\ UNCHANGED parseVars

Parse == result = "none" /\ execute /\ UNCHANGED <<msg, result>>

Terminated == result # "none" /\ UNCHANGED vars

Next == Parse \/ unpack_msg \/ Terminated

\* The calls are ordinary code: they run until they return or throw.
Spec == /\ Init
        /\ [][Next]_vars
        /\ WF_vars(Parse) /\ WF_vars(unpack_msg)

-----------------------------------------------------------------------------
(* Properties. *)

\* unpack_msg of what pack_msg wrote gives back every field of the message,
\* at the limits of every width and sign; a header that lost its end is
\* refused and leaves the message as it was constructed, never half filled.
MsgRoundTrip ==
  result # "none" /\ input.msg # <<>> =>
    IF len >= input.size THEN result = "ok" /\ msg = input.msg
                         ELSE result = "insufficient_bytes" /\ msg = NoopMsg

\* A message that unpack_msg does not refuse holds in opcode_ and errval_,
\* the fields narrower than the integers of the encoding, values that fit
\* their 32 bits (the high four bytes repeat the sign), whatever object the
\* header held.
FieldsInRange ==
  result = "ok" =>
    \A i \in DOMAIN Field : Field[i] = "int" =>
      IF Negative(msg[i]) THEN AtLeast(msg[i], 4)
                          ELSE Below(msg[i], 4) /\ msg[i][5] < 128

\* Every call of unpack_msg returns or throws: each step of the parser uses
\* up bytes or closes a container.
UnpackReturns == <>(result # "none")
=============================================================================
