------------------------------ MODULE MsgPack ------------------------------
(***************************************************************************)
(* The MessagePack packer of the vendored pack.hpp, as functions from      *)
(* values to the bytes it writes.  A 64-bit integer is its eight bytes,    *)
(* most significant first, in two's complement when it is signed.          *)
(***************************************************************************)
EXTENDS Integers, Sequences, SequencesExt

\* take8, store16, store32, store64: the last k bytes.
Low(d, k) == SubSeq(d, 9 - k, 8)

\* d < 2^(8k), and d < 2^7.
Below(d, k) == \A i \in 1..(8 - k) : d[i] = 0
Below7(d) == Below(d, 1) /\ d[8] < 128

\* d >= -2^(8k-1) and d >= -2^5, for a negative d.
Negative(d) == d[1] >= 128
AtLeast(d, k) == (\A i \in 1..(8 - k) : d[i] = 255) /\ d[9 - k] >= 128
AtLeast5(d) == AtLeast(d, 1) /\ d[8] >= 224

\* The tests of the packer on d >= 0, taken one bit too far.
pack_uint_wide(d) ==
  CASE Below(d, 1) -> Low(d, 1)
    [] ~Below(d, 1) /\ Below(d, 2) -> <<205>> \o Low(d, 2)
    [] ~Below(d, 2) /\ Below(d, 4) -> <<206>> \o Low(d, 4)
    [] OTHER -> <<207>> \o d

\* pack_imp_uint64, and the branch d >= 0 of pack_imp_int32 and _int64.
pack_uint(d) ==
  CASE Below7(d) -> Low(d, 1)
    [] ~Below7(d) /\ Below(d, 1) -> <<204>> \o Low(d, 1)
    [] ~Below(d, 1) /\ Below(d, 2) -> <<205>> \o Low(d, 2)
    [] ~Below(d, 2) /\ Below(d, 4) -> <<206>> \o Low(d, 4)
    [] OTHER -> <<207>> \o d

\* pack_imp_int32 and pack_imp_int64.
pack_int(d) ==
  IF ~Negative(d) THEN pack_uint(d)
  ELSE CASE AtLeast5(d) -> Low(d, 1)
         [] ~AtLeast5(d) /\ AtLeast(d, 1) -> <<208>> \o Low(d, 1)
         [] ~AtLeast(d, 1) /\ AtLeast(d, 2) -> <<209>> \o Low(d, 2)
         [] ~AtLeast(d, 2) /\ AtLeast(d, 4) -> <<210>> \o Low(d, 4)
         [] OTHER -> <<211>> \o d

\* A length, in the shortest of the forms a type has: the first form has the
\* length in the selector (there is none when fix = 0), the others follow it
\* with one, two or four bytes.
Two(n) == <<n \div 256, n % 256>>
Four(n) == Two(n \div 65536) \o Two(n % 65536)

pack_str(n) == CASE n < 32 -> <<160 + n>>
                 [] n \in 32..255 -> <<217, n>>
                 [] n \in 256..65535 -> <<218>> \o Two(n)
                 [] OTHER -> <<219>> \o Four(n)

pack_bin(n) == CASE n < 256 -> <<196, n>>
                 [] n \in 256..65535 -> <<197>> \o Two(n)
                 [] OTHER -> <<198>> \o Four(n)

\* n is the length of the data, without the type that comes before it.
pack_ext(n, type) ==
  CASE n \in {1, 2, 4, 8, 16} ->
         <<CASE n = 1 -> 212 [] n = 2 -> 213 [] n = 4 -> 214
             [] n = 8 -> 215 [] n = 16 -> 216, type>>
    [] n \notin {1, 2, 4, 8, 16} /\ n < 256 -> <<199, n, type>>
    [] n \in 256..65535 -> <<200>> \o Two(n) \o <<type>>
    [] OTHER -> <<201>> \o Four(n) \o <<type>>

pack_array(n) == CASE n < 16 -> <<144 + n>>
                   [] n \in 16..65535 -> <<220>> \o Two(n)
                   [] OTHER -> <<221>> \o Four(n)

pack_map(n) == CASE n < 16 -> <<128 + n>>
                 [] n \in 16..65535 -> <<222>> \o Two(n)
                 [] OTHER -> <<223>> \o Four(n)
=============================================================================
