----------------------------- MODULE MCReadings -----------------------------
(***************************************************************************)
(* The instance of Readings that TLC checks.  Frames: every data type and  *)
(* byte order over the two Modbus protocols and one custom framing, and    *)
(* every custom framing with an 8-bit and a 16-bit value.  Processing:     *)
(* every kind of rule, alone or with one that shares its state.            *)
(***************************************************************************)
EXTENDS Readings

MCPoints == <<"p", "q">>
MCRounds == <<3, 2>>

Do(kind, abort) == [kind |-> kind, positive |-> FALSE, abort |-> abort, loops |-> 0]
Again(r) == [r EXCEPT !.loops = 1]
IfPositive(r) == [r EXCEPT !.positive = TRUE]

All == {0, 1, Null, Text}
Few == {1, 2, Null}

Pipe(rules, points, values, limits, filtering) ==
  [enabled |-> TRUE, rules |-> rules, points |-> points, values |-> values, limits |-> limits,
   filtering |-> filtering, aggregating |-> FALSE]
Plain(points, values, limits, filtering, aggregating) ==
  [enabled |-> FALSE, rules |-> <<>>, points |-> points, values |-> values, limits |-> limits,
   filtering |-> filtering, aggregating |-> aggregating]

MCSetups ==
  { Pipe(<<Do("duplicate", TRUE)>>, 2, Few, FALSE, FALSE), Pipe(<<Do("change", TRUE)>>, 1, All \cup {2}, FALSE, FALSE),
    Pipe(<<Do("aggregate", FALSE)>>, 1, All, FALSE, FALSE),
    Pipe(<<Do("duplicate", TRUE), Again(Do("change", FALSE))>>, 1, Few, TRUE, FALSE),
    Pipe(<<Do("aggregate", TRUE), Do("fusion", FALSE)>>, 1, Few, TRUE, FALSE),
    Pipe(<<Do("convert", TRUE), Again(Do("compute", FALSE)), Do("threshold", TRUE)>>, 1, All, FALSE, TRUE),
    Pipe(<<Do("null", TRUE), Do("encrypt", FALSE), IfPositive(Do("transform", FALSE))>>, 2, {1, Null}, FALSE, FALSE),
    Pipe(<<IfPositive(Do("encrypt", FALSE))>>, 1, {0, 1, Text}, TRUE, TRUE),
    Plain(2, Few, FALSE, FALSE, TRUE), Plain(1, All, TRUE, TRUE, TRUE), Plain(2, {1, Text}, FALSE, TRUE, FALSE) }

Link(proto, start, end, method, type, order) ==
  [proto |-> proto, start |-> start, end |-> end, method |-> method, type |-> type, order |-> order]

MCTypes == {"uint8", "int16", "uint16", "int16_ab", "H", "uint32", "L", "float32", "float32_abcd", "float32_cdab"}
MCOrders == {"big_endian", "little_endian", "big_endian_swap"}
MCMethods == {"none", "crc16", "crc16_ccitt", "crc32", "xor", "sum"}

MCLinks ==
  {Link(p, <<>>, <<>>, "none", t, o) : p \in {"modbus_rtu", "modbus_tcp"}, t \in MCTypes, o \in MCOrders}
    \cup {Link("custom", <<126>>, <<13>>, "none", t, o) : t \in MCTypes, o \in MCOrders}
    \cup {Link("custom", s, e, m, t, "big_endian") :
            s \in {<<>>, <<126>>}, e \in {<<>>, <<13>>}, m \in MCMethods, t \in {"uint8", "uint16"}}

=============================================================================
