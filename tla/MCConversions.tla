--------------------------- MODULE MCConversions ----------------------------
(* Lines of every kind: two names of one button, a disabled button, an     *)
(* unknown target, numbers beyond both bounds, keys in a wrong section.    *)
(* Bytes: the blank ones, the default trim, both sides of the power limit  *)
(* and of every bit that has a meaning.                                    *)
EXTENDS Conversions

MCLines ==
    {Text, Header("buttons"), Header("sticks"), Header("vibration"), Header("unknown"),
     Pair("guide", Word("b")), Pair("xbox", Word("none")), Pair("a", Word("turbo")),
     Pair("left_deadzone", Percent(1000)), Pair("left_deadzone", Number(1000)),
     Pair("left_deadzone", Number(-50)), Pair("left_deadzone", Word("nan")),
     Pair("swap_sticks", Word("on")), Pair("level", Number(20000)), Pair("level", Word("nan"))}

MCContents == {0, 1, 20, 46, 47, 48, 63, 64, 65, 127, 128, 129, 191, 192, 193, 254, 255}
=============================================================================
