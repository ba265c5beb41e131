----------------------------- MODULE MCSettings -----------------------------
(* The default, guide as an ordinary button, an ordinary button as guide,  *)
(* and a disabled guide button.                                            *)
EXTENDS Settings

MCTexts ==
    {Default, [Default EXCEPT !["Guide"] = {"a"}], [Default EXCEPT !["A"] = {"guide"}],
     [Default EXCEPT !["Guide"] = {}]}
=============================================================================
