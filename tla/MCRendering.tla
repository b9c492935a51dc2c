----------------------------- MODULE MCRendering -----------------------------
(* Rendering on small sets: two versions of two pages, of different sizes and  *)
(* with different hits.                                                       *)
EXTENDS Rendering, TLC

CONSTANTS a, b

TwoPages == <<1, 2>>
HitsOf == (a :> <<0, 1>>) @@ (b :> <<1, 2>>)
=============================================================================
