-------------------------- MODULE MCAssetPreview --------------------------
(* AssetPreview for TLC: four sources, one of which the engine refuses and   *)
(* one that hangs it, under one docinfo; or two sources under two.           *)
EXTENDS AssetPreview

CONSTANTS s1, s2, hang, bad, d1, d2

Typed == {<<s1, d1>>, <<s2, d1>>, <<hang, d1>>, <<bad, d1>>}
WithDocinfo == {<<s1, d1>>, <<s2, d1>>, <<s2, d2>>}
Hanging == {<<hang, d1>>}
Refused == {<<bad, d1>>}
Nothing == {}
=============================================================================
