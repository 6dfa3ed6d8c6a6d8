------------------------ MODULE MCSequentialRanging ------------------------
(* Instances of SequentialRanging for TLC: ANCHORs 1 and 2, TAGs 3 and 4.  *)
EXTENDS SequentialRanging

BothAnchors == {<<1, 2>>}
OneAnchor == {<<1>>}
AnyAnchors == {<<>>, <<1>>, <<2>>, <<1, 2>>}
BothTags == {<<3, 4>>}
OneTag == {<<3>>}
AnyTags == {<<3>>, <<4>>, <<3, 4>>}
=============================================================================
