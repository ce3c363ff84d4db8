---------------------------- MODULE MCMetaNodes ----------------------------
(***************************************************************************)
(* Two nodes in each of two or three data centres, in any order.           *)
(***************************************************************************)
EXTENDS MetaNodes, TLC

CONSTANTS d1, d2, d3, n1, n2, n3, n4, n5, n6

TwoDcs == {d1, d2}
ThreeDcs == {d1, d2, d3}
FourNodes == {n1, n2, n3, n4}
SixNodes == FourNodes \cup {n5, n6}

TwoEach == [n \in SixNodes |-> CASE n \in {n1, n2} -> d1
                                 [] n \in {n3, n4} -> d2
                                 [] OTHER -> d3]
InTwoDcs == [n \in FourNodes |-> TwoEach[n]]

AllRoles == {"secondary", "standby"}
StandbyOnly == {"standby"}
=============================================================================
