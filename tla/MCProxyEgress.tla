---------------------------- MODULE MCProxyEgress ----------------------------
(***************************************************************************)
(* Two proxies in one order or none.                                       *)
(***************************************************************************)
EXTENDS ProxyEgress

CONSTANTS p1, p2

SomeLists == {<<>>, <<p1, p2>>}
=============================================================================
