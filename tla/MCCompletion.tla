---------------------------- MODULE MCCompletion ----------------------------
(* A small instance of Completion for TLC: a primary route and a fallback,  *)
(* overrides that name an endpoint without a plugin and another model.     *)
EXTENDS Completion

CONSTANTS a, b, c, x, y

MCRoute == {<<a, x>>, <<b, y>>, <<b, x>>, <<c, x>>}
MCChain == <<<<a, x>>, <<b, y>>>>
MCOverrides == {<<>>, <<<<c, x>>, <<b, x>>>>}
NoOverrides == {<<>>}
MCPinned == {<<b, y>>}
=============================================================================
