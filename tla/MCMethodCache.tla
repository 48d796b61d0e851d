--------------------------- MODULE MCMethodCache ---------------------------
(***************************************************************************)
(* A chain of three types for MethodCache.                                 *)
(***************************************************************************)
EXTENDS MethodCache

Supers == [object |-> <<>>, A |-> <<"object">>, B |-> <<"A", "object">>]
Orders == [object |-> <<"object">>, A |-> <<"A", "object">>, B |-> <<"B", "A", "object", "object">>]

=============================================================================
