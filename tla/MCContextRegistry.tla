------------------------- MODULE MCContextRegistry -------------------------
(* The registry with the main context, two worker contexts and one thread *)
(* that owns no context.                                                  *)
EXTENDS ContextRegistry

CONSTANTS m, w1, w2, f

MCContexts == {m, w1, w2}
MCForeign == {f}
=============================================================================
