--------------------------- MODULE MCNativeStart ---------------------------
(* A model-checking instance: one pane that exists, one that a launch creates. *)
EXTENDS NativeStart

CONSTANTS source, created, old, child

MCPanes == {source, created}
MCThreads == {old, child}
=============================================================================
