----------------------------- MODULE MCPrefetch -----------------------------
(* No file; the file of a step that may not be needed; those of two steps, one *)
(* of which may depend on the other, or on a step without a file.             *)
EXTENDS Prefetch

MCDependants == {{}, {1}, {2, 3}}
=============================================================================
