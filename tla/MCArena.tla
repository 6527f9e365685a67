------------------------------- MODULE MCArena -------------------------------
(* Small address spaces for Arena. *)
EXTENDS Arena

\* malloc returns maximally aligned buffers.
MallocAligned == {[base |-> 8, cap |-> 12]}

\* Caller buffers that begin and end on the strictest alignment requested.
CallerAligned == {[base |-> 16, cap |-> 8], [base |-> 52, cap |-> 8]}

\* A caller buffer whose size is no multiple of the alignment requested: a
\* char array of 6 bytes.
CallerAnywhere == {[base |-> 16, cap |-> 6], [base |-> 21, cap |-> 6]}
=============================================================================
