------------------------------- MODULE CmdSeq -------------------------------
(***************************************************************************)
(* The wrapping sequence number of CMD frames: the comparator the flight   *)
(* controller dedupes with (CmdSeq.h) and its mirror in the backend        *)
(* (_seq_advances in state.py).  The program uses SeqMod = 2^31.           *)
(***************************************************************************)
EXTENDS Integers

CONSTANT SeqMod          \* size of the sequence space (kCmdSeqMod)

ASSUME SeqModAssumption == SeqMod \in Nat /\ SeqMod >= 2 /\ SeqMod % 2 = 0

Seqs == 0 .. SeqMod - 1

SeqHalf == SeqMod \div 2

SeqDiff(prev, candidate) == (candidate - prev) % SeqMod

\* TRUE iff candidate is strictly ahead of prev, at most half the space away.
SeqAdvances(prev, candidate) ==
    SeqDiff(prev, candidate) \in 1 .. SeqHalf

\* Fault: the seq does not wrap.
SeqNextUnwrapped(s) == s + 1

SeqNext(s) == (s + 1) % SeqMod
=============================================================================
