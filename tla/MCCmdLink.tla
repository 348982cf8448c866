------------------------------ MODULE MCCmdLink ------------------------------
(***************************************************************************)
(* CmdLink for TLC: the seq wraps within the first CMDs; and, with one     *)
(* frame at most on the wire, the bridge goes on building CMDs for ever,   *)
(* which are then told apart up to MaxCmds only.                           *)
(***************************************************************************)
EXTENDS CmdLink

VARIABLE forEver

Long == INSTANCE CmdLink WITH
    Endless <- TRUE, MaxCmds <- 2, MaxLead <- 1, MaxWire <- 1, MaxBehind <- 1

MCFirstSeqs == {0, SeqMod - 2}

LinkInit == forEver \in BOOLEAN /\ Init

LinkNext ==
    \/ ~forEver /\ Next /\ UNCHANGED forEver
    \/ forEver /\ Long!Next /\ UNCHANGED forEver

LinkSpec ==
    /\ LinkInit /\ [][LinkNext]_<<forEver, vars>>
    /\ forEver => Long!Fairness
-----------------------------------------------------------------------------
\* CMDs are applied in the order they were built, each at most once, over every crash and
\* reconnection: the link implements CmdDelivery.
OrderIsKept ==
    /\ Delivery!Init
    /\ [][~forEver => Delivery!Next]_<<built, applied, turn>>

\* Every CMD or a newer one is applied in the end, unless a half-open connection stays for good
\* (CmdLink).
DeliversForEver == forEver => Long!Delivers
=============================================================================
