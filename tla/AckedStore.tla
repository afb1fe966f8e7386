----------------------------- MODULE AckedStore -----------------------------
(***************************************************************************)
(* What the vehicle may rely on when it streams a log: a block that was    *)
(* acknowledged is in the file, and stays there while that file is the     *)
(* current one.  The vehicle forgets a block once it is acknowledged.      *)
(***************************************************************************)
CONSTANT Seqnos
VARIABLES stored,  \* blocks in the current file
          acked    \* blocks the vehicle has been told it may forget

vars == <<stored, acked>>

Init == stored = {} /\ acked = {}

\* A block is stored; none is acknowledged by that.
Store(s) == stored' = stored \union {s} /\ acked' = acked

\* Stored blocks are acknowledged.
Acknowledge(blocks) == /\ blocks \subseteq stored
                       /\ acked' = acked \union blocks /\ stored' = stored

\* A new file begins empty, with nothing acknowledged.
NewFile == stored' = {} /\ acked' = {}

Next == \/ \E s \in Seqnos : Store(s)
        \/ \E blocks \in SUBSET Seqnos : Acknowledge(blocks)
        \/ NewFile

Spec == Init /\ [][Next]_vars
=============================================================================
