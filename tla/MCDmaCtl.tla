------------------------------ MODULE MCDmaCtl ------------------------------
(***************************************************************************)
(* Small instances of the DMA engine under the most general processor.     *)
(***************************************************************************)
EXTENDS DmaCtl

\* Memories with one marked word, in each place: enough to see which word a
\* copy took, and where it put it.
OneHot == {[a \in Addr |-> IF a = m THEN 1 ELSE 0] : m \in Addr}

MCLens == -1 .. Height

\* One address past the end and one before the beginning.
MCWildAddr == -1 .. Height

MCAddr == Addr

=============================================================================
