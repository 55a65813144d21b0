----------------------------- MODULE ByteChannel -----------------------------
(***************************************************************************)
(* What receiving on one socket promises.  A byte is its position in the   *)
(* stream the peer sent.  Bytes are handed over in order, none twice and   *)
(* none that was not sent; a gap may only follow a loss that happened      *)
(* below (`lossy`).                                                        *)
(***************************************************************************)
EXTENDS Integers

VARIABLES
  sent,    \* bytes the peer has sent
  chunk,   \* the last bytes handed to the application: from .. to - 1
  lossy    \* some byte was dropped after the modem had it

Init ==
  /\ sent = 0
  /\ chunk = [from |-> 0, to |-> 0]
  /\ lossy = FALSE

Send == sent' \in Nat /\ sent < sent' /\ UNCHANGED <<chunk, lossy>>

Lose == lossy' = TRUE /\ UNCHANGED <<sent, chunk>>

Deliver ==
  /\ \E from, to \in 0 .. sent :
       /\ chunk.to <= from /\ from < to
       /\ lossy \/ from = chunk.to
       /\ chunk' = [from |-> from, to |-> to]
  /\ UNCHANGED <<sent, lossy>>

Next == Send \/ Lose \/ Deliver

Spec == Init /\ [][Next]_<<sent, chunk, lossy>>
=============================================================================
