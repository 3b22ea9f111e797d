----------------------------- MODULE ByteStream -----------------------------
(***************************************************************************)
(* What a pipe promises: a reliable stream.  Bytes that were sent are      *)
(* delivered in order, each exactly once, in pieces of any size.           *)
(***************************************************************************)
EXTENDS Integers, Sequences

CONSTANT Byte

VARIABLES
    sent,        \* everything that was ever written
    delivered    \* everything that was ever read

Init == sent = <<>> /\ delivered = <<>>

Send(c) ==
    /\ sent' = Append(sent, c)
    /\ UNCHANGED delivered

Deliver(n) ==
    /\ delivered' = SubSeq(sent, 1, Len(delivered) + n)
    /\ UNCHANGED sent

Next == \/ \E c \in Byte : Send(c)
        \/ \E n \in 1 .. (Len(sent) - Len(delivered)) : Deliver(n)

Spec == Init /\ [][Next]_<<sent, delivered>>

=============================================================================
