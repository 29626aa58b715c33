------------------------------- MODULE ByteFifo -------------------------------
(***************************************************************************)
(* What a User promises about the bytes of its client: they come out in    *)
(* the order they went in, one whole packet at a time, and a packet that   *)
(* is not complete yet stays where it is.                                  *)
(***************************************************************************)
EXTENDS Naturals, Sequences

CONSTANTS
  Chunks,        \* the sequences of units one Put can bring
  HeaderLength,  \* PACKET_HEADER_LENGTH
  PacketLength   \* packet_length_ as the first unit of a packet gives it

VARIABLES
  content,  \* the bytes put and not yet taken
  got       \* the packet the last Get returned, <<>> for an empty PacketInfo

Complete(q) == /\ Len(q) >= HeaderLength
               /\ PacketLength[q[1]] <= Len(q)

Init == content = <<>> /\ got = <<>>

Put(data) == /\ content' = content \o data
             /\ UNCHANGED got

GetOne == /\ Complete(content)
          /\ got' = SubSeq(content, 1, PacketLength[content[1]])
          /\ content' = SubSeq(content, PacketLength[content[1]] + 1, Len(content))

GetNone == /\ ~Complete(content)
           /\ got' = <<>>
           /\ UNCHANGED content

Next == (\E data \in Chunks : Put(data)) \/ GetOne \/ GetNone

Spec == Init /\ [][Next]_<<content, got>>
=============================================================================
