--------------------------- MODULE MCPacketManager ---------------------------
(***************************************************************************)
(* PacketManager with one client: the streams of packets it sends.         *)
(***************************************************************************)
EXTENDS PacketManager

Packet(len, id) == [i \in 1..len |-> [o |-> i - 1, len |-> len, id |-> id]]

\* A short request, a system id that a client must not send, a longer request.
MixedStream == Packet(1, "LOGIN_REQUEST") \o Packet(1, "SYSTEM") \o Packet(2, "CHAT_SEND_REQUEST")
\* Two requests, the first of which can be cut off by the end of the session.
ShortStream == Packet(2, "LOGIN_REQUEST") \o Packet(1, "CHAT_SEND_REQUEST")
=============================================================================
