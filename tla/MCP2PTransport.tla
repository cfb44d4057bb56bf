--------------------------- MODULE MCP2PTransport ---------------------------
(* Two nodes, and STUN answers with up to three attributes. *)
EXTENDS P2PTransport

CONSTANTS a, b

Pair == a :> b @@ b :> a
ThreeFromB == a :> 0 @@ b :> 3
TwiceA == a :> 2 @@ b :> 1
Nothing == a :> 0 @@ b :> 0

Address == [ip |-> <<203, 0, 113, 42>>, port |-> <<212, 49>>]
Home == <<127, 0, 0, 1>>

Filled(n, byte) == [i \in 1..n |-> byte]

(* The address as a server writes it, and one of the other version. *)
Written == XorMappedAddress \o <<0, 8, 0, 1>> \o Unmask(Address.port) \o Unmask(Address.ip)
WrittenIPv6 == XorMappedAddress \o <<0, 20, 0, 2>> \o Unmask(Address.port) \o Filled(16, 32)

(* SOFTWARE, with a text of k bytes and the padding that this needs. *)
Software(k) == <<128, 34, 0, k>> \o Filled(k, 65) \o Filled((4 - k) % 4, 0)

(* A message of type t01, whose length leaves out the last c bytes. *)
Answer(t, body, c) == <<t, 1, 0, Len(body) - c>> \o MagicCookie \o Filled(12, 9) \o body

(* Up to two attributes before the address. *)
Before == {<<>>} \union {Software(k) : k \in 0..9}

Answered == {Answer(1, x \o y \o Written, 0) : x, y \in Before}

(* Requests, errors and other addresses, answers cut short, and other things. *)
Others ==
  {Answer(t, x \o WrittenIPv6, c) : x \in Before, t \in {0, 1}, c \in {0, 24}}
    \union {Answer(0, Written, 0), Answer(1, Written, 12), Answer(1, <<>>, 0),
            Filled(8, 0), Filled(32, 1)}

Messages == Answered \union Others
=============================================================================
