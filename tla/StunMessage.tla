---------------------------- MODULE StunMessage ----------------------------
(***************************************************************************)
(* parseBindingResponse: what a STUN server says of the address a datagram  *)
(* came from, read out of the bytes of its answer.  A message is a sequence *)
(* of bytes; the offsets are the code's, so byte o of the buffer is         *)
(* buf[o + 1].                                                              *)
(***************************************************************************)
EXTENDS Integers, Sequences

MagicCookie == <<33, 18, 164, 66>>     \* 0x2112a442
BindingResponse == <<1, 1>>            \* 0x0101
XorMappedAddress == <<0, 32>>          \* 0x0020
IPv4 == 1

Null == [ip |-> <<>>, port |-> <<>>]

Byte(buf, o) == buf[o + 1]
Bytes(buf, o, n) == SubSeq(buf, o + 1, o + n)
UInt16(buf, o) == 256 * Byte(buf, o) + Byte(buf, o + 1)

(* x ^ y of two bytes: bit i of each is compared. *)
Xor(x, y) ==
  LET below[i \in 0..8] ==
        IF i = 0 THEN 0
        ELSE LET bit == 2^(i - 1)
             IN  below[i - 1] + (IF (x \div bit) % 2 # (y \div bit) % 2 THEN bit ELSE 0)
  IN  below[8]

(* A number xored with the cookie, or with its upper half, is so bytewise. *)
Unmask(bytes) == [i \in 1..Len(bytes) |-> Xor(bytes[i], MagicCookie[i])]

(* The value of the attribute at offset o.  The code reads eight bytes of it *)
(* whatever its length: of a shorter one at the end of the buffer it would   *)
(* read past the end and throw, which no message modelled here does.         *)
EndpointAt(buf, o) ==
  IF Byte(buf, o + 5) # IPv4 THEN Null
  ELSE [ip |-> Unmask(Bytes(buf, o + 8, 4)), port |-> Unmask(Bytes(buf, o + 6, 2))]

(* Slip: attributes follow each other without padding. *)
SizeUnpadded(attrLen) == 4 + attrLen

(* Header, value and padding to four bytes. *)
Size(attrLen) == 4 + attrLen + ((4 - (attrLen % 4)) % 4)

(* The loop over the attributes, within the declared and the real length. *)
Scan(buf) ==
  LET end == 20 + UInt16(buf, 2)
      from[o \in Nat] ==
        IF o + 4 > end \/ o + 4 > Len(buf) THEN Null
        ELSE LET attrLen == UInt16(buf, o + 2)
             IN  IF Bytes(buf, o, 2) = XorMappedAddress /\ o + 4 + attrLen <= Len(buf)
                 THEN EndpointAt(buf, o)
                 ELSE from[o + Size(attrLen)]
  IN  from[20]

Parse(buf) ==
  IF \/ Len(buf) < 20
     \/ Bytes(buf, 0, 2) # BindingResponse
     \/ Bytes(buf, 4, 4) # MagicCookie
  THEN Null ELSE Scan(buf)

-----------------------------------------------------------------------------
(* What a message says, by the format (RFC 5389, sections 6 and 15) and not  *)
(* by the parser: after a header of 20 bytes come attributes, as many bytes  *)
(* as the header says, each with a type, a length and a value, and each      *)
(* begins at a multiple of four.                                             *)

IsResponse(m) ==
  Len(m) >= 20 /\ Bytes(m, 0, 2) = BindingResponse /\ Bytes(m, 4, 4) = MagicCookie

EndOf(m) == 20 + UInt16(m, 2)

(* The first multiple of four that is not inside the attribute at o. *)
Follows(m, o, n) == n % 4 = 0 /\ n - (o + 4 + UInt16(m, o + 2)) \in 0..3

(* The attributes of m begin at the offsets in S. *)
Attributes(m, S) ==
  /\ IsResponse(m)
  /\ EndOf(m) <= Len(m)
  /\ 20 \in S \union {EndOf(m)}
  /\ \A o \in S :
       /\ o + 4 + UInt16(m, o + 2) <= EndOf(m)
       /\ \E n \in S \union {EndOf(m)} :
            Follows(m, o, n) /\ \A p \in S : o < p => n <= p

IsAddress(m, o) == Bytes(m, o, 2) = XorMappedAddress

Begins(m) == {o \in 20..Len(m) - 4 : o % 4 = 0}

(* m is an answer with one address, endpoint, masked with the cookie. *)
Says(m, endpoint) ==
  \E S \in SUBSET Begins(m) :
    /\ Attributes(m, S)
    /\ \E o \in S : /\ \A p \in S : IsAddress(m, p) <=> p = o
                    /\ UInt16(m, o + 2) = 8 /\ Byte(m, o + 5) = IPv4
                    /\ Unmask(Bytes(m, o + 8, 4)) = endpoint.ip
                    /\ Unmask(Bytes(m, o + 6, 2)) = endpoint.port

(* m is no answer, or its addresses, if any, are of another version than the *)
(* one that Eden uses, and as long as that version has them.                 *)
SaysNothing(m) ==
  \/ ~IsResponse(m)
  \/ \E S \in SUBSET Begins(m) :
       /\ Attributes(m, S)
       /\ \A o \in S : IsAddress(m, o) => UInt16(m, o + 2) >= 2 /\ Byte(m, o + 5) # IPv4
=============================================================================
