---------------------------- MODULE AddressFilter ----------------------------
(***************************************************************************)
(* _is_private_address of phip.federation, on the texts that getaddrinfo   *)
(* gives: canonical, where a hextet has no leading zeros and the longest   *)
(* run of zero hextets is left out.  The texts that inet_pton does not     *)
(* take, which count as private, are none of them.                         *)
(***************************************************************************)
EXTENDS Integers

\* An address, by what the filter looks at: the first two octets of an IPv4 address
\* or of the one that an IPv6 address maps; the first hextet of an IPv6 address; and
\* whether the others are all zero, all zero but for a final one, zero up to
\* ffff and a mapped address, or anything else.
Octets == 0..255
Hextets == 0..65535

AllAddresses ==
  [family : {4, 6}, a : Octets, b : Octets, first : Hextets,
   rest : {"zero", "one", "mapped", "other"}]

\* Mutant of IsPrivateV4: the ends of 172.16.0.0/12 and 100.64.0.0/10 are left out.
IsPrivateV4ExceptEnds(a, b) ==
  \/ a \in {0, 127, 10}
  \/ a = 100 /\ b \in 65..126
  \/ a = 169 /\ b = 254
  \/ a = 172 /\ b \in 17..30
  \/ a = 192 /\ b = 168
  \/ a >= 224

IsPrivateV4(a, b) ==
  \/ a \in {0, 127}
  \/ a = 10
  \/ a = 100 /\ 64 <= b /\ b <= 127
  \/ a = 169 /\ b = 254
  \/ a = 172 /\ 16 <= b /\ b <= 31
  \/ a = 192 /\ b = 168
  \/ a >= 224

\* The hexadecimal digits of a hextet, from the left; a hextet is written with four
\* only when the first of them is not zero.
Digit1(hextet) == hextet \div 4096
Digit2(hextet) == (hextet \div 256) % 16
Digit3(hextet) == (hextet \div 16) % 16

\* "::1" and "::", "::ffff:1.2.3.4", and the patterns fe[89ab]x:, f[cd]xx: and ffxx:.
IsPrivateV6(addr) ==
  \/ addr.first = 0 /\ addr.rest \in {"zero", "one"}
  \/ addr.first = 0 /\ addr.rest = "mapped" /\ IsPrivateV4(addr.a, addr.b)
  \/ /\ Digit1(addr.first) = 15
     /\ \/ Digit2(addr.first) = 14 /\ Digit3(addr.first) \in 8..11
        \/ Digit2(addr.first) \in {12, 13}
        \/ Digit2(addr.first) = 15

IsPrivateAddress(addr) ==
  IF addr.family = 4 THEN IsPrivateV4(addr.a, addr.b) ELSE IsPrivateV6(addr)

-----------------------------------------------------------------------------
(* The same by the ranges that the code's comments name *)

\* A prefix stands for a block of so many numbers of 16 bits.
InBlock(number, block) == number \div block.size = block.base \div block.size

Block(base, size) == [base |-> base, size |-> size]

\* By their first two octets: this network, loopback, the private networks 10/8,
\* 172.16/12 and 192.168/16, carrier-grade NAT 100.64/10, link-local 169.254/16,
\* and the multicast and reserved networks 224/4 and 240/4.
BlocksV4 ==
  {Block(256 * 0, 256), Block(256 * 127, 256), Block(256 * 10, 256), Block(256 * 172 + 16, 16),
   Block(256 * 192 + 168, 1), Block(256 * 100 + 64, 64), Block(256 * 169 + 254, 1),
   Block(256 * 224, 4096), Block(256 * 240, 4096)}

\* By their first hextet: fe80::/10, fc00::/7 and ff00::/8.
BlocksV6 == {Block(65152, 64), Block(64512, 512), Block(65280, 256)}

IsSpecialV4(a, b) == \E block \in BlocksV4 : InBlock(256 * a + b, block)

IsSpecial(addr) ==
  IF addr.family = 4 THEN IsSpecialV4(addr.a, addr.b)
  ELSE \/ addr.first = 0 /\ addr.rest \in {"zero", "one"}
       \/ addr.first = 0 /\ addr.rest = "mapped" /\ IsSpecialV4(addr.a, addr.b)
       \/ \E block \in BlocksV6 : InBlock(addr.first, block)
=============================================================================
