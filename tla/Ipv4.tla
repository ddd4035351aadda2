-------------------------------- MODULE Ipv4 --------------------------------
(***************************************************************************)
(* IPv4 networks (model.rs).  An address is a number of Bits bits; the     *)
(* constant Address gives the number of every text that reads as one.      *)
(***************************************************************************)
EXTENDS Integers

CONSTANTS Bits, Address

ASSUME Ipv4Assumption == Bits \in Nat

Len4 == 0 .. Bits
IsAddress(text) == text \in DOMAIN Address

\* A text that is no address stands for this network, which no reader returns.
NoNet == [addr |-> -1, len |-> 0]

\* The masks whose ones all come first, and how many there are.
MaskOf(len) == 2 ^ Bits - 2 ^ (Bits - len)
Contiguous(mask) == \E len \in Len4 : MaskOf(len) = mask
PrefixLen(mask) == CHOOSE len \in Len4 : MaskOf(len) = mask

FromAddrAndMask(addr, mask) ==
    IF IsAddress(addr) /\ IsAddress(mask) /\ Contiguous(Address[mask])
    THEN [addr |-> Address[addr], len |-> PrefixLen(Address[mask])]
    ELSE NoNet

Covers(net, ip) ==
    net.len = 0 \/ ip \div 2 ^ (Bits - net.len) = net.addr \div 2 ^ (Bits - net.len)

\* A network as it is written: an address, and a length where one follows it.
FromText(cidr) ==
    IF IsAddress(cidr.addr) /\ cidr.len \in Len4 \cup {-1}
    THEN [addr |-> Address[cidr.addr], len |-> IF cidr.len = -1 THEN Bits ELSE cidr.len]
    ELSE NoNet

ToText(net) == [addr |-> CHOOSE t \in DOMAIN Address : Address[t] = net.addr,
                len |-> net.len]

=============================================================================
