-------------------------------- MODULE IpRanges -------------------------------
(***************************************************************************)
(* Which registry an IP address belongs to (src/src/ip.rs).  An IPv4       *)
(* address is its four octets.  An IPv6 address is its first two segments  *)
(* and then 0, 1 or 2 for a rest that is zero, one or anything else: the   *)
(* code looks no closer.                                                   *)
(***************************************************************************)
EXTENDS Integers, Sequences, FiniteSetsExt

IsV4(ip) == Len(ip) = 4

Octet == 0..255
Segment == {n \in Nat : n <= \hffff}
Addresses == (Octet \X Octet \X Octet \X Octet) \cup (Segment \X Segment \X (0..2))

\* Ranges are compared by the first two octets or segments, where all begin and end.
NotAfter(a, b) == a[1] < b[1] \/ (a[1] = b[1] /\ a[2] <= b[2])
Contains(range, ip) == NotAfter(range[1], ip) /\ NotAfter(ip, range[2])

Blocks(octets) == {<<<<a, 0>>, <<a, 255>>>> : a \in octets}

\* The /8 blocks of each registry, and the part of 100.0.0.0/8 below 100.64.0.0/10.
ARIN4 ==
    Blocks({3, 4} \cup 6..9 \cup 11..13 \cup 15..20 \cup {23, 24} \cup 32..35
           \cup {40, 44, 47, 48, 50, 52} \cup 54..56 \cup 63..76 \cup 96..99
           \cup {104, 107, 108})
    \cup {<<<<100, 0>>, <<100, 63>>>>}

RIPE4 ==
    Blocks({2, 5, 25, 31, 37, 46, 51, 53, 62} \cup 77..95
           \cup {109, 176, 178, 185, 188} \cup 193..195 \cup {212, 213, 217})

APNIC4 ==
    Blocks({1, 14, 27, 36, 39, 42, 43, 49} \cup 58..61 \cup {101, 103, 106}
           \cup 110..126 \cup {133, 150, 153, 163, 202, 203, 210, 211} \cup 218..223)

LACNIC4 == Blocks({177, 179, 181, 186, 187} \cup 189..191 \cup {200, 201})

AFRINIC4 == Blocks({41, 102, 105, 154, 196, 197})

ipv4_ranges == <<<<"ARIN", ARIN4>>, <<"RIPE", RIPE4>>, <<"APNIC", APNIC4>>,
                 <<"LACNIC", LACNIC4>>, <<"AFRINIC", AFRINIC4>>>>

\* Mutant: a block within one of RIPE's is listed under ARIN.
ipv6_ranges_overlapping == <<
    <<"ARIN", {<<<<\h2001, \h640>>, <<\h2001, \h65f>>>>,
               <<<<\h2600, 0>>, <<\h26ff, \hffff>>>>}>>,
    <<"RIPE", {<<<<\h2001, \h600>>, <<\h2001, \h7ff>>>>,
               <<<<\h2a00, 0>>, <<\h2aff, \hffff>>>>}>>>>

\* Several blocks of a registry lie in a larger one of the same registry.
ipv6_ranges == <<
    <<"ARIN", {<<<<\h2001, \h400>>, <<\h2001, \h5ff>>>>,
               <<<<\h2600, 0>>, <<\h26ff, \hffff>>>>,
               <<<<\h2610, 0>>, <<\h261f, \hffff>>>>,
               <<<<\h2620, 0>>, <<\h262f, \hffff>>>>}>>,
    <<"RIPE", {<<<<\h2001, \h600>>, <<\h2001, \h7ff>>>>,
               <<<<\h2a00, 0>>, <<\h2aff, \hffff>>>>}>>,
    <<"APNIC", {<<<<\h2001, \h200>>, <<\h2001, \h3ff>>>>,
                <<<<\h2400, 0>>, <<\h24ff, \hffff>>>>,
                <<<<\h2001, \hc00>>, <<\h2001, \hdff>>>>}>>,
    <<"LACNIC", {<<<<\h2800, 0>>, <<\h28ff, \hffff>>>>,
                 <<<<\h2801, 0>>, <<\h2801, \h1ff>>>>}>>,
    <<"AFRINIC", {<<<<\h2001, \h4200>>, <<\h2001, \h43ff>>>>,
                  <<<<\h2c00, 0>>, <<\h2cff, \hffff>>>>}>>>>

\* Mutant: the shared address space counts as public.
is_private_only(ip) == IsV4(ip) /\ ip[1] \in {10, 127}

\* Private, loopback, link-local, documentation, broadcast, multicast, unspecified,
\* shared, reserved and benchmarking addresses; the masks of the code as divisions.
is_private_or_special(ip) ==
    IF IsV4(ip)
    THEN LET a == ip[1]
             b == ip[2]
         IN \/ a = 10 \/ (a = 172 /\ b \in 16..31) \/ (a = 192 /\ b = 168)
            \/ a = 127
            \/ a = 169 /\ b = 254
            \/ <<a, b, ip[3]>> \in {<<192, 0, 2>>, <<198, 51, 100>>, <<203, 0, 113>>}
            \/ a \in 224..239
            \/ ip = <<0, 0, 0, 0>>
            \/ a = 100 /\ b \div 64 = 1
            \/ a >= 240
            \/ a = 198 /\ b \div 2 = 9
    ELSE \/ ip \in {<<0, 0, 0>>, <<0, 0, 1>>}
         \/ ip[1] \div 256 = \hff
         \/ ip[1] \div 512 = \hfc00 \div 512
         \/ ip[1] \div 64 = \hfe80 \div 64
         \/ ip[1] = \h2001 /\ ip[2] = \hdb8

\* The first range of the table that contains the address.  Special addresses are
\* refused; those the table misses go to ARIN, which refers to their registry.
detect_rir(ip) ==
    LET table == IF IsV4(ip) THEN ipv4_ranges ELSE ipv6_ranges
        hits == {i \in DOMAIN table : \E r \in table[i][2] : Contains(r, ip)}
    IN IF is_private_or_special(ip) THEN "Unsupported"
       ELSE IF hits = {} THEN "ARIN"
       ELSE table[Min(hits)][1]
===============================================================================
