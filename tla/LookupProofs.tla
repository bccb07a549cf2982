------------------------------ MODULE LookupProofs -----------------------------
(***************************************************************************)
(* Theorems about Lookup, for any inputs, answers of servers and limits.   *)
(***************************************************************************)
EXTENDS Lookup, FiniteInduction, SequenceTheorems, TLAPS

-------------------------------------------------------------------------------
(* Registries and special addresses *)

\* A block of addresses is given by its first octet.
LEMMA InBlocks ==
    ASSUME NEW S \in SUBSET Int, NEW ip, ip[1] \in 0..255, ip[2] \in 0..255
    PROVE  (\E range \in Ip!Blocks(S) : Ip!Contains(range, ip)) <=> ip[1] \in S
<1>1. ASSUME ip[1] \in S
      PROVE  Ip!Contains(<<<<ip[1], 0>>, <<ip[1], 255>>>>, ip)
  BY DEF Ip!Contains, Ip!NotAfter
<1>2. ASSUME NEW s \in S, Ip!Contains(<<<<s, 0>>, <<s, 255>>>>, ip)
      PROVE  ip[1] = s
  BY <1>2 DEF Ip!Contains, Ip!NotAfter
<1> QED
  BY <1>1, <1>2 DEF Ip!Blocks

\* The code's tests of an address with masks and the ranges of the RFCs agree, ...
LEMMA SpecialAgrees4 ==
    ASSUME NEW ip \in Ip!Octet \X Ip!Octet \X Ip!Octet \X Ip!Octet
    PROVE  Ip!is_private_or_special(ip) <=> Special(ip)
<1> DEFINE a == ip[1]
           b == ip[2]
           S == {10, 127} \cup 224..255
<1>1. Ip!IsV4(ip) /\ a \in 0..255 /\ b \in 0..255
  BY DEF Ip!IsV4, Ip!Octet
<1>2. (\E range \in Ip!Blocks(S) : Ip!Contains(range, ip)) <=> a \in S
  <2>1. S \in SUBSET Int
    OBVIOUS
  <2> QED
    BY <1>1, <2>1, InBlocks
<1>3. /\ Ip!Contains(<<<<172, 16>>, <<172, 31>>>>, ip) <=> a = 172 /\ b \in 16..31
      /\ Ip!Contains(<<<<192, 168>>, <<192, 168>>>>, ip) <=> a = 192 /\ b = 168
      /\ Ip!Contains(<<<<169, 254>>, <<169, 254>>>>, ip) <=> a = 169 /\ b = 254
      /\ Ip!Contains(<<<<100, 64>>, <<100, 127>>>>, ip) <=> a = 100 /\ b \in 64..127
      /\ Ip!Contains(<<<<198, 18>>, <<198, 19>>>>, ip) <=> a = 198 /\ b \in 18..19
  BY <1>1 DEF Ip!Contains, Ip!NotAfter
<1>4. /\ b \div 64 = 1 <=> b \in 64..127
      /\ b \div 2 = 9 <=> b \in 18..19
      /\ a \in S <=> a = 10 \/ a = 127 \/ a \in 224..239 \/ a >= 240
  BY <1>1
<1>5. (\E range \in SpecialRanges4 : Ip!Contains(range, ip)) <=>
          \/ a \in S \/ (a = 172 /\ b \in 16..31) \/ (a = 192 /\ b = 168)
          \/ (a = 169 /\ b = 254) \/ (a = 100 /\ b \in 64..127) \/ (a = 198 /\ b \in 18..19)
  <2> HIDE DEF S, a, b
  <2> QED
    BY <1>2, <1>3 DEF SpecialRanges4, S
<1> QED
  BY <1>1, <1>4, <1>5 DEF Ip!is_private_or_special, Special

\* A segment of an IPv6 address is a number of 16 bits.
LEMMA SegmentRange == \A x \in Ip!Segment : x \in Int /\ 0 <= x /\ x <= 65535
BY DEF Ip!Segment

\* ... for both kinds of addresses.
LEMMA SpecialAgrees6 ==
    ASSUME NEW ip \in Ip!Segment \X Ip!Segment \X (0..2)
    PROVE  Ip!is_private_or_special(ip) <=> Special(ip)
<1> DEFINE a == ip[1]
           b == ip[2]
<1>1. ~Ip!IsV4(ip) /\ a \in Ip!Segment /\ b \in Ip!Segment
  BY DEF Ip!IsV4
<1>2. a \in Int /\ b \in Int /\ 0 <= a /\ 0 <= b /\ a <= 65535 /\ b <= 65535
  <2> HIDE DEF a, b
  <2> QED
    BY <1>1, SegmentRange
<1>3. /\ Ip!Contains(<<<<64512, 0>>, <<65023, 65535>>>>, ip) <=> 64512 <= a /\ a <= 65023
      /\ Ip!Contains(<<<<65152, 0>>, <<65215, 65535>>>>, ip) <=> 65152 <= a /\ a <= 65215
      /\ Ip!Contains(<<<<65280, 0>>, <<65535, 65535>>>>, ip) <=> 65280 <= a
      /\ Ip!Contains(<<<<8193, 3512>>, <<8193, 3512>>>>, ip) <=> a = 8193 /\ b = 3512
  BY <1>2 DEF Ip!Contains, Ip!NotAfter
<1>4. /\ a \div 256 = 255 <=> 65280 <= a
      /\ a \div 512 = 64512 \div 512 <=> 64512 <= a /\ a <= 65023
      /\ a \div 64 = 65152 \div 64 <=> 65152 <= a /\ a <= 65215
  <2> HIDE DEF a
  <2> QED
    BY <1>2
<1>5. (\E range \in SpecialRanges6 : Ip!Contains(range, ip)) <=>
          \/ (64512 <= a /\ a <= 65023) \/ (65152 <= a /\ a <= 65215) \/ 65280 <= a
          \/ (a = 8193 /\ b = 3512)
  <2> HIDE DEF a, b
  <2> QED
    BY <1>3 DEF SpecialRanges6
<1> QED
  BY <1>1, <1>4, <1>5 DEF Ip!is_private_or_special, Special

\* is_private_or_special, which masks bits, says of every address what the ranges say.
LEMMA SpecialAgrees ==
    ASSUME NEW ip \in Ip!Addresses
    PROVE  Ip!is_private_or_special(ip) <=> Special(ip)
BY SpecialAgrees4, SpecialAgrees6 DEF Ip!Addresses

\* An address has no registry exactly if it is special: all others have one, or are left
\* to ARIN.
LEMMA OnlySpecialUnsupported ==
    ASSUME NEW ip \in Ip!Addresses
    PROVE  Ip!detect_rir(ip) = "Unsupported" <=> Special(ip)
<1> DEFINE table == IF Ip!IsV4(ip) THEN Ip!ipv4_ranges ELSE Ip!ipv6_ranges
           hits == {i \in DOMAIN table : \E r \in table[i][2] : Ip!Contains(r, ip)}
           found == table[Min(hits)][1]
<1>1. Ip!detect_rir(ip) = IF Ip!is_private_or_special(ip) THEN "Unsupported"
                          ELSE IF hits = {} THEN "ARIN" ELSE found
  BY DEF Ip!detect_rir, Min, Ip!Min
<1>2. DOMAIN table = 1..5 /\ \A i \in 1..5 : table[i][1] # "Unsupported"
  BY DEF Ip!ipv4_ranges, Ip!ipv6_ranges
<1>3. hits # {} => found # "Unsupported"
  <2> HIDE DEF table
  <2>1. hits \in SUBSET Nat /\ hits \subseteq 1..5
    BY <1>2
  <2> HIDE DEF hits
  <2>2. hits # {} => Min(hits) \in 1..5
    BY <2>1, MinInSet
  <2> QED
    BY <1>2, <2>2
<1> HIDE DEF hits, found
<1> QED
  BY <1>1, <1>3, SpecialAgrees

-------------------------------------------------------------------------------
(* One registry for an address *)

\* An address that only one entry of its table contains has that entry's registry.
LEMMA RegistryOfOnly ==
    ASSUME NEW ip, ~Ip!is_private_or_special(ip), NEW table, DOMAIN table = 1..5,
           \/ Ip!IsV4(ip) /\ table = Ip!ipv4_ranges
           \/ ~Ip!IsV4(ip) /\ table = Ip!ipv6_ranges,
           NEW i \in 1..5, \E r \in table[i][2] : Ip!Contains(r, ip),
           \A j \in 1..5 : (\E r \in table[j][2] : Ip!Contains(r, ip)) => j = i
    PROVE  Ip!detect_rir(ip) = table[i][1]
<1> DEFINE hits == {j \in DOMAIN table : \E r \in table[j][2] : Ip!Contains(r, ip)}
<1>1. hits = {i} /\ i \in Nat
  OBVIOUS
<1>2. Min({i}) = i
  BY <1>1, MinInSet
<1> HIDE DEF hits
<1>3. Ip!detect_rir(ip) = table[Min(hits)][1]
  <2>1. Ip!detect_rir(ip) = IF Ip!is_private_or_special(ip) THEN "Unsupported"
                            ELSE IF hits = {} THEN "ARIN" ELSE table[Min(hits)][1]
    BY DEF Ip!detect_rir, Min, Ip!Min, hits
  <2> QED
    BY <1>1, <2>1
<1> QED
  BY <1>1, <1>2, <1>3

ArinOctets ==
    {3, 4} \cup 6..9 \cup 11..13 \cup 15..20 \cup {23, 24} \cup 32..35
    \cup {40, 44, 47, 48, 50, 52} \cup 54..56 \cup 63..76 \cup 96..99 \cup {104, 107, 108}
RipeOctets == {2, 5, 25, 31, 37, 46, 51, 53, 62} \cup 77..95 \cup {109, 176, 178, 185, 188}
              \cup 193..195 \cup {212, 213, 217}
ApnicOctets == {1, 14, 27, 36, 39, 42, 43, 49} \cup 58..61 \cup {101, 103, 106}
               \cup 110..126 \cup {133, 150, 153, 163, 202, 203, 210, 211} \cup 218..223
LacnicOctets == {177, 179, 181, 186, 187} \cup 189..191 \cup {200, 201}
AfrinicOctets == {41, 102, 105, 154, 196, 197}

\* An IPv4 address lies in the ranges of one registry at most.
LEMMA OneRegistry4 ==
    ASSUME NEW ip, ip[1] \in 0..255, ip[2] \in 0..255, NEW i \in 1..5, NEW j \in 1..5,
           \E r \in Ip!ipv4_ranges[i][2] : Ip!Contains(r, ip),
           \E r \in Ip!ipv4_ranges[j][2] : Ip!Contains(r, ip)
    PROVE  i = j
<1> DEFINE In(S) == \E r \in S : Ip!Contains(r, ip)
           a == ip[1]
<1>1. /\ a \in Int
      /\ a \in ArinOctets => a \notin RipeOctets \cup ApnicOctets \cup LacnicOctets \cup
                                      AfrinicOctets \cup {100}
      /\ a \in RipeOctets => a \notin ApnicOctets \cup LacnicOctets \cup AfrinicOctets
                                      \cup {100}
      /\ a \in ApnicOctets => a \notin LacnicOctets \cup AfrinicOctets \cup {100}
      /\ a \in LacnicOctets => a \notin AfrinicOctets \cup {100}
      /\ a \in AfrinicOctets => a # 100
  BY DEF ArinOctets, RipeOctets, ApnicOctets, LacnicOctets, AfrinicOctets
<1>2. /\ In(Ip!Blocks(ArinOctets)) <=> a \in ArinOctets
      /\ In(Ip!RIPE4) <=> a \in RipeOctets
      /\ In(Ip!APNIC4) <=> a \in ApnicOctets
      /\ In(Ip!LACNIC4) <=> a \in LacnicOctets
      /\ In(Ip!AFRINIC4) <=> a \in AfrinicOctets
  <2>1. /\ ArinOctets \in SUBSET Int /\ RipeOctets \in SUBSET Int
        /\ ApnicOctets \in SUBSET Int /\ LacnicOctets \in SUBSET Int
        /\ AfrinicOctets \in SUBSET Int
    BY DEF ArinOctets, RipeOctets, ApnicOctets, LacnicOctets, AfrinicOctets
  <2>2. /\ Ip!RIPE4 = Ip!Blocks(RipeOctets) /\ Ip!APNIC4 = Ip!Blocks(ApnicOctets)
        /\ Ip!LACNIC4 = Ip!Blocks(LacnicOctets) /\ Ip!AFRINIC4 = Ip!Blocks(AfrinicOctets)
    BY DEF Ip!RIPE4, Ip!APNIC4, Ip!LACNIC4, Ip!AFRINIC4, RipeOctets, ApnicOctets,
           LacnicOctets, AfrinicOctets
  <2> QED
    BY <2>1, <2>2, InBlocks
<1>3. In(Ip!ARIN4) => a \in ArinOctets \cup {100}
  <2>1. Ip!ARIN4 = Ip!Blocks(ArinOctets) \cup {<<<<100, 0>>, <<100, 63>>>>}
    BY DEF Ip!ARIN4, ArinOctets
  <2>2. Ip!Contains(<<<<100, 0>>, <<100, 63>>>>, ip) => a = 100
    BY DEF Ip!Contains, Ip!NotAfter
  <2> QED
    BY <1>2, <2>1, <2>2
<1>4. /\ Ip!ipv4_ranges[1][2] = Ip!ARIN4 /\ Ip!ipv4_ranges[2][2] = Ip!RIPE4
      /\ Ip!ipv4_ranges[3][2] = Ip!APNIC4 /\ Ip!ipv4_ranges[4][2] = Ip!LACNIC4
      /\ Ip!ipv4_ranges[5][2] = Ip!AFRINIC4
  BY DEF Ip!ipv4_ranges
<1>5. /\ In(Ip!ipv4_ranges[1][2]) => a \in ArinOctets \cup {100}
      /\ In(Ip!ipv4_ranges[2][2]) => a \in RipeOctets
      /\ In(Ip!ipv4_ranges[3][2]) => a \in ApnicOctets
      /\ In(Ip!ipv4_ranges[4][2]) => a \in LacnicOctets
      /\ In(Ip!ipv4_ranges[5][2]) => a \in AfrinicOctets
  BY <1>2, <1>3, <1>4
<1>6. In(Ip!ipv4_ranges[i][2]) /\ In(Ip!ipv4_ranges[j][2])
  OBVIOUS
<1>7. i \in {1, 2, 3, 4, 5} /\ j \in {1, 2, 3, 4, 5}
  OBVIOUS
<1> HIDE DEF In, a
<1> QED
  BY <1>1, <1>5, <1>6, <1>7

\* Nor does an IPv6 address in those of two.
LEMMA OneRegistry6 ==
    ASSUME NEW ip, ip[1] \in Int, ip[2] \in Int, NEW i \in 1..5, NEW j \in 1..5,
           \E r \in Ip!ipv6_ranges[i][2] : Ip!Contains(r, ip),
           \E r \in Ip!ipv6_ranges[j][2] : Ip!Contains(r, ip)
    PROVE  i = j
<1> DEFINE In(k) == \E r \in Ip!ipv6_ranges[k][2] : Ip!Contains(r, ip)
           a == ip[1]
           b == ip[2]
<1>1. /\ In(1) => (a = 8193 /\ 1024 <= b /\ b <= 1535) \/ (9728 <= a /\ a <= 9983)
      /\ In(2) => (a = 8193 /\ 1536 <= b /\ b <= 2047) \/ (10752 <= a /\ a <= 11007)
      /\ In(3) => \/ a = 8193 /\ ((512 <= b /\ b <= 1023) \/ (3072 <= b /\ b <= 3583))
                  \/ 9216 <= a /\ a <= 9471
      /\ In(4) => 10240 <= a /\ a <= 10495
      /\ In(5) => (a = 8193 /\ 16896 <= b /\ b <= 17407) \/ (11264 <= a /\ a <= 11519)
  BY DEF Ip!ipv6_ranges, Ip!Contains, Ip!NotAfter
<1>2. In(i) /\ In(j)
  OBVIOUS
<1>3. i \in {1, 2, 3, 4, 5} /\ j \in {1, 2, 3, 4, 5} /\ a \in Int /\ b \in Int
  OBVIOUS
<1> HIDE DEF In, a, b
<1> QED
  BY <1>1, <1>2, <1>3

Octets4 == {3, 4} \cup 6..9 \cup 11..126 \cup 128..168 \cup 170..171 \cup 173..191
           \cup 193..197 \cup 199..223 \cup {1, 2, 5}

\* A range of IPv4 addresses is a block or the first quarter of 100.0.0.0/8.
LEMMA Ranges4 ==
    ASSUME NEW i \in 1..5, NEW range \in Ip!ipv4_ranges[i][2]
    PROVE  \E o \in Octets4, low \in {0}, high \in {63, 255} :
              range = <<<<o, low>>, <<o, high>>>> /\ (o = 100 => high = 63)
<1> DEFINE octets == {3, 4} \cup 6..9 \cup 11..126 \cup 128..168 \cup 170..171
                     \cup 173..191 \cup 193..197 \cup 199..223 \cup {1, 2, 5}
<1>1. /\ Ip!ipv4_ranges[1][2] = Ip!ARIN4 /\ Ip!ipv4_ranges[2][2] = Ip!RIPE4
      /\ Ip!ipv4_ranges[3][2] = Ip!APNIC4 /\ Ip!ipv4_ranges[4][2] = Ip!LACNIC4
      /\ Ip!ipv4_ranges[5][2] = Ip!AFRINIC4
      /\ i \in {1, 2, 3, 4, 5}
  BY DEF Ip!ipv4_ranges
<1>2. \/ \E o \in octets : o # 100 /\ range = <<<<o, 0>>, <<o, 255>>>>
      \/ range = <<<<100, 0>>, <<100, 63>>>>
  <2>1. /\ ArinOctets \cup RipeOctets \cup ApnicOctets \cup LacnicOctets
           \cup AfrinicOctets \subseteq octets \ {100}
        /\ Ip!ARIN4 = Ip!Blocks(ArinOctets) \cup {<<<<100, 0>>, <<100, 63>>>>}
        /\ Ip!RIPE4 = Ip!Blocks(RipeOctets) /\ Ip!APNIC4 = Ip!Blocks(ApnicOctets)
        /\ Ip!LACNIC4 = Ip!Blocks(LacnicOctets) /\ Ip!AFRINIC4 = Ip!Blocks(AfrinicOctets)
    <3>1. /\ ArinOctets \subseteq octets \ {100} /\ RipeOctets \subseteq octets \ {100}
          /\ ApnicOctets \subseteq octets \ {100} /\ LacnicOctets \subseteq octets \ {100}
          /\ AfrinicOctets \subseteq octets \ {100}
      BY DEF ArinOctets, RipeOctets, ApnicOctets, LacnicOctets, AfrinicOctets
    <3>2. /\ Ip!ARIN4 = Ip!Blocks(ArinOctets) \cup {<<<<100, 0>>, <<100, 63>>>>}
          /\ Ip!RIPE4 = Ip!Blocks(RipeOctets) /\ Ip!APNIC4 = Ip!Blocks(ApnicOctets)
          /\ Ip!LACNIC4 = Ip!Blocks(LacnicOctets)
          /\ Ip!AFRINIC4 = Ip!Blocks(AfrinicOctets)
      BY DEF Ip!ARIN4, Ip!RIPE4, Ip!APNIC4, Ip!LACNIC4, Ip!AFRINIC4, ArinOctets,
             RipeOctets, ApnicOctets, LacnicOctets, AfrinicOctets
    <3> HIDE DEF octets
    <3> QED
      BY <3>1, <3>2
  <2> HIDE DEF octets
  <2>2. ASSUME NEW S \in SUBSET (octets \ {100}), range \in Ip!Blocks(S)
        PROVE  \E o \in octets : o # 100 /\ range = <<<<o, 0>>, <<o, 255>>>>
    BY <2>2 DEF Ip!Blocks
  <2> QED
    BY <1>1, <2>1, <2>2
<1>3. octets = Octets4 /\ 100 \in octets
  BY DEF Octets4
<1> HIDE DEF octets
<1> QED
  BY <1>2, <1>3

\* Both ends of a range lie in it, and are no special addresses.
LEMMA Ends4 ==
    ASSUME NEW i \in 1..5, NEW range \in Ip!ipv4_ranges[i][2],
           NEW ip \in {range[1] \o <<0, 1>>, range[2] \o <<0, 1>>}
    PROVE  Ip!detect_rir(ip) = Ip!ipv4_ranges[i][1]
<1>3. PICK o \in Octets4, low \in {0}, high \in {63, 255} :
         range = <<<<o, low>>, <<o, high>>>> /\ (o = 100 => high = 63)
  BY Ranges4
<1>4. PICK x \in {0, 63, 255} :
         ip = <<o, x, 0, 1>> /\ 0 <= x /\ x <= high /\ (o = 100 => x <= 63)
  BY <1>3
<1>5. o \in 0..255 /\ Ip!IsV4(ip) /\ ip[1] = o /\ ip[2] = x /\ ip[3] = 0 /\ ip[4] = 1
  BY <1>4 DEF Ip!IsV4, Octets4
<1>6. Ip!Contains(range, ip)
  BY <1>3, <1>4, <1>5 DEF Ip!Contains, Ip!NotAfter
<1>7. ~Ip!is_private_or_special(ip)
  BY <1>4, <1>5 DEF Ip!is_private_or_special, Octets4
<1>8. DOMAIN Ip!ipv4_ranges = 1..5
  BY DEF Ip!ipv4_ranges
<1>9. ip[1] \in 0..255 /\ ip[2] \in 0..255
  BY <1>4, <1>5
<1>10. \E r \in Ip!ipv4_ranges[i][2] : Ip!Contains(r, ip)
  BY <1>6
<1>11. \A j \in 1..5 : (\E r \in Ip!ipv4_ranges[j][2] : Ip!Contains(r, ip)) => j = i
  <2>1. ASSUME NEW j \in 1..5, \E r \in Ip!ipv4_ranges[j][2] : Ip!Contains(r, ip)
        PROVE  j = i
    BY <1>9, <1>10, <2>1, OneRegistry4
  <2> QED
    BY <2>1
<1> QED
  BY <1>5, <1>7, <1>8, <1>10, <1>11, RegistryOfOnly

\* An address that lies in a range of one registry lies in none of another.
LEMMA OnlyRegistry6 ==
    ASSUME NEW ip, ip[1] \in Int, ip[2] \in Int, NEW i \in 1..5,
           \E r \in Ip!ipv6_ranges[i][2] : Ip!Contains(r, ip)
    PROVE  \A j \in 1..5 : (\E r \in Ip!ipv6_ranges[j][2] : Ip!Contains(r, ip)) => j = i
BY OneRegistry6

\* The part of an address behind the segments that the ranges name.
Rest6 == <<2>>

\* A range of IPv6 addresses goes upwards, in 2000::/4, with no end in 2001:db8::/32.
LEMMA Ranges6 ==
    ASSUME NEW i \in 1..5, NEW range \in Ip!ipv6_ranges[i][2]
    PROVE  \E a \in Int, b \in Int, c \in Int, d \in Int :
              /\ range = <<<<a, b>>, <<c, d>>>>
              /\ a < c \/ (a = c /\ b <= d)
              /\ 8192 <= a /\ c <= 12287
              /\ a = 8193 => b # 3512
              /\ c = 8193 => d # 3512
<1>1. CASE i = 1
  BY <1>1 DEF Ip!ipv6_ranges
<1>2. CASE i = 2
  BY <1>2 DEF Ip!ipv6_ranges
<1>3. CASE i = 3
  BY <1>3 DEF Ip!ipv6_ranges
<1>4. CASE i = 4
  BY <1>4 DEF Ip!ipv6_ranges
<1>5. CASE i = 5
  BY <1>5 DEF Ip!ipv6_ranges
<1> QED
  BY <1>1, <1>2, <1>3, <1>4, <1>5

\* Both ends of every IPv6 range belong to the registry the range is listed under.
LEMMA Ends6 ==
    ASSUME NEW i \in 1..5, NEW range \in Ip!ipv6_ranges[i][2],
           NEW ip \in {range[1] \o Rest6, range[2] \o Rest6}
    PROVE  Ip!detect_rir(ip) = Ip!ipv6_ranges[i][1]
<1>1. PICK a \in Int, b \in Int, c \in Int, d \in Int :
         /\ range = <<<<a, b>>, <<c, d>>>>
         /\ a < c \/ (a = c /\ b <= d)
         /\ 8192 <= a /\ c <= 12287
         /\ a = 8193 => b # 3512
         /\ c = 8193 => d # 3512
  BY Ranges6
<1>2. ip = <<a, b, 2>> \/ ip = <<c, d, 2>>
  BY <1>1 DEF Rest6
<1>3. /\ ~Ip!IsV4(ip) /\ ip[1] \in Int /\ ip[2] \in Int /\ ip[3] = 2
      /\ 8192 <= ip[1] /\ ip[1] <= 12287 /\ (ip[1] = 8193 => ip[2] # 3512)
  <2>1. CASE ip = <<a, b, 2>>
    BY <1>1, <2>1 DEF Ip!IsV4
  <2>2. CASE ip = <<c, d, 2>>
    BY <1>1, <2>2 DEF Ip!IsV4
  <2> QED
    BY <1>2, <2>1, <2>2
<1>4. Ip!Contains(range, ip)
  BY <1>1, <1>2 DEF Ip!Contains, Ip!NotAfter
<1>5. ~Ip!is_private_or_special(ip)
  BY <1>3 DEF Ip!is_private_or_special
<1>6. DOMAIN Ip!ipv6_ranges = 1..5
  BY DEF Ip!ipv6_ranges
<1>7. \E r \in Ip!ipv6_ranges[i][2] : Ip!Contains(r, ip)
  BY <1>4
<1>8. \A j \in 1..5 : (\E r \in Ip!ipv6_ranges[j][2] : Ip!Contains(r, ip)) => j = i
  <2>1. ip[1] \in Int /\ ip[2] \in Int
    BY <1>3
  <2> QED
    BY <1>7, <2>1, OnlyRegistry6
<1> DEFINE table == Ip!ipv6_ranges
<1>9. /\ table = Ip!ipv6_ranges /\ DOMAIN table = 1..5
      /\ \E r \in table[i][2] : Ip!Contains(r, ip)
      /\ \A j \in 1..5 : (\E r \in table[j][2] : Ip!Contains(r, ip)) => j = i
  BY <1>6, <1>7, <1>8
<1> HIDE DEF table
<1>10. Ip!detect_rir(ip) = table[i][1]
  BY <1>3, <1>5, <1>9, RegistryOfOnly
<1> QED
  BY <1>9, <1>10

\* The first address of a range is not after its last.
Rising(range) == /\ range[1][1] \in Int /\ range[1][2] \in Int
                 /\ Ip!NotAfter(range[1], range[2])

\* Two ranges that overlap share the first address of the one that begins later.
LEMMA SharedAddress ==
    ASSUME NEW r, NEW s, Rising(r), Rising(s),
           Ip!NotAfter(r[1], s[2]), Ip!NotAfter(s[1], r[2])
    PROVE  \/ Ip!Contains(r, s[1]) /\ Ip!Contains(s, s[1])
           \/ Ip!Contains(r, r[1]) /\ Ip!Contains(s, r[1])
<1>1. CASE Ip!NotAfter(r[1], s[1])
  <2>1. Ip!NotAfter(s[1], s[1])
    BY DEF Ip!NotAfter, Rising
  <2> QED
    BY <1>1, <2>1 DEF Ip!Contains, Rising
<1>2. CASE ~Ip!NotAfter(r[1], s[1])
  <2>1. Ip!NotAfter(s[1], r[1]) /\ Ip!NotAfter(r[1], r[1])
    BY <1>2 DEF Ip!NotAfter, Rising
  <2> QED
    BY <2>1 DEF Ip!Contains, Rising
<1> QED
  BY <1>1, <1>2

\* Ranges of IPv4 addresses that overlap are one registry's, ...
LEMMA Disjoint4 ==
    ASSUME NEW i \in 1..5, NEW j \in 1..5,
           NEW r \in Ip!ipv4_ranges[i][2], NEW s \in Ip!ipv4_ranges[j][2],
           Ip!NotAfter(r[1], s[2]), Ip!NotAfter(s[1], r[2])
    PROVE  i = j
<1>1. ASSUME NEW k \in 1..5, NEW range \in Ip!ipv4_ranges[k][2]
      PROVE  Rising(range) /\ range[1][1] \in 0..255 /\ range[1][2] \in 0..255
  <2>1. PICK o \in Octets4, low \in {0}, high \in {63, 255} :
           range = <<<<o, low>>, <<o, high>>>>
    BY Ranges4
  <2> QED
    BY <2>1 DEF Octets4, Ip!NotAfter, Rising
<1>2. /\ Rising(r) /\ r[1][1] \in 0..255 /\ r[1][2] \in 0..255
      /\ Rising(s) /\ s[1][1] \in 0..255 /\ s[1][2] \in 0..255
  BY <1>1
<1>3. CASE Ip!Contains(r, s[1]) /\ Ip!Contains(s, s[1])
  BY <1>2, <1>3, OneRegistry4
<1>4. CASE Ip!Contains(r, r[1]) /\ Ip!Contains(s, r[1])
  BY <1>2, <1>4, OneRegistry4
<1> QED
  BY <1>2, <1>3, <1>4, SharedAddress

\* ... and of IPv6 addresses, too.
LEMMA Disjoint6 ==
    ASSUME NEW i \in 1..5, NEW j \in 1..5,
           NEW r \in Ip!ipv6_ranges[i][2], NEW s \in Ip!ipv6_ranges[j][2],
           Ip!NotAfter(r[1], s[2]), Ip!NotAfter(s[1], r[2])
    PROVE  i = j
<1>1. ASSUME NEW k \in 1..5, NEW range \in Ip!ipv6_ranges[k][2]
      PROVE  Rising(range)
  <2>1. PICK a \in Int, b \in Int, c \in Int, d \in Int :
           /\ range = <<<<a, b>>, <<c, d>>>>
           /\ a < c \/ (a = c /\ b <= d)
    BY Ranges6
  <2> QED
    BY <2>1 DEF Ip!NotAfter, Rising
<1>2. Rising(r) /\ Rising(s)
  BY <1>1
<1>3. /\ r[1][1] \in Int /\ r[1][2] \in Int
      /\ s[1][1] \in Int /\ s[1][2] \in Int
  BY <1>2 DEF Rising
<1>4. CASE Ip!Contains(r, s[1]) /\ Ip!Contains(s, s[1])
  BY <1>3, <1>4, OneRegistry6
<1>5. CASE Ip!Contains(r, r[1]) /\ Ip!Contains(s, r[1])
  BY <1>3, <1>5, OneRegistry6
<1> QED
  BY <1>2, <1>4, <1>5, SharedAddress

\* Ranges of two registries share no address, and both ends of every range are their
\* registry's.
THEOREM RegistriesAreUnambiguous == Spec => []RirUnambiguous
<1>1. DOMAIN Ip!ipv4_ranges = 1..5 /\ DOMAIN Ip!ipv6_ranges = 1..5
  BY DEF Ip!ipv4_ranges, Ip!ipv6_ranges
<1>2. RirUnambiguous
  BY <1>1, Disjoint4, Disjoint6, Ends4, Ends6 DEF RirUnambiguous, Rest6
<1> QED
  BY <1>2, PTL

-------------------------------------------------------------------------------
(* Records, responses and results *)

\* The ages in a record are those of its dates.
AgesRight(parsed) == \A age \in Ages : parsed[age] = AgeOf(parsed[DateOf[age]])

\* A record is completed from another one field by field.
CompletedBy(parsed, own, first) ==
    /\ \A f \in Fields : parsed[f] \in IF own[f] # {} THEN {own[f]} ELSE {{}, first[f]}
    /\ \A age \in Ages :
          parsed[age] = IF AgeOf(parsed[DateOf[age]]) # {} THEN AgeOf(parsed[DateOf[age]])
                        ELSE AgeOf(first[DateOf[age]])

\* An age is that of a date.
LEMMA DatesAreFields == \A age \in Ages : DateOf[age] \in Fields
BY DEF Ages, Fields, DateOf

\* A field is no age.
LEMMA AgesAreNoFields == \A f \in Fields : f \notin Ages
BY DEF Ages, Fields, Contacts

\* calculate_age_fields computes the ages from the dates, ...
LEMMA CalculatedAges == ASSUME NEW r PROVE AgesRight(calculate_age_fields(r))
BY DatesAreFields, AgesAreNoFields DEF AgesRight, calculate_age_fields

\* ... and a missing age is filled with that of the other record's date, whether the date
\* is missing or cannot be read.
LEMMA FilledRecord ==
    ASSUME NEW own, NEW first, AgesRight(own), AgesRight(first)
    PROVE  CompletedBy(fill_missing_from(own, first), own, first)
<1> DEFINE filled == fill_missing_from(own, first)
<1>1. \A f \in Fields \cup Ages : filled[f] = IF own[f] = {} THEN first[f] ELSE own[f]
  BY DEF fill_missing_from
<1>2. AgeOf({}) = {}
  BY DEF AgeOf
<1> HIDE DEF filled
<1>3. \A f \in Fields : filled[f] \in IF own[f] # {} THEN {own[f]} ELSE {{}, first[f]}
  BY <1>1
<1>4. ASSUME NEW age \in Ages
      PROVE  filled[age] = IF AgeOf(filled[DateOf[age]]) # {} THEN AgeOf(filled[DateOf[age]])
                           ELSE AgeOf(first[DateOf[age]])
  <2>1. /\ own[age] = AgeOf(own[DateOf[age]]) /\ first[age] = AgeOf(first[DateOf[age]])
        /\ DateOf[age] \in Fields
    BY <1>4, DatesAreFields DEF AgesRight
  <2> QED
    BY <1>1, <1>2, <2>1
<1> QED
  BY <1>3, <1>4 DEF CompletedBy, filled

\* The four parsers compute the ages last.
LEMMA ParsedAgesRight ==
    ASSUME NEW text
    PROVE  /\ AgesRight(parse_whois_data(text)) /\ AgesRight(parse_ip_whois_data(text))
           /\ parse_rdap_response(text) = NoRecord \/ AgesRight(parse_rdap_response(text))
           /\ \/ parse_rdap_ip_response(text) = NoRecord
              \/ AgesRight(parse_rdap_ip_response(text))
BY CalculatedAges
   DEF parse_whois_data, parse_ip_whois_data, parse_rdap_response, parse_rdap_ip_response

\* A response, with a status of the code's.
IsResponse(x) ==
    /\ x = [server |-> x.server, raw |-> x.raw, parsed |-> x.parsed, status |-> x.status,
            cached |-> x.cached, analysis |-> x.analysis]
    /\ x.status \in Statuses

\* All that servers say, the names of those that are asked, and their answers.
AllTexts == Texts \cup ReferralTexts \cup IpTexts \cup IpReferralTexts
Servers == {"registry"} \cup {Ip!detect_rir(input.ip) : input \in Inputs}
           \cup {extract_whois_server(text) : text \in AllTexts}
Answers == [server : Servers, text : AllTexts]

\* A record with data in it is Found, whatever the text says.
LEMMA ClassifyStatus ==
    ASSUME NEW text, NEW parsed
    PROVE  /\ classify_response(text, parsed) \in Statuses
           /\ HasRecordData(parsed) => classify_response(text, parsed) = "Found"
BY DEF classify_response, Statuses

\* Completing a record takes no field from it.
LEMMA FillKeeps ==
    ASSUME NEW parsed, NEW fallback
    PROVE  /\ HasRecordData(parsed) => HasRecordData(fill_missing_from(parsed, fallback))
           /\ \A f \in Fields :
                 /\ parsed[f] # {} => fill_missing_from(parsed, fallback)[f] # {}
                 /\ fallback[f] # {} => fill_missing_from(parsed, fallback)[f] # {}
<1>1. \A f \in Fields : fill_missing_from(parsed, fallback)[f] =
                            IF parsed[f] = {} THEN fallback[f] ELSE parsed[f]
  BY DEF fill_missing_from
<1>2. {"registrar", "creation_date", "name_servers"} \subseteq Fields
  BY DEF Fields
<1> QED
  BY <1>1, <1>2 DEF HasRecordData

\* The record that is read in a text of one answer, as it is or completed from the first
\* answer's.
OfAnswer(result, answer, first) ==
    LET own == RecordIn(answer.text)
    IN /\ result.server = answer.server /\ result.raw = answer.text
       /\ \/ /\ result.parsed = own
             /\ \/ answer.text = first.text
                \/ ~IsIp(request) /\ result.status = "RateLimited"
          \/ /\ result.parsed = fill_missing_from(own, RecordIn(first.text))
             /\ IsIp(request) \/ result.status # "RateLimited"

\* The result of a chain is the record of one of its answers.
LEMMA ResultFacts ==
    ASSUME NEW answers \in Seq(Answers), answers # <<>>
    PROVE  /\ IsResponse(Result(answers)) /\ Result(answers).cached = FALSE
           /\ \E i \in DOMAIN answers : OfAnswer(Result(answers), answers[i], answers[1])
<1>1. /\ 1 \in DOMAIN answers /\ Len(answers) \in DOMAIN answers
      /\ Last(answers) = answers[Len(answers)]
  BY DEF Last
<1>2. CASE IsIp(request)
  BY <1>1, <1>2, ClassifyStatus
     DEF Result, IpResult, Response, IsResponse, OfAnswer, RecordIn
<1>3. CASE ~IsIp(request)
  BY <1>1, <1>3, ClassifyStatus
     DEF Result, DomainResult, Response, IsResponse, OfAnswer, RecordIn
<1> QED
  BY <1>2, <1>3

\* Every field of such a record, and every age, is an answer's or the first one's.
LEMMA AnswerFields ==
    ASSUME NEW result, NEW answer, NEW first, OfAnswer(result, answer, first)
    PROVE  LET own == RecordIn(answer.text)
               completed == IsIp(request) \/ result.status # "RateLimited"
           IN /\ \A f \in Fields : result.parsed[f] \in
                    IF own[f] # {} THEN {own[f]} ELSE {{}, RecordIn(first.text)[f]}
              /\ \A age \in Ages :
                    LET date == result.parsed[DateOf[age]]
                    IN result.parsed[age] =
                          IF AgeOf(date) # {} THEN AgeOf(date)
                          ELSE IF completed THEN AgeOf(RecordIn(first.text)[DateOf[age]])
                          ELSE {}
<1> DEFINE own == RecordIn(answer.text)
           other == RecordIn(first.text)
<1>1. AgesRight(own) /\ AgesRight(other)
  BY ParsedAgesRight DEF RecordIn
<1>2. \/ /\ result.parsed = fill_missing_from(own, other)
         /\ IsIp(request) \/ result.status # "RateLimited"
      \/ result.parsed = own /\ own = other
      \/ result.parsed = own /\ ~IsIp(request) /\ result.status = "RateLimited"
  BY DEF OfAnswer
<1> HIDE DEF own, other
<1>3. CASE /\ result.parsed = fill_missing_from(own, other)
           /\ IsIp(request) \/ result.status # "RateLimited"
  <2>1. CompletedBy(result.parsed, own, other)
    BY <1>1, <1>3, FilledRecord
  <2> QED
    BY <1>3, <2>1 DEF CompletedBy, own, other
<1>4. CASE result.parsed = own /\ own = other
  BY <1>1, <1>4 DEF AgesRight, own, other
<1>5. CASE result.parsed = own /\ ~IsIp(request) /\ result.status = "RateLimited"
  BY <1>1, <1>5 DEF AgesRight, own, other
<1> QED
  BY <1>2, <1>3, <1>4, <1>5

\* A chain's result has all the fields that the first server gave, and is throttled only
\* if the first server throttled; its status is that of its own text.
LEMMA ResultKeeps ==
    ASSUME NEW answers \in Seq(Answers), answers # <<>>
    PROVE  LET first == RecordIn(answers[1].text)
               result == Result(answers)
               own == RecordIn(result.raw)
           IN /\ result.status # "RateLimited" =>
                    \A f \in Fields : first[f] # {} => result.parsed[f] # {}
              /\ ~IsIp(request) /\ result.status = "RateLimited" =>
                    classify_response(answers[1].text, first) = "RateLimited"
              /\ result.status # "Found" => ~HasRecordData(own)
<1>1. Len(answers) \in Nat /\ Last(answers) = answers[Len(answers)]
  BY DEF Last
<1>2. CASE IsIp(request)
  BY <1>1, <1>2, FillKeeps, ClassifyStatus DEF Result, IpResult, Response, RecordIn
<1>3. CASE ~IsIp(request)
  BY <1>1, <1>3, FillKeeps, ClassifyStatus DEF Result, DomainResult, Response, RecordIn
<1> QED
  BY <1>2, <1>3

-------------------------------------------------------------------------------
(* Types *)

Errors == QueryErrors \cup {"InvalidDomain", "InvalidIpAddress", "UnsupportedIpAddress",
                            "UnsupportedTld", "Elapsed"}

Refusal(error) == [code |-> HttpStatus(error), error |-> error, response |-> NoResponse]

\* Every error has an HTTP status, which the copies of it that waiting callers get keep.
LEMMA ErrorStatus ==
    ASSUME NEW error \in Errors
    PROVE  /\ HttpStatus(error) \in {400, 408, 413, 500, 502, 503}
           /\ HttpStatus(duplicate(error)) = HttpStatus(error)
           /\ error # None
BY DEF Errors, QueryErrors, HttpStatus, duplicate, None

IsReply(r) ==
    \/ r = NoReply
    \/ \E error \in Errors : r = Refusal(error)
    \/ /\ r = [code |-> 200, error |-> None, response |-> r.response]
       /\ IsResponse(r.response)

IsEntry(entry) ==
    \/ entry = NoEntry
    \/ /\ entry = [query |-> entry.query, response |-> entry.response]
       /\ IsResponse(entry.response)
       /\ entry.response.status # "RateLimited"

Requests == [input : Inputs \cup {NoRequest.input}, fresh : BOOLEAN, debug : BOOLEAN]

TypeInv ==
    /\ request \in Requests
    /\ stage \in Stages
    /\ seen \in Seq(RdapOutcomes)
    /\ chain \in Seq(Answers)
    /\ IsEntry(cache)
    /\ IsReply(reply)

\* A step that ends the request with a refusal, or with a response that may be stored.
LEMMA RefuseType ==
    ASSUME NEW error \in Errors, Refuse(error)
    PROVE  IsReply(reply') /\ stage' \in Stages
BY DEF Refuse, IsReply, Refusal, Stages

\* What is sent for a request is a reply.
LEMMA SendType ==
    ASSUME NEW r, NEW response, IsResponse(response), Send(r, response)
    PROVE  IsReply(reply') /\ stage' \in Stages
<1>1. IsResponse([response EXCEPT !.analysis = @ /\ r.debug])
  BY DEF IsResponse
<1> QED
  BY <1>1 DEF Send, IsReply, Stages

\* An answer is stored and sent, or, as a failure, sent only; both keep the types.
LEMMA DeliverType ==
    ASSUME NEW response, IsResponse(response), IsEntry(cache), Deliver(response)
    PROVE  IsReply(reply') /\ IsEntry(cache') /\ stage' \in Stages
<1>1. IsEntry(cache')
  BY DEF Deliver, Store, IsEntry
<1> QED
  BY <1>1, SendType DEF Deliver

\* The request before the first one is none.
LEMMA NothingIsInvalid == Validate(NoRequest.input) = "InvalidDomain"
<1>1. NoRequest.input.has = {}
  BY DEF NoRequest
<1>2. "address" \notin {} /\ "dot" \notin {} /\ ":" \notin {}
  OBVIOUS
<1>3. ~ValidDomain(NoRequest.input.has)
  BY <1>1, <1>2 DEF ValidDomain
<1>4. /\ ~({"dot", "digits"} \subseteq NoRequest.input.has)
      /\ ~({":", "hex"} \subseteq NoRequest.input.has)
  BY <1>1, <1>2
<1> QED
  BY <1>1, <1>2, <1>3, <1>4 DEF Validate

\* What a client asks for, if it is valid, is one of the inputs.
LEMMA RequestType ==
    ASSUME NEW r \in Requests, Validate(r.input) = "Ok" \/ IsIp(r)
    PROVE  r.input \in Inputs
<1>1. r.input = NoRequest.input => Validate(r.input) = "InvalidDomain" /\ ~IsIp(r)
  BY NothingIsInvalid DEF IsIp, NoRequest
<1> QED
  BY <1>1 DEF Requests

\* The handlers' part up to the first wait.
LEMMA ServeType ==
    ASSUME NEW r \in Requests, TypeInv, Serve(r)
    PROVE  TypeInv'
<1>1. request' \in Requests /\ seen' \in Seq(RdapOutcomes) /\ chain' \in Seq(Answers)
  BY DEF Serve
<1>2. IsEntry(cache')
  BY DEF Serve, TypeInv
<1>3. CASE Validate(r.input) # "Ok"
  <2>1. Refuse(Validate(r.input)) /\ Validate(r.input) \in Errors
    BY <1>3 DEF Serve, Validate, Errors
  <2> QED
    BY <1>1, <1>2, <2>1, RefuseType DEF TypeInv
<1>4. CASE Validate(r.input) = "Ok" /\ ~r.fresh /\ cache.query = r.input
  <2>1. cache # NoEntry
    BY <1>4, NothingIsInvalid DEF NoEntry
  <2>2. IsResponse([cache.response EXCEPT !.cached = TRUE])
    <3>1. IsResponse(cache.response)
      BY <2>1 DEF TypeInv, IsEntry
    <3>2. ASSUME NEW x, IsResponse(x) PROVE IsResponse([x EXCEPT !.cached = TRUE])
      <4>1. ASSUME NEW v PROVE IsResponse([x EXCEPT !.cached = v])
        BY <3>2 DEF IsResponse
      <4> QED
        BY <4>1
    <3> QED
      BY <3>1, <3>2
  <2>3. Send(r, [cache.response EXCEPT !.cached = TRUE])
    BY <1>4 DEF Serve
  <2> QED
    BY <1>1, <1>2, <2>2, <2>3, SendType DEF TypeInv
<1>5. CASE Validate(r.input) = "Ok" /\ ~(~r.fresh /\ cache.query = r.input)
  <2>1. stage' = "rdap" /\ reply' = NoReply
    BY <1>5 DEF Serve
  <2> QED
    BY <1>1, <1>2, <2>1 DEF TypeInv, IsReply, Stages
<1> QED
  BY <1>3, <1>4, <1>5

\* The server whose answer comes first.
LEMMA FirstServer ==
    ASSUME request \in Requests, NEW text \in AllTexts
    PROVE  [server |-> IF IsIp(request) THEN Rir(request) ELSE "registry", text |-> text]
              \in Answers
<1>1. CASE IsIp(request)
  <2>1. request.input \in Inputs
    BY <1>1, RequestType
  <2> QED
    BY <1>1, <2>1 DEF Answers, Servers, Rir
<1>2. CASE ~IsIp(request)
  BY <1>2 DEF Answers, Servers
<1> QED
  BY <1>1, <1>2

\* After an answer of a WHOIS server, following its referral and settling the result keep
\* the types.
LEMMA GoOnType ==
    ASSUME TypeInv, NEW answers \in Seq(Answers), answers # <<>>, GoOnWith(answers),
           UNCHANGED <<request, seen>>
    PROVE  TypeInv'
<1>1. CASE MayFollow(answers)
  BY <1>1 DEF GoOnWith, TypeInv, Stages
<1>2. CASE ~MayFollow(answers)
  BY <1>2, ResultFacts, DeliverType DEF GoOnWith, TypeInv
<1> QED
  BY <1>1, <1>2

\* The first answer, and a referral's, to the chain.
LEMMA NextAnswers ==
    ASSUME TypeInv, chain # <<>>, NEW text \in AllTexts
    PROVE  Append(chain, [server |-> Target(chain), text |-> text]) \in Seq(Answers)
<1>1. Last(chain).text \in AllTexts
  <2>1. chain \in Seq(Answers) /\ Last(chain) = chain[Len(chain)]
    BY DEF TypeInv, Last
  <2>2. Last(chain) \in Answers
    BY <2>1
  <2> QED
    BY <2>2 DEF Answers
<1>2. Target(chain) \in Servers
  BY <1>1 DEF Target, Servers
<1> QED
  BY <1>2 DEF TypeInv, Answers

\* What a stage has behind it: nothing of WHOIS before the first answer, and in a
\* referral an answer that names a server which may be asked.
StageInv ==
    /\ stage # "idle" => reply = NoReply
    /\ stage \in {"rdap", "rdapQuery", "whois", "whoisQuery"} => chain = <<>>
    /\ stage = "referral" => chain # <<>> /\ MayFollow(chain)
    /\ Len(chain) <= MaxReferrals + 1

\* Every answer by WHOIS makes the chain one longer, up to the limit of referrals.
LEMMA ChainGrows ==
    ASSUME TypeInv, StageInv, WhoisAnswers \/ ReferralAnswers
    PROVE  /\ \E answers \in Seq(Answers) \ {<<>>} :
                 GoOnWith(answers) /\ Len(answers) <= MaxReferrals + 1
           /\ reply = NoReply /\ UNCHANGED <<request, seen>>
<1>1. CASE WhoisAnswers
  <2> DEFINE First(text) ==
          [server |-> IF IsIp(request) THEN Rir(request) ELSE "registry", text |-> text]
  <2>1. PICK text \in AllTexts : GoOnWith(<<First(text)>>)
    BY <1>1 DEF WhoisAnswers, AllTexts
  <2>2. First(text) \in Answers
    BY FirstServer DEF TypeInv
  <2> HIDE DEF First
  <2>3. /\ <<First(text)>> \in Seq(Answers) \ {<<>>}
        /\ Len(<<First(text)>>) <= MaxReferrals + 1
    BY <2>2, LookupAssumption
  <2>4. stage # "idle" /\ UNCHANGED <<request, seen>>
    BY <1>1 DEF WhoisAnswers
  <2> QED
    BY <2>1, <2>3, <2>4 DEF StageInv
<1>2. CASE ReferralAnswers
  <2>1. PICK text \in AllTexts :
           GoOnWith(Append(chain, [server |-> Target(chain), text |-> text]))
    BY <1>2 DEF ReferralAnswers, AllTexts
  <2>2. stage = "referral" /\ chain # <<>> /\ MayFollow(chain)
    BY <1>2 DEF ReferralAnswers, StageInv
  <2>3. Append(chain, [server |-> Target(chain), text |-> text]) \in Seq(Answers) \ {<<>>}
    BY <2>2, NextAnswers DEF TypeInv
  <2>4. Len(Append(chain, [server |-> Target(chain), text |-> text])) <= MaxReferrals + 1
    BY <2>2, LookupAssumption DEF TypeInv, MayFollow
  <2> QED
    BY <1>2, <2>1, <2>2, <2>3, <2>4 DEF ReferralAnswers, StageInv
<1> QED
  BY <1>1, <1>2

\* The types hold before the first request.
LEMMA TypeInvInit == Init => TypeInv
BY DEF Init, TypeInv, Requests, NoRequest, Stages, IsEntry, IsReply

\* Every step of a lookup keeps the types.
LEMMA TypeInvNext ==
    ASSUME TypeInv, StageInv, [Next]_vars
    PROVE  TypeInv'
<1>1. CASE whois_lookup
  BY <1>1, ServeType DEF whois_lookup, Requests
<1>2. CASE whois_debug
  BY <1>2, ServeType DEF whois_debug, Requests
<1>3. CASE Expire
  BY <1>3 DEF Expire, TypeInv, IsEntry
<1>4. CASE TimeOut
  BY <1>4, RefuseType DEF TimeOut, TypeInv, Errors
<1>5. CASE FindRdapServer
  BY <1>5 DEF FindRdapServer, TypeInv, Stages
<1>6. CASE RdapFails
  BY <1>6 DEF RdapFails, TypeInv, Stages, RdapOutcomes
<1>7. CASE RdapAnswers
  <2>1. PICK body :
           Deliver(Response(RdapServer, body,
                            IF IsIp(request) THEN parse_rdap_ip_response(body)
                            ELSE parse_rdap_response(body), "Found"))
    BY <1>7 DEF RdapAnswers
  <2>2. IsResponse(Response(RdapServer, body,
                            IF IsIp(request) THEN parse_rdap_ip_response(body)
                            ELSE parse_rdap_response(body), "Found"))
    BY DEF IsResponse, Response, Statuses
  <2> QED
    BY <1>7, <2>1, <2>2, DeliverType DEF RdapAnswers, TypeInv, RdapOutcomes
<1>8. CASE RdapNotFound
  <2>1. IsResponse(Response(RdapServer, NotJson, NoRecord, "NotFound"))
    BY DEF IsResponse, Response, Statuses
  <2> QED
    BY <1>8, <2>1, DeliverType DEF RdapNotFound, TypeInv, RdapOutcomes
<1>9. CASE FindWhoisServer
  BY <1>9, RefuseType DEF FindWhoisServer, TypeInv, Stages, Errors
<1>10. CASE WhoisFails
  BY <1>10, RefuseType DEF WhoisFails, ReportedError, TypeInv, Errors
<1>11. CASE WhoisAnswers \/ ReferralAnswers
  BY <1>11, ChainGrows, GoOnType
<1>12. CASE ReferralFails
  BY <1>12, ResultFacts, DeliverType DEF ReferralFails, StageInv, TypeInv
<1>13. CASE UNCHANGED vars
  BY <1>13 DEF vars, TypeInv
<1> QED
  BY <1>1, <1>2, <1>3, <1>4, <1>5, <1>6, <1>7, <1>8, <1>9, <1>10, <1>11, <1>12, <1>13
  DEF Next

\* A handler's first part leaves no chain, and waits for RDAP or has replied.
LEMMA ServeStage ==
    ASSUME NEW r, Serve(r)
    PROVE  /\ chain' = <<>> /\ seen' = <<>> /\ request' = r
           /\ stage' = "idle" \/ (stage' = "rdap" /\ reply' = NoReply)
BY DEF Serve, Refuse, Send

\* An answer ends the chain or is followed further.
LEMMA GoOnStage ==
    ASSUME NEW answers \in Seq(Answers) \ {<<>>}, GoOnWith(answers), reply = NoReply,
           Len(answers) <= MaxReferrals + 1
    PROVE  /\ StageInv'
           /\ chain' = answers /\ stage' \in {"idle", "referral"}
           /\ stage' = "referral" => UNCHANGED <<cache, reply>>
           /\ stage' # "referral" => Deliver(Result(answers))
<1>1. MayFollow(answers)' <=> (MayFollow(answers) /\ TRUE)
  BY DEF MayFollow, Target
<1> QED
  BY DEF GoOnWith, StageInv, Deliver, Send, MayFollow, Target

\* Before the first request there are no answers, and none are asked for.
LEMMA StageInvInit == Init => StageInv
BY LookupAssumption DEF Init, StageInv

\* Every step keeps what each stage has behind it: the answers, the outcomes, the input.
LEMMA StageInvNext ==
    ASSUME TypeInv, StageInv, [Next]_vars
    PROVE  StageInv'
<1> USE LookupAssumption
<1>1. CASE whois_lookup \/ whois_debug
  <2>1. PICK r : Serve(r)
    BY <1>1 DEF whois_lookup, whois_debug
  <2> QED
    BY <2>1, ServeStage DEF StageInv
<1>2. CASE Expire
  BY <1>2 DEF Expire, StageInv
<1>3. CASE TimeOut
  BY <1>3 DEF TimeOut, Refuse, StageInv
<1>4. CASE FindRdapServer
  BY <1>4 DEF FindRdapServer, StageInv
<1>5. CASE RdapFails
  BY <1>5 DEF RdapFails, StageInv
<1>6. CASE RdapAnswers \/ RdapNotFound
  BY <1>6 DEF RdapAnswers, RdapNotFound, Deliver, Send, StageInv
<1>7. CASE FindWhoisServer
  BY <1>7 DEF FindWhoisServer, Refuse, StageInv
<1>8. CASE WhoisFails
  BY <1>8 DEF WhoisFails, Refuse, StageInv
<1>9. CASE WhoisAnswers \/ ReferralAnswers
  BY <1>9, ChainGrows, GoOnStage
<1>10. CASE ReferralFails
  BY <1>10 DEF ReferralFails, Deliver, Send, StageInv
<1>11. CASE UNCHANGED vars
  BY <1>11 DEF vars, StageInv, MayFollow, Target
<1> QED
  BY <1>1, <1>2, <1>3, <1>4, <1>5, <1>6, <1>7, <1>8, <1>9, <1>10, <1>11 DEF Next

-------------------------------------------------------------------------------
(* RDAP and its outcomes *)

\* Where RDAP may be asked again all its outcomes were failures of the transport, and
\* where WHOIS is asked the last one was a failure.
SeenInv ==
    /\ Len(seen) <= MaxRetryAttempts + 1
    /\ OnlyTransientRetried
    /\ RdapAnswerIsFinal
    /\ stage = "rdap" => seen = <<>>
    /\ stage = "rdapQuery" => /\ Len(seen) <= MaxRetryAttempts
                              /\ \A i \in 1 .. Len(seen) : seen[i] = "transport"

\* One more outcome after failures of the transport.
LEMMA SeenGrows ==
    ASSUME TypeInv, SeenInv, stage = "rdapQuery", NEW outcome \in RdapOutcomes,
           seen' = Append(seen, outcome)
    PROVE  /\ Len(seen') <= MaxRetryAttempts + 1
           /\ OnlyTransientRetried'
           /\ Last(seen') = outcome
           /\ Len(seen) < MaxRetryAttempts => Len(seen') <= MaxRetryAttempts
           /\ outcome = "transport" => \A i \in 1 .. Len(seen') : seen'[i] = "transport"
<1>1. /\ seen \in Seq(RdapOutcomes) /\ Len(seen) <= MaxRetryAttempts
      /\ \A i \in 1 .. Len(seen) : seen[i] = "transport"
  BY DEF TypeInv, SeenInv
<1>2. /\ Len(seen') = Len(seen) + 1 /\ Len(seen) \in Nat
      /\ \A i \in 1 .. Len(seen) : seen'[i] = seen[i]
      /\ seen'[Len(seen) + 1] = outcome
  BY <1>1
<1> QED
  BY <1>1, <1>2, LookupAssumption DEF OnlyTransientRetried, Last

\* Before the first request RDAP was not asked.
LEMMA SeenInvInit == Init => SeenInv
BY LookupAssumption DEF Init, SeenInv, OnlyTransientRetried, RdapAnswerIsFinal

\* Every step keeps the outcomes of RDAP in the order the code retries and falls back in.
LEMMA SeenInvNext ==
    ASSUME TypeInv, StageInv, SeenInv, [Next]_vars
    PROVE  SeenInv'
<1> USE LookupAssumption
<1>1. CASE whois_lookup \/ whois_debug
  <2>1. PICK r : Serve(r)
    BY <1>1 DEF whois_lookup, whois_debug
  <2> QED
    BY <2>1, ServeStage DEF SeenInv, OnlyTransientRetried, RdapAnswerIsFinal
<1>2. CASE Expire
  BY <1>2 DEF Expire, SeenInv, OnlyTransientRetried, RdapAnswerIsFinal
<1>3. CASE TimeOut
  BY <1>3 DEF TimeOut, Refuse, SeenInv, OnlyTransientRetried, RdapAnswerIsFinal
<1>4. CASE FindRdapServer
  BY <1>4 DEF FindRdapServer, SeenInv, OnlyTransientRetried, RdapAnswerIsFinal
<1>5. CASE RdapFails
  <2>1. PICK outcome \in {"429", "5xx", "tooLarge", "transport"} :
           /\ seen' = Append(seen, outcome)
           /\ stage' = IF Retries(outcome) THEN "rdapQuery" ELSE "whois"
    BY <1>5 DEF RdapFails
  <2>2. stage = "rdapQuery" /\ chain' = chain /\ outcome \in RdapOutcomes
    BY <1>5 DEF RdapFails, RdapOutcomes
  <2> QED
    BY <2>1, <2>2, SeenGrows DEF SeenInv, RdapAnswerIsFinal, Retries
<1>6. CASE RdapAnswers \/ RdapNotFound
  <2>1. PICK outcome \in {"200", "404"} : seen' = Append(seen, outcome)
    BY <1>6 DEF RdapAnswers, RdapNotFound
  <2>2. /\ stage = "rdapQuery" /\ stage' = "idle" /\ chain' = <<>>
        /\ outcome \in RdapOutcomes
    BY <1>6 DEF RdapAnswers, RdapNotFound, Deliver, Send, StageInv, RdapOutcomes
  <2> QED
    BY <2>1, <2>2, SeenGrows DEF SeenInv, RdapAnswerIsFinal
<1>7. CASE FindWhoisServer
  BY <1>7 DEF FindWhoisServer, Refuse, SeenInv, OnlyTransientRetried, RdapAnswerIsFinal
<1>8. CASE WhoisFails
  BY <1>8 DEF WhoisFails, Refuse, SeenInv, OnlyTransientRetried, RdapAnswerIsFinal
<1>9. CASE WhoisAnswers \/ ReferralAnswers
  <2>1. stage \in {"whoisQuery", "referral"}
    BY <1>9 DEF WhoisAnswers, ReferralAnswers
  <2>2. seen' = seen /\ stage' \in {"idle", "referral"}
    BY <1>9, ChainGrows, GoOnStage
  <2> QED
    BY <2>1, <2>2 DEF SeenInv, OnlyTransientRetried, RdapAnswerIsFinal
<1>10. CASE ReferralFails
  BY <1>10 DEF ReferralFails, Deliver, Send, SeenInv, OnlyTransientRetried,
               RdapAnswerIsFinal
<1>11. CASE UNCHANGED vars
  BY <1>11 DEF vars, SeenInv, OnlyTransientRetried, RdapAnswerIsFinal
<1> QED
  BY <1>1, <1>2, <1>3, <1>4, <1>5, <1>6, <1>7, <1>8, <1>9, <1>10, <1>11 DEF Next

-------------------------------------------------------------------------------
(* Addresses of no registry *)

\* Only an address of some registry is asked about, and only one of none is refused as
\* unsupported.
RirInv ==
    IsIp(request) =>
        /\ stage \in {"rdapQuery", "whoisQuery", "referral"} => Rir(request) # "Unsupported"
        /\ reply.error = "UnsupportedIpAddress" => Rir(request) = "Unsupported"

\* Before the first request no registry was asked.
LEMMA RirInvInit == Init => RirInv
BY DEF Init, RirInv, IsIp, NoRequest

\* Every step leaves an address with the registry its ranges name.
LEMMA RirInvNext ==
    ASSUME TypeInv, StageInv, RirInv, [Next]_vars
    PROVE  RirInv'
<1> USE DEF RirInv, IsIp, Rir
<1>1. CASE whois_lookup \/ whois_debug
  <2>1. PICK r : Serve(r)
    BY <1>1 DEF whois_lookup, whois_debug
  <2>2. stage' \in {"idle", "rdap"} /\ reply'.error # "UnsupportedIpAddress"
    BY <2>1 DEF Serve, Refuse, Send, NoReply, Validate, None
  <2> QED
    BY <2>2
<1>2. CASE Expire
  BY <1>2 DEF Expire
<1>3. CASE TimeOut
  BY <1>3 DEF TimeOut, Refuse
<1>4. CASE FindRdapServer
  BY <1>4 DEF FindRdapServer
<1>5. CASE RdapFails
  BY <1>5 DEF RdapFails
<1>6. CASE RdapAnswers \/ RdapNotFound \/ ReferralFails
  <2>1. stage' = "idle" /\ reply'.error = None
    BY <1>6 DEF RdapAnswers, RdapNotFound, ReferralFails, Deliver, Send
  <2> QED
    BY <2>1 DEF None
<1>7. CASE FindWhoisServer
  BY <1>7 DEF FindWhoisServer, Refuse
<1>8. CASE WhoisFails
  BY <1>8 DEF WhoisFails, Refuse, ReportedError, QueryErrors
<1>9. CASE WhoisAnswers \/ ReferralAnswers
  <2>1. stage \in {"whoisQuery", "referral"}
    BY <1>9 DEF WhoisAnswers, ReferralAnswers
  <2>2. PICK answers : GoOnWith(answers) /\ reply = NoReply /\ UNCHANGED request
    BY <1>9, ChainGrows
  <2>3. stage' \in {"idle", "referral"} /\ reply'.error = None
    BY <2>2 DEF GoOnWith, Deliver, Send, NoReply
  <2> QED
    BY <2>1, <2>2, <2>3 DEF None
<1>10. CASE UNCHANGED vars
  BY <1>10 DEF vars
<1> QED
  BY <1>1, <1>2, <1>3, <1>4, <1>5, <1>6, <1>7, <1>8, <1>9, <1>10 DEF Next

-------------------------------------------------------------------------------
(* The answer to the client *)

\* What a client gets of a response: the analysis only if it asked for it.
Sent(response, r) == [response EXCEPT !.analysis = @ /\ r.debug]

\* What is sent of WHOIS is what the chain of answers comes to; what is sent of RDAP has
\* the ages of its own dates.
AnswerInv ==
    /\ FromWhois => reply.response = Sent(Result(chain), request)
    /\ Answered /\ ~reply.response.cached /\ chain = <<>> =>
          reply.response.parsed = NoRecord \/ AgesRight(reply.response.parsed)

\* Before the first request there is no response.
LEMMA AnswerInvInit == Init => AnswerInv
BY DEF Init, AnswerInv, FromWhois, Answered, NoReply

\* Every step keeps a WHOIS response what the chain of answers gives, and an RDAP response
\* what the parsers made of its body.
LEMMA AnswerInvNext ==
    ASSUME TypeInv, StageInv, AnswerInv, [Next]_vars
    PROVE  AnswerInv'
<1>1. UNCHANGED request => Result(chain)' = Result(chain')
  BY DEF Result, IsIp
<1>2. ASSUME NEW error \in Errors, Refuse(error) PROVE AnswerInv'
  BY <1>2, ErrorStatus DEF Refuse, AnswerInv, FromWhois, Answered
<1>3. reply' = NoReply => AnswerInv'
  BY DEF AnswerInv, FromWhois, Answered, NoReply
<1>4. ASSUME NEW answers, answers # <<>>, Deliver(Result(answers)), chain' = answers,
             UNCHANGED request
      PROVE  AnswerInv'
  BY <1>1, <1>4 DEF Deliver, Send, AnswerInv, Sent
<1>5. ASSUME NEW response, IsResponse(response), Deliver(response), chain' = <<>>,
             response.parsed = NoRecord \/ AgesRight(response.parsed)
      PROVE  AnswerInv'
  <2>1. reply'.response.parsed = response.parsed
    BY <1>5 DEF Deliver, Send, IsResponse
  <2> QED
    BY <1>5, <2>1 DEF AnswerInv, FromWhois
<1>6. CASE whois_lookup \/ whois_debug
  <2>1. PICK r : Serve(r)
    BY <1>6 DEF whois_lookup, whois_debug
  <2>2. CASE Validate(r.input) # "Ok"
    BY <1>2, <2>1, <2>2 DEF Serve, Validate, Errors
  <2>3. CASE Validate(r.input) = "Ok" /\ ~r.fresh /\ cache.query = r.input
    <3>1. IsResponse(cache.response)
      BY <2>3, NothingIsInvalid DEF TypeInv, IsEntry, NoEntry
    <3>2. Send(r, [cache.response EXCEPT !.cached = TRUE]) /\ chain' = <<>>
      BY <2>1, <2>3 DEF Serve
    <3>3. reply'.response.cached = TRUE
      BY <3>1, <3>2 DEF Send, IsResponse
    <3> QED
      BY <3>2, <3>3 DEF AnswerInv, FromWhois
  <2>4. CASE Validate(r.input) = "Ok" /\ ~(~r.fresh /\ cache.query = r.input)
    BY <1>3, <2>1, <2>4 DEF Serve
  <2> QED
    BY <2>2, <2>3, <2>4
<1>7. CASE Expire \/ UNCHANGED vars
  <2>1. UNCHANGED <<request, chain, reply>>
    BY <1>7 DEF Expire, vars
  <2>2. Result(chain)' = Result(chain)
    BY <1>1, <2>1
  <2> QED
    BY <2>1, <2>2 DEF AnswerInv, FromWhois, Answered, Sent
<1>8. CASE TimeOut \/ WhoisFails
  BY <1>2, <1>8 DEF TimeOut, WhoisFails, Errors, ReportedError
<1>9. CASE FindRdapServer \/ RdapFails
  BY <1>3, <1>9 DEF FindRdapServer, RdapFails, StageInv
<1>10. CASE RdapAnswers
  <2>1. PICK body :
           Deliver(Response(RdapServer, body,
                            IF IsIp(request) THEN parse_rdap_ip_response(body)
                            ELSE parse_rdap_response(body), "Found"))
    BY <1>10 DEF RdapAnswers
  <2> DEFINE response == Response(RdapServer, body,
                                  IF IsIp(request) THEN parse_rdap_ip_response(body)
                                  ELSE parse_rdap_response(body), "Found")
  <2>2. /\ IsResponse(response)
        /\ response.parsed = NoRecord \/ AgesRight(response.parsed)
    BY ParsedAgesRight DEF IsResponse, Response, Statuses
  <2>3. chain' = <<>>
    BY <1>10 DEF RdapAnswers, StageInv
  <2> HIDE DEF response
  <2>4. Deliver(response)
    BY <2>1 DEF response
  <2> QED
    BY <1>5, <2>2, <2>3, <2>4
<1>11. CASE RdapNotFound
  <2>1. IsResponse(Response(RdapServer, NotJson, NoRecord, "NotFound"))
    BY DEF IsResponse, Response, Statuses
  <2> QED
    BY <1>5, <1>11, <2>1 DEF RdapNotFound, StageInv, Response
<1>12. CASE FindWhoisServer
  BY <1>2, <1>3, <1>12 DEF FindWhoisServer, StageInv, Errors
<1>13. CASE WhoisAnswers \/ ReferralAnswers
  <2>1. PICK answers \in Seq(Answers) \ {<<>>} :
           /\ GoOnWith(answers) /\ Len(answers) <= MaxReferrals + 1
           /\ reply = NoReply /\ UNCHANGED request
    BY <1>13, ChainGrows
  <2> QED
    BY <1>3, <1>4, <2>1, GoOnStage
<1>14. CASE ReferralFails
  BY <1>4, <1>14 DEF ReferralFails, StageInv
<1> QED
  BY <1>6, <1>7, <1>8, <1>9, <1>10, <1>11, <1>12, <1>13, <1>14 DEF Next

-------------------------------------------------------------------------------
(* Theorems *)

\* Every request, chain of answers, cached response and reply is well formed.
THEOREM TypesAreKept == Spec => [](TypeInv /\ StageInv)
<1>1. Init => TypeInv /\ StageInv
  BY TypeInvInit, StageInvInit
<1>2. TypeInv /\ StageInv /\ [Next]_vars => (TypeInv /\ StageInv)'
  BY TypeInvNext, StageInvNext
<1> QED
  BY <1>1, <1>2, PTL DEF Spec

\* SeenInv holds in every state.
LEMMA SeenIsKept == Spec => []SeenInv
<1>1. TypeInv /\ StageInv /\ SeenInv /\ [Next]_vars => SeenInv'
  BY SeenInvNext
<1> QED
  BY <1>1, SeenInvInit, TypesAreKept, PTL DEF Spec

\* AnswerInv holds in every state.
LEMMA AnswerIsKept == Spec => []AnswerInv
<1>1. TypeInv /\ StageInv /\ AnswerInv /\ [Next]_vars => AnswerInv'
  BY AnswerInvNext
<1> QED
  BY <1>1, AnswerInvInit, TypesAreKept, PTL DEF Spec

\* RirInv holds in every state.
LEMMA RirIsKept == Spec => []RirInv
<1>1. TypeInv /\ StageInv /\ RirInv /\ [Next]_vars => RirInv'
  BY RirInvNext
<1> QED
  BY <1>1, RirInvInit, TypesAreKept, PTL DEF Spec

\* Every variable has its type, and a reply has either a response or an error.
THEOREM TypeCorrect == Spec => []TypeOK
<1>1. TypeInv /\ StageInv /\ SeenInv => TypeOK
  <2> SUFFICES ASSUME TypeInv, StageInv, SeenInv PROVE TypeOK
    OBVIOUS
  <2>1. cache # NoEntry => cache.response.status \in {"Found", "NotFound"}
    BY DEF TypeInv, IsEntry, IsResponse, Statuses
  <2>2. ASSUME NEW x, IsResponse(x) PROVE x # NoResponse
    <3>1. DOMAIN x # DOMAIN NoResponse
      BY <2>2 DEF IsResponse, NoResponse
    <3> QED
      BY <3>1
  <2>3. CASE reply = NoReply
    BY <2>1, <2>3 DEF TypeOK, TypeInv, StageInv, SeenInv, Answered, NoReply
  <2>4. CASE \E error \in Errors : reply = Refusal(error)
    BY <2>1, <2>4, ErrorStatus
       DEF TypeOK, TypeInv, StageInv, SeenInv, Answered, Refusal
  <2>5. CASE /\ reply = [code |-> 200, error |-> None, response |-> reply.response]
             /\ IsResponse(reply.response)
    BY <2>1, <2>2, <2>5
       DEF TypeOK, TypeInv, StageInv, SeenInv, Answered, IsResponse
  <2> QED
    BY <2>3, <2>4, <2>5 DEF TypeInv, IsReply
<1> QED
  BY <1>1, TypesAreKept, SeenIsKept, PTL

\* A response by WHOIS is the result of a chain of answers.
LEMMA AnswerIsResult ==
    ASSUME TypeInv, AnswerInv, FromWhois
    PROVE  /\ chain \in Seq(Answers) /\ chain # <<>>
           /\ reply.response.server = Result(chain).server
           /\ reply.response.raw = Result(chain).raw
           /\ reply.response.parsed = Result(chain).parsed
           /\ reply.response.status = Result(chain).status
<1>1. chain \in Seq(Answers) /\ chain # <<>>
  BY DEF TypeInv, FromWhois
<1>2. IsResponse(Result(chain)) /\ reply.response = Sent(Result(chain), request)
  BY <1>1, ResultFacts DEF AnswerInv
<1> HIDE DEF Result
<1> QED
  BY <1>1, <1>2 DEF Sent, IsResponse

\* A lookup loses no field that the first server filled, unless all it got was throttled.
THEOREM FieldsAreKept == Spec => []FieldsKept
<1>1. TypeInv /\ AnswerInv => FieldsKept
  BY AnswerIsResult, ResultKeeps DEF FieldsKept, FirstRecord
<1> QED
  BY <1>1, TypesAreKept, AnswerIsKept, PTL

\* A throttled referral does not make a domain's lookup throttled.
THEOREM ThrottledReferralsAreHidden == Spec => []ThrottleHidden
<1>1. TypeInv /\ AnswerInv => ThrottleHidden
  BY AnswerIsResult, ResultKeeps DEF ThrottleHidden, FirstRecord
<1> QED
  BY <1>1, TypesAreKept, AnswerIsKept, PTL

\* No notice makes a text that has a record in it anything but Found.
THEOREM NoticesNeverMask == Spec => []NoticeNeverMasks
<1>1. TypeInv /\ AnswerInv => NoticeNeverMasks
  BY AnswerIsResult, ResultKeeps DEF NoticeNeverMasks
<1> QED
  BY <1>1, TypesAreKept, AnswerIsKept, PTL

\* A WHOIS response is OfAnswer of one of the chain's answers.
LEMMA AnswerIsOne ==
    ASSUME TypeInv, AnswerInv, FromWhois
    PROVE  \E i \in DOMAIN chain : OfAnswer(reply.response, chain[i], chain[1])
<1>1. PICK i \in DOMAIN chain : OfAnswer(Result(chain), chain[i], chain[1])
  BY AnswerIsResult, ResultFacts
<1> HIDE DEF Result
<1> QED
  BY <1>1, AnswerIsResult DEF OfAnswer

\* Server, raw text and record of a WHOIS response are one answer's, and what the text
\* lacks is empty or the first server's.
THEOREM AnswersNameTheirServer == Spec => []AnswerIsItsServers
<1>1. TypeInv /\ AnswerInv => AnswerIsItsServers
  <2> SUFFICES ASSUME TypeInv, AnswerInv, FromWhois PROVE AnswerIsItsServers
    BY DEF AnswerIsItsServers
  <2>1. PICK i \in DOMAIN chain : OfAnswer(reply.response, chain[i], chain[1])
    BY AnswerIsOne
  <2>2. chain[i].server = reply.response.server /\ chain[i].text = reply.response.raw
    BY <2>1 DEF OfAnswer
  <2>3. \A f \in Fields : reply.response.parsed[f] \in
           IF RecordIn(chain[i].text)[f] # {} THEN {RecordIn(chain[i].text)[f]}
           ELSE {{}, RecordIn(chain[1].text)[f]}
    BY <2>1, AnswerFields
  <2> QED
    BY <2>2, <2>3 DEF AnswerIsItsServers, FirstRecord
<1> QED
  BY <1>1, TypesAreKept, AnswerIsKept, PTL

\* The ages in a response are those of the dates beside them, or of the first server's
\* dates where these cannot be read.
THEOREM AgesAreTheDates == Spec => []AgesMatch
<1>1. TypeInv /\ AnswerInv => AgesMatch
  <2> SUFFICES ASSUME TypeInv, AnswerInv, Answered, ~reply.response.cached,
                      reply.response.parsed # NoRecord
               PROVE  AgesMatch
    BY DEF AgesMatch
  <2>1. CASE FromWhois
    <3>1. PICK i \in DOMAIN chain : OfAnswer(reply.response, chain[i], chain[1])
      BY <2>1, AnswerIsOne
    <3> QED
      BY <2>1, <3>1, AnswerFields DEF AgesMatch, FirstRecord
  <2>2. CASE ~FromWhois
    <3>1. AgesRight(reply.response.parsed)
      BY <2>2 DEF AnswerInv, FromWhois
    <3> QED
      BY <2>2, <3>1 DEF AgesMatch, AgesRight
  <2> QED
    BY <2>1, <2>2
<1> QED
  BY <1>1, TypesAreKept, AnswerIsKept, PTL

\* Only failures of the transport are retried.
THEOREM RetriesAreTransient == Spec => []OnlyTransientRetried
BY SeenIsKept, PTL DEF SeenInv

\* After an answer by RDAP no WHOIS server is asked.
THEOREM RdapAnswersAreFinal == Spec => []RdapAnswerIsFinal
BY SeenIsKept, PTL DEF SeenInv

\* All the callers that share a failed fetch get the same HTTP status.
THEOREM WaitersGetOneStatus == Spec => []WaitersAgree
<1>1. TypeInv => WaitersAgree
  BY ErrorStatus DEF TypeInv, IsReply, Refusal, NoReply, WaitersAgree
<1> QED
  BY <1>1, TypesAreKept, PTL

\* No server is asked about an address that belongs to no registry, and every other
\* valid address is asked about.
THEOREM SpecialAddressesStayHome == Spec => []SpecialNeverAsked
<1>1. TypeInv /\ RirInv => SpecialNeverAsked
  <2> SUFFICES ASSUME TypeInv, RirInv, IsIp(request) PROVE SpecialNeverAsked
    BY DEF SpecialNeverAsked
  <2>1. request.input \in Inputs
    BY RequestType DEF TypeInv
  <2>2. request.input.ip \in Ip!Addresses
    BY <2>1, LookupAssumption DEF IsIp
  <2> QED
    BY <2>2, OnlySpecialUnsupported DEF SpecialNeverAsked, RirInv, Rir
<1> QED
  BY <1>1, TypesAreKept, RirIsKept, PTL

\* Fresh and debug requests neither read nor write the cache.
THEOREM LiveRequestsBypassTheCache == Spec => LiveBypassesCache
<1> DEFINE Bypasses == request'.fresh /\ reply' # reply =>
                          /\ cache' = cache
                          /\ reply'.code = 200 => ~reply'.response.cached
<1>1. ASSUME TypeInv, StageInv, [Next]_vars PROVE Bypasses
  <2>1. ASSUME NEW response, IsResponse(response), response.cached = FALSE,
               Deliver(response), UNCHANGED request
        PROVE  Bypasses
    BY <2>1 DEF Deliver, Store, Send, IsResponse
  <2>2. ASSUME NEW error \in Errors, Refuse(error), UNCHANGED cache PROVE Bypasses
    BY <2>2, ErrorStatus DEF Refuse
  <2>3. ASSUME UNCHANGED reply PROVE Bypasses
    BY <2>3
  <2>4. CASE whois_lookup \/ whois_debug
    <3>1. PICK r \in Requests : Serve(r)
      BY <2>4 DEF whois_lookup, whois_debug, Requests
    <3>2. CASE Validate(r.input) # "Ok"
      BY <2>2, <3>1, <3>2 DEF Serve, Validate, Errors
    <3>3. CASE Validate(r.input) = "Ok" /\ r.fresh
      BY <3>1, <3>3 DEF Serve, NoReply
    <3>4. CASE ~r.fresh
      BY <3>1, <3>4 DEF Serve
    <3> QED
      BY <3>2, <3>3, <3>4
  <2>5. CASE Expire \/ UNCHANGED vars
    BY <2>3, <2>5 DEF Expire, vars
  <2>6. CASE TimeOut
    BY <2>2, <2>6 DEF TimeOut, Errors
  <2>7. CASE FindRdapServer \/ RdapFails
    BY <2>3, <2>7 DEF FindRdapServer, RdapFails
  <2>8. CASE RdapAnswers
    BY <2>1, <2>8 DEF RdapAnswers, Response, IsResponse, Statuses
  <2>9. CASE RdapNotFound
    BY <2>1, <2>9 DEF RdapNotFound, Response, IsResponse, Statuses
  <2>10. CASE FindWhoisServer
    BY <2>2, <2>3, <2>10 DEF FindWhoisServer, Errors
  <2>11. CASE WhoisFails
    BY <2>2, <2>11 DEF WhoisFails, ReportedError, Errors
  <2>12. CASE WhoisAnswers \/ ReferralAnswers
    <3>1. PICK answers \in Seq(Answers) \ {<<>>} :
             /\ GoOnWith(answers) /\ Len(answers) <= MaxReferrals + 1
             /\ reply = NoReply /\ UNCHANGED request
      BY <1>1, <2>12, ChainGrows
    <3>2. IsResponse(Result(answers)) /\ Result(answers).cached = FALSE
      BY <3>1, ResultFacts
    <3> QED
      BY <2>1, <2>3, <3>1, <3>2, GoOnStage
  <2>13. CASE ReferralFails
    <3>1. IsResponse(Result(chain)) /\ Result(chain).cached = FALSE
      BY <1>1, <2>13, ResultFacts DEF ReferralFails, StageInv, TypeInv
    <3> QED
      BY <2>1, <2>13, <3>1 DEF ReferralFails
  <2> QED
    BY <1>1, <2>4, <2>5, <2>6, <2>7, <2>8, <2>9, <2>10, <2>11, <2>12, <2>13 DEF Next
<1>2. TypeInv /\ StageInv /\ [Next]_vars => [Bypasses]_vars
  BY <1>1
<1> HIDE DEF Bypasses
<1>3. Spec => [][Bypasses]_vars
  BY <1>2, TypesAreKept, PTL DEF Spec
<1> QED
  BY <1>3 DEF LiveBypassesCache, Bypasses
===============================================================================
