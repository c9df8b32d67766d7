-------------------------------- MODULE Naming ---------------------------------
(***************************************************************************)
(* relay/naming.py: the radio address a micro:bit's name derives.  A word  *)
(* is a name's five letters, each by its place in the alphabet of its      *)
(* position; elsewhere a name is the number its word decodes to.           *)
(***************************************************************************)
EXTENDS Integers

Space == 5 ^ 5
Word == [1 .. 5 -> 0 .. 4]

\* The first letter is the most significant.
Decode(w) == (((w[1] * 5 + w[2]) * 5 + w[3]) * 5 + w[4]) * 5 + w[5]

\* The last letter comes first: n % 5, then the rest of n \div 5.
Encode(n) ==
    LET n4 == n \div 5
        n3 == n4 \div 5
        n2 == n3 \div 5
        n1 == n2 \div 5
    IN  <<n1 % 5, n2 % 5, n3 % 5, n4 % 5, n % 5>>

Channels == 73
Groups == 241
ChannelMin == 11
GroupMin == 15
ChannelsInverse == 208      \* 73 * 208 = 1 (mod 241)

Link(c, g) == [channel |-> c, group |-> g]

Address(n) == Link(ChannelMin + (n % Channels), GroupMin + (n % Groups))

\* radio_to_name: the n below 73 * 241 that is c (mod 73) and g (mod 241).
\* The caller checks the ranges and that n is below Space.
RadioToIndex(p) ==
    LET c == p.channel - ChannelMin
        g == p.group - GroupMin
    IN  c + Channels * (((g - c + Groups) * ChannelsInverse) % Groups)

DerivedRange(p) ==
    /\ p.channel \in ChannelMin .. ChannelMin + Channels - 1
    /\ p.group \in GroupMin .. GroupMin + Groups - 1

\* The name that derives p, or none: ValueError.
RadioToName(p) ==
    IF DerivedRange(p) /\ RadioToIndex(p) < Space THEN {RadioToIndex(p)} ELSE {}
================================================================================
