------------------------------ MODULE NamesProofs -------------------------------
(***************************************************************************)
(* Proofs about Naming and Names, for every set of hosts, names, links and *)
(* handlers.                                                               *)
(***************************************************************************)
EXTENDS Names, TLAPS

(***************************************************************************)
(* The address map.                                                        *)
(***************************************************************************)

\* What n % 73 leaves, for a name of naming.py's space.
LEMMA ByChannels ==
    ASSUME NEW n \in 0 .. 3124
    PROVE  n = 73 * (n \div 73) + (n % 73) /\ n % 73 \in 0 .. 72 /\ n \div 73 \in 0 .. 42
  BY Z3

\* What n % 241 leaves.
LEMMA ByGroups ==
    ASSUME NEW n \in 0 .. 3124
    PROVE  n = 241 * (n \div 241) + (n % 241) /\ n % 241 \in 0 .. 240 /\ n \div 241 \in 0 .. 12
  BY Z3

\* A multiple of 241 and a small rest.
LEMMA RestOfGroups ==
    ASSUME NEW q \in Int, NEW a \in 0 .. 42
    PROVE  (241 * q + a) % 241 = a
  BY Z3

\* 5 ^ 5, as the provers need it.
LEMMA SpaceValue == Space = 3125
<1>1. 5 ^ 5 = 3125
  BY Z3
<1>2. QED
  BY <1>1 DEF Space

\* Division by the size of an alphabet.
LEMMA ByAlphabet ==
    ASSUME NEW n \in Nat
    PROVE  n = 5 * (n \div 5) + (n % 5) /\ n % 5 \in 0 .. 4 /\ n \div 5 \in Nat
  BY Z3

\* Quotient and rest determine each other.
LEMMA AlphabetUnique ==
    ASSUME NEW q \in Nat, NEW d \in 0 .. 4
    PROVE  (q * 5 + d) % 5 = d /\ (q * 5 + d) \div 5 = q
  BY Z3

\* encode writes a number of the space as a word that decode reads back: the
\* two agree on which end is the most significant (relay/naming.py, decode
\* and encode).
THEOREM DecodeInvertsEncode ==
    ASSUME NEW n \in 0 .. Space - 1
    PROVE  Encode(n) \in Word /\ Decode(Encode(n)) = n
<1> DEFINE n4 == n \div 5
           n3 == n4 \div 5
           n2 == n3 \div 5
           n1 == n2 \div 5
<1>1. n \in Nat /\ n < 3125
  BY SpaceValue
<1>2. n = 5 * n4 + (n % 5) /\ n % 5 \in 0 .. 4 /\ n4 \in Nat
  BY <1>1, ByAlphabet
<1>3. n4 = 5 * n3 + (n4 % 5) /\ n4 % 5 \in 0 .. 4 /\ n3 \in Nat
  BY <1>2, ByAlphabet
<1>4. n3 = 5 * n2 + (n3 % 5) /\ n3 % 5 \in 0 .. 4 /\ n2 \in Nat
  BY <1>3, ByAlphabet
<1>5. n2 = 5 * n1 + (n2 % 5) /\ n2 % 5 \in 0 .. 4 /\ n1 \in Nat
  BY <1>4, ByAlphabet
<1>6. n1 = 5 * (n1 \div 5) + (n1 % 5) /\ n1 % 5 \in 0 .. 4 /\ n1 \div 5 \in Nat
  BY <1>5, ByAlphabet
<1>7. Encode(n) = <<n1 % 5, n2 % 5, n3 % 5, n4 % 5, n % 5>>
  BY DEF Encode
<1> HIDE DEF n4, n3, n2, n1
<1> DEFINE d == n % 5  d4 == n4 % 5  d3 == n3 % 5  d2 == n2 % 5  d1 == n1 % 5
           top == n1 \div 5
<1>8. Encode(n) = <<d1, d2, d3, d4, d>>
  BY <1>7
<1>9. /\ n = 5 * n4 + d /\ n4 = 5 * n3 + d4 /\ n3 = 5 * n2 + d3
      /\ n2 = 5 * n1 + d2 /\ n1 = 5 * top + d1
  BY <1>2, <1>3, <1>4, <1>5, <1>6
<1>10. /\ d \in 0 .. 4 /\ d4 \in 0 .. 4 /\ d3 \in 0 .. 4 /\ d2 \in 0 .. 4 /\ d1 \in 0 .. 4
       /\ top \in Nat
  BY <1>2, <1>3, <1>4, <1>5, <1>6
<1> HIDE DEF d, d4, d3, d2, d1, top
<1>11. n1 \in Nat /\ n2 \in Nat /\ n3 \in Nat /\ n4 \in Nat
  BY <1>2, <1>3, <1>4, <1>5
<1>12. top = 0
  BY <1>1, <1>9, <1>10, <1>11
<1>13. n = (((d1 * 5 + d2) * 5 + d3) * 5 + d4) * 5 + d
  BY <1>9, <1>10, <1>12
<1>14. Encode(n) \in Word
  BY <1>8, <1>10 DEF Word
<1>15. Decode(Encode(n)) = (((d1 * 5 + d2) * 5 + d3) * 5 + d4) * 5 + d
  BY <1>8 DEF Decode
<1>16. QED
  BY <1>13, <1>14, <1>15

\* Every word is the encoding of its number, so no two names share one
\* (relay/naming.py, decode and encode).
THEOREM EncodeInvertsDecode ==
    ASSUME NEW w \in Word
    PROVE  Decode(w) \in 0 .. Space - 1 /\ Encode(Decode(w)) = w
<1> DEFINE a == w[1]  b == w[2]  c == w[3]  d == w[4]  e == w[5]
<1>1. a \in 0 .. 4 /\ b \in 0 .. 4 /\ c \in 0 .. 4 /\ d \in 0 .. 4 /\ e \in 0 .. 4
  BY DEF Word
<1>2. w = <<a, b, c, d, e>>
  BY DEF Word
<1>3. Decode(w) = (((a * 5 + b) * 5 + c) * 5 + d) * 5 + e
  BY DEF Decode
<1> HIDE DEF a, b, c, d, e
<1> DEFINE n2 == a * 5 + b  n3 == n2 * 5 + c  n4 == n3 * 5 + d  n == n4 * 5 + e
<1>4. a \in Nat /\ n2 \in Nat /\ n3 \in Nat /\ n4 \in Nat /\ n \in Nat
  BY <1>1
<1>5. n2 % 5 = b /\ n2 \div 5 = a
  BY <1>1, <1>4, AlphabetUnique
<1>6. Decode(w) = n /\ n < 3125
  BY <1>1, <1>3
<1> HIDE DEF n2
<1>7. n3 % 5 = c /\ n3 \div 5 = n2
  BY <1>1, <1>4, AlphabetUnique
<1> HIDE DEF n3
<1>8. n4 % 5 = d /\ n4 \div 5 = n3
  BY <1>1, <1>4, AlphabetUnique
<1> HIDE DEF n4
<1>9. n % 5 = e /\ n \div 5 = n4
  BY <1>1, <1>4, AlphabetUnique
<1> HIDE DEF n
<1>10. a % 5 = a
  BY <1>1
<1>11. Encode(n) = <<a, b, c, d, e>>
  BY <1>5, <1>7, <1>8, <1>9, <1>10 DEF Encode
<1>12. QED
  BY <1>2, <1>4, <1>6, <1>11, SpaceValue

\* radio_to_name undoes address on all 3125 names: the constant 208 is the
\* inverse it claims to be, and the names stay below the product of the two
\* moduli (relay/naming.py, radio_to_name).
THEOREM RadioToNameInvertsAddress ==
    ASSUME NEW n \in 0 .. Space - 1
    PROVE  RadioToName(Address(n)) = {n}
<1> DEFINE a == n \div 73
           c == n % 73
           b == n \div 241
           g == n % 241
<1>0. n \in 0 .. 3124
  BY SpaceValue
<1>1. n = 73 * a + c /\ c \in 0 .. 72 /\ a \in 0 .. 42
  BY <1>0, ByChannels
<1>2. n = 241 * b + g /\ g \in 0 .. 240 /\ b \in 0 .. 12
  BY <1>0, ByGroups
<1>3. Address(n).channel = 11 + c /\ Address(n).group = 15 + g
  BY DEF Address, Link, ChannelMin, GroupMin, Channels, Groups
<1> HIDE DEF a, b, c, g
<1>4. g - c = 73 * a - 241 * b
  BY <1>1, <1>2
<1>5. (g - c + 241) * 208 = 241 * (63 * a - 208 * b + 208) + a
  BY <1>1, <1>2, <1>4
<1>6. 63 * a - 208 * b + 208 \in Int
  BY <1>1, <1>2
<1>7. (241 * (63 * a - 208 * b + 208) + a) % 241 = a
  BY <1>6, <1>1, RestOfGroups
<1>8. ((g - c + 241) * 208) % 241 = a
  BY <1>5, <1>7
<1>9. (15 + g) - 15 = g /\ (11 + c) - 11 = c
  BY <1>1, <1>2
<1>10. RadioToIndex(Address(n)) = c + 73 * a
  BY <1>3, <1>8, <1>9
     DEF RadioToIndex, ChannelMin, GroupMin, Channels, Groups, ChannelsInverse
<1>11. RadioToIndex(Address(n)) = n
  BY <1>1, <1>10
<1>12. DerivedRange(Address(n))
  BY <1>1, <1>2, <1>3 DEF DerivedRange, ChannelMin, GroupMin, Channels, Groups
<1>13. QED
  BY <1>0, <1>11, <1>12, SpaceValue DEF RadioToName

\* Quotient and rest by 241, for the product radio_to_name takes.
LEMMA ProductByGroups ==
    ASSUME NEW x \in Int
    PROVE  x = 241 * (x \div 241) + (x % 241) /\ x % 241 \in 0 .. 240 /\ x \div 241 \in Int
  BY Z3

\* What is left by 73 and by 241 of a number that was put together from them.
LEMMA RestOfChannels ==
    ASSUME NEW k \in Int, NEW c \in 0 .. 72
    PROVE  (c + 73 * k) % 73 = c
  BY Z3

\* As RestOfGroups, for every rest.
LEMMA AnyRestOfGroups ==
    ASSUME NEW q \in Int, NEW g \in 0 .. 240
    PROVE  (241 * q + g) % 241 = g
  BY Z3

\* The other direction: a name radio_to_name answers derives the link it was
\* asked about, for any link at all (relay/naming.py, radio_to_name).
THEOREM AddressInvertsRadioToName ==
    ASSUME NEW p \in [channel : Int, group : Int], NEW n \in RadioToName(p)
    PROVE  Address(n) = p
<1> DEFINE c == p.channel - 11
           g == p.group - 15
           x == (g - c + 241) * 208
           k == x % 241
           q == x \div 241
<1>1. n = RadioToIndex(p) /\ DerivedRange(p)
  BY DEF RadioToName
<1>2. c \in 0 .. 72 /\ g \in 0 .. 240
  BY <1>1 DEF DerivedRange, ChannelMin, GroupMin, Channels, Groups
<1>3. n = c + 73 * k
  BY <1>1 DEF RadioToIndex, ChannelMin, GroupMin, Channels, Groups, ChannelsInverse
<1>4. p.channel = 11 + c /\ p.group = 15 + g /\ p = [channel |-> p.channel, group |-> p.group]
  OBVIOUS
<1> HIDE DEF c, g
<1>5. x \in Int
  BY <1>2
<1>6. x = 241 * q + k /\ k \in 0 .. 240 /\ q \in Int
  BY <1>5, ProductByGroups
<1>7. x = (g - c + 241) * 208
  OBVIOUS
<1> HIDE DEF k, q, x
<1>8. c + 73 * k = 241 * (63 * (g - c + 241) + 1 - 73 * q) + g
  BY <1>2, <1>6, <1>7
<1>9. 63 * (g - c + 241) + 1 - 73 * q \in Int
  BY <1>2, <1>6
<1>10. n % 241 = g
  BY <1>2, <1>3, <1>8, <1>9, AnyRestOfGroups
<1>11. n % 73 = c
  BY <1>2, <1>3, <1>6, RestOfChannels
<1>12. QED
  BY <1>4, <1>10, <1>11 DEF Address, Link, ChannelMin, GroupMin, Channels, Groups

(***************************************************************************)
(* The store's operations keep tables well formed.                         *)
(***************************************************************************)

\* No assignable link is the mark for an absent one.
LEMMA AssignedIsNotNoPair ==
    ASSUME NEW p \in Assigned
    PROVE  p # NoPair
<1>1. CASE p \in Pair
  BY <1>1, PairsAreLinks DEF NoPair, Link
<1>2. CASE p \notin Pair
  <2>1. PICK m \in Name : p = Address(m)
    BY <1>2 DEF Assigned
  <2>2. m \in 0 .. 3124
    BY NamesAreInSpace, SpaceValue
  <2>3. m % 73 \in 0 .. 72
    BY <2>2, ByChannels
  <2>4. p.channel # NoPair.channel
    BY <2>1, <2>3 DEF Address, Link, NoPair, ChannelMin, Channels
  <2>5. QED
    BY <2>4
<1>3. QED
  BY <1>1, <1>2

\* Every assignable link is a pair of numbers.
LEMMA LinksAreRecords == Assigned \subseteq [channel : Int, group : Int]
<1>1. ASSUME NEW m \in Name PROVE Address(m) \in [channel : Int, group : Int]
  <2>1. m \in 0 .. 3124
    BY NamesAreInSpace, SpaceValue
  <2>2. m % 73 \in 0 .. 72 /\ m % 241 \in 0 .. 240
    BY <2>1, ByChannels, ByGroups
  <2>3. QED
    BY <2>2 DEF Address, Link, ChannelMin, GroupMin, Channels, Groups
<1>2. QED
  BY <1>1, PairsAreLinks DEF Assigned

\* A table is well formed when its rows are.
LEMMA TableFromRows ==
    ASSUME NEW t, t = [n \in Name |-> t[n]], \A n \in Name : t[n] \in Rows(n)
    PROVE  t \in Tables
  BY DEF Tables

\* Putting a well-formed row into a well-formed table keeps it so.
LEMMA RowKeepsTable ==
    ASSUME NEW t \in Tables, NEW m \in Name, NEW e \in Rows(m)
    PROVE  [t EXCEPT ![m] = e] \in Tables
<1> DEFINE s == [t EXCEPT ![m] = e]
<1>1. t = [n \in Name |-> t[n]] /\ \A n \in Name : t[n] \in Rows(n)
  BY DEF Tables
<1>2. s = [n \in Name |-> s[n]]
  BY <1>1
<1>3. \A n \in Name : s[n] \in Rows(n)
  BY <1>1
<1> HIDE DEF s
<1>4. s \in Tables
  BY <1>2, <1>3, TableFromRows
<1>5. QED
  BY <1>4 DEF s

\* resolve, set and clear.
LEMMA StoreKeepsTable ==
    ASSUME NEW t \in Tables, NEW m \in Name
    PROVE  /\ Resolve(t, m) \in Tables
           /\ Clear(t, m) \in Tables
           /\ \A p \in Assigned : Set(t, m, p) \in Tables
<1>1. Entry(Address(m), "derived") \in Rows(m) /\ NoEntry \in Rows(m)
  BY DEF Rows
<1>2. \A p \in Assigned : Entry(p, "registry") \in Rows(m)
  BY DEF Rows
<1>3. Resolve(t, m) \in Tables
  BY <1>1, RowKeepsTable DEF Resolve
<1>4. Clear(t, m) \in Tables
  BY <1>1, RowKeepsTable DEF Clear
<1>5. \A p \in Assigned : Set(t, m, p) \in Tables
  BY <1>2, RowKeepsTable DEF Set
<1>6. QED
  BY <1>3, <1>4, <1>5

\* The pair of a well-formed row is a link or the mark for none.
LEMMA PairOfRow ==
    ASSUME NEW t \in Tables, NEW m \in Name
    PROVE  /\ t[m].pair \in Assigned \cup {NoPair}
           /\ t[m] # NoEntry => t[m].pair \in Assigned
<1>1. t[m] \in Rows(m)
  BY DEF Tables
<1>2. Address(m) \in Assigned
  BY DEF Assigned
<1>3. QED
  BY <1>1, <1>2 DEF Rows, Entry, NoEntry

\* A received event.
LEMMA EventKeepsTable ==
    ASSUME NEW t \in Tables, NEW e \in Events
    PROVE  ApplyEvent(t, e) \in Tables
<1>1. e.name \in Name /\ (e.pair = NoPair \/ e.pair \in Assigned)
  BY DEF Events
<1>2. QED
  BY <1>1, StoreKeepsTable DEF ApplyEvent

\* A fetched snapshot.
LEMMA SnapshotKeepsTable ==
    ASSUME NEW t \in Tables, NEW s \in Tables
    PROVE  ApplySnapshot(t, s) \in Tables
<1> DEFINE u == ApplySnapshot(t, s)
<1>1. u = [n \in Name |-> u[n]]
  BY DEF ApplySnapshot
<1>2. ASSUME NEW n \in Name PROVE u[n] \in Rows(n)
  <2>1. CASE s[n] = NoEntry
    BY <2>1 DEF ApplySnapshot, Tables
  <2>2. CASE s[n] # NoEntry
    <3>1. s[n].pair \in Assigned
      BY <2>2, PairOfRow
    <3>2. QED
      BY <2>2, <3>1 DEF ApplySnapshot, Rows
  <2>3. QED
    BY <2>1, <2>2
<1> HIDE DEF u
<1>3. u \in Tables
  BY <1>1, <1>2, TableFromRows
<1>4. QED
  BY <1>3 DEF u

\* The table of a host that has not been heard of anything.
LEMMA EmptyTable == [n \in Name |-> NoEntry] \in Tables
<1> DEFINE t == [n \in Name |-> NoEntry]
<1>1. t = [n \in Name |-> t[n]] /\ \A n \in Name : t[n] \in Rows(n)
  BY DEF Rows
<1> HIDE DEF t
<1>2. t \in Tables
  BY <1>1, TableFromRows
<1>3. QED
  BY <1>2 DEF t

(***************************************************************************)
(* name_for.                                                               *)
(***************************************************************************)

\* On a well-formed table, name_for inverts resolve.
LEMMA NameForOnTable ==
    ASSUME NEW t \in Tables, NEW p \in Assigned
    PROVE  LET there == {n \in Name : PairOf(t, n) = p}
           IN  NameFor(t, p) \subseteq there /\ (there # {} => NameFor(t, p) # {})
<1> DEFINE assigned == {n \in Name : t[n] = Entry(p, "registry")}
           derived == {n \in RadioToName(p) \cap Name : t[n].pair \in {NoPair, p}}
<1>1. p # NoPair
  BY AssignedIsNotNoPair
<1>2. \A n \in Name : t[n] \in Rows(n) /\ t = [m \in Name |-> t[m]]
  BY DEF Tables
<1>3. \A n \in Name : PairOf(t, n) = IF t[n] = NoEntry THEN Address(n) ELSE t[n].pair
  BY <1>2 DEF PairOf, Resolve, Entry
<1>4. \A n \in Name : RadioToName(Address(n)) = {n}
  BY NamesAreInSpace, RadioToNameInvertsAddress
<1>5. \A n \in assigned : PairOf(t, n) = p
  BY <1>1, <1>3 DEF Entry, NoEntry
<1>6. ASSUME NEW n \in derived PROVE PairOf(t, n) = p
  <2>1. CASE t[n].pair = p
    BY <2>1, <1>1, <1>3 DEF NoEntry, Entry
  <2>2. CASE t[n].pair = NoPair
    <3>1. t[n] = NoEntry
      BY <2>2, <1>2, AssignedIsNotNoPair, PairOfRow
    <3>2. Address(n) = p
      BY LinksAreRecords, AddressInvertsRadioToName
    <3>3. QED
      BY <3>1, <3>2, <1>3
  <2>3. QED
    BY <2>1, <2>2
<1>7. ASSUME NEW n \in Name, PairOf(t, n) = p, assigned = {}
      PROVE  n \in derived
  <2>1. t[n] = NoEntry \/ t[n] = Entry(Address(n), "derived")
    BY <1>2, <1>3, <1>7 DEF Rows, Entry, NoEntry
  <2>2. p = Address(n)
    BY <2>1, <1>3, <1>7 DEF Entry, NoEntry
  <2>3. t[n].pair \in {NoPair, p}
    BY <2>1, <2>2 DEF Entry, NoEntry
  <2>4. QED
    BY <2>2, <2>3, <1>4
<1>8. NameFor(t, p) = IF assigned # {} THEN assigned ELSE derived
  BY DEF NameFor
<1> HIDE DEF assigned, derived
<1>9. QED
  BY <1>5, <1>6, <1>7, <1>8 DEF assigned, derived

(***************************************************************************)
(* The type invariant.                                                     *)
(***************************************************************************)

\* A handler's locked part: the new table is well formed, and so is what it
\* will publish.
LEMMA WriteKeepsType ==
    ASSUME NamesTypeOK, NEW r \in Request, NEW n \in Name,
           NEW t \in Tables, NEW then \in Resolvings, Write(r, n, t, then)
    PROVE  NamesTypeOK'
<1> USE DEF NamesTypeOK, Write, linkVars
<1>1. HostOf[r] \in Host
  BY RequestsHaveHosts
<1>2. table' \in [Host -> Tables]
  BY <1>1
<1>3. Event(n, t[n].pair) \in Events
  BY PairOfRow DEF Event, Events
<1>4. req' \in [Request -> Works]
  BY <1>3 DEF Works
<1>5. torn' \subseteq Name
  OBVIOUS
<1>6. link' = link /\ subscribed' = subscribed /\ queue' = queue /\ snap' = snap
  OBVIOUS
<1>7. QED
  BY <1>2, <1>4, <1>5, <1>6

\* What a handler has left to publish is well formed.
LEMMA PublishingIsTyped ==
    ASSUME NamesTypeOK, NEW r \in Request, req[r].pc = "publish"
    PROVE  req[r].ev \in Events /\ req[r].then \in Resolvings
<1>1. req[r] \notin Resolvings
  BY DEF Resolvings, Idle, Resolving
<1>2. PICK e \in Events, then \in Resolvings : req[r] = Publishing(e, then)
  BY <1>1 DEF NamesTypeOK, Works
<1>3. QED
  BY <1>2 DEF Publishing

\* So is the name DELETE has left to derive.
LEMMA ResolvingIsTyped ==
    ASSUME NamesTypeOK, NEW r \in Request, req[r].pc = "resolve"
    PROVE  req[r].name \in Name
<1>1. \A e, then : req[r] # Publishing(e, then)
  BY DEF Publishing
<1>2. req[r] \in Resolvings
  BY <1>1 DEF NamesTypeOK, Works
<1>3. PICK n \in Name : req[r] = Resolving(n)
  BY <1>2 DEF Resolvings, Idle
<1>4. QED
  BY <1>3 DEF Resolving

\* Lost events are about names.
LEMMA MissedAreNames ==
    ASSUME NEW h, NEW es \in SUBSET Events
    PROVE  Missed(h, es) \subseteq Name
  BY DEF Missed, Events

\* Every step keeps the type invariant.
LEMMA TypeStep ==
    ASSUME NamesTypeOK, [Next]_vars
    PROVE  NamesTypeOK'
<1>0. ASSUME NEW r \in Request
      PROVE  Table(r) \in Tables /\ HostOf[r] \in Host
  BY RequestsHaveHosts DEF NamesTypeOK, Table
<1>1. Idle \in Resolvings /\ \A n \in Name : Resolving(n) \in Resolvings
  BY DEF Resolvings
<1>2. ASSUME NEW r \in Request, NEW n \in Name, NEW p \in Pair,
             OpNamesSet(r, n, p) \/ HandlePut(r, n, p)
      PROVE  NamesTypeOK'
  <2>1. p \in Assigned
    BY DEF Assigned
  <2>2. Set(Table(r), n, p) \in Tables
    BY <1>0, <2>1, StoreKeepsTable
  <2>3. QED
    BY <1>1, <1>2, <2>2, WriteKeepsType DEF OpNamesSet, HandlePut
<1>3. ASSUME NEW r \in Request, NEW n \in Name,
             OpNamesClear(r, n) \/ HandleGet(r, n) \/ HandleDelete(r, n)
      PROVE  NamesTypeOK'
  <2>1. Clear(Table(r), n) \in Tables /\ Resolve(Table(r), n) \in Tables
    BY <1>0, StoreKeepsTable
  <2>2. QED
    BY <1>1, <1>3, <2>1, WriteKeepsType DEF OpNamesClear, HandleGet, HandleDelete
<1>4. ASSUME NEW r \in Request, DeleteResolves(r)
      PROVE  NamesTypeOK'
  <2>1. req[r].name \in Name
    BY <1>4, ResolvingIsTyped DEF DeleteResolves
  <2>2. Resolve(Table(r), req[r].name) \in Tables
    BY <1>0, <2>1, StoreKeepsTable
  <2>3. QED
    BY <1>1, <1>4, <2>1, <2>2, WriteKeepsType DEF DeleteResolves
<1>5. ASSUME NEW r \in Request, PublishName(r)
      PROVE  NamesTypeOK'
  <2>1. req[r].ev \in Events /\ req[r].then \in Resolvings
    BY <1>5, PublishingIsTyped DEF PublishName
  <2>2. req' \in [Request -> Works]
    BY <1>5, <2>1 DEF PublishName, NamesTypeOK, Works
  <2>3. queue' \in [Host -> [Host -> Seq(Events)]]
    BY <1>0, <1>5, <2>1 DEF PublishName, NamesTypeOK
  <2>4. ASSUME NEW j PROVE Unheard(j, HostOf[r], req[r].ev) \subseteq Name
    <3>1. Missed(j, {req[r].ev}) \subseteq Name /\ req[r].ev.name \in Name
      BY <2>1, MissedAreNames DEF Events
    <3>2. QED
      BY <3>1 DEF Unheard
  <2>5. torn' \subseteq Name
    <3> DEFINE deaf == {j \in Others(HostOf[r]) : ~subscribed[j][HostOf[r]]}
               lost == {Unheard(j, HostOf[r], req[r].ev) : j \in deaf}
    <3>1. torn' = torn \cup UNION lost
      BY <1>5, Zenon DEF PublishName
    <3>2. \A m \in lost : m \subseteq Name
      BY <2>4, Zenon
    <3> HIDE DEF lost
    <3>3. QED
      BY <3>1, <3>2 DEF NamesTypeOK
  <2>6. ASSUME NEW h \in Host, NEW k \in Host, ~subscribed[h][k]
        PROVE  queue'[h][k] = <<>>
    <3>1. queue'[h][k] = queue[h][k]
      BY <1>0, <1>5, <2>6 DEF PublishName, NamesTypeOK, Others
    <3>2. QED
      BY <2>6, <3>1 DEF NamesTypeOK
  <2>7. table' = table /\ link' = link /\ subscribed' = subscribed /\ snap' = snap
    BY <1>5 DEF PublishName
  <2>8. QED
    BY <2>2, <2>3, <2>5, <2>6, <2>7 DEF NamesTypeOK
<1>6. ASSUME NEW h \in Host, NEW k \in Others(h), ReceiveName(h, k)
      PROVE  NamesTypeOK'
  <2>1. k \in Host /\ queue[h][k] \in Seq(Events) /\ queue[h][k] # <<>>
    BY <1>6 DEF ReceiveName, NamesTypeOK, Others
  <2>2. Head(queue[h][k]) \in Events /\ Tail(queue[h][k]) \in Seq(Events)
    BY <2>1
  <2>3. ApplyEvent(table[h], Head(queue[h][k])) \in Tables
    BY <2>2, EventKeepsTable DEF NamesTypeOK
  <2>4. table' \in [Host -> Tables]
    BY <1>6, <2>3 DEF ReceiveName, NamesTypeOK
  <2>5. queue' \in [Host -> [Host -> Seq(Events)]]
    BY <1>6, <2>1, <2>2 DEF ReceiveName, NamesTypeOK
  <2>6. \A i, j \in Host : ~subscribed[i][j] => queue'[i][j] = <<>>
    BY <1>6, <2>1 DEF ReceiveName, NamesTypeOK
  <2>7. QED
    BY <1>6, <2>4, <2>5, <2>6 DEF ReceiveName, NamesTypeOK
<1>7. ASSUME NEW h \in Host, NEW k \in Others(h), LinkConnects(h, k) \/ Subscribe(h, k)
      PROVE  NamesTypeOK'
  <2>1. k \in Host
    BY DEF Others
  <2>2. CASE LinkConnects(h, k)
    BY <2>1, <2>2 DEF LinkConnects, NamesTypeOK
  <2>3. CASE Subscribe(h, k)
    <3>1. /\ subscribed' \in [Host -> [Host -> BOOLEAN]]
          /\ \A i, j \in Host : subscribed'[i][j] = (subscribed[i][j] \/ (i = h /\ j = k))
      BY <2>1, <2>3 DEF Subscribe, NamesTypeOK
    <3>2. \A i, j \in Host : /\ link[i][j] = "down" => ~subscribed'[i][j]
                            /\ ~subscribed'[i][j] => queue[i][j] = <<>>
      BY <2>3, <3>1 DEF Subscribe, NamesTypeOK
    <3>3. QED
      BY <2>3, <3>1, <3>2 DEF Subscribe, NamesTypeOK
  <2>4. QED
    BY <1>7, <2>2, <2>3
<1>8. ASSUME NEW h \in Host, NEW k \in Others(h), AnswerSnapshot(h, k)
      PROVE  NamesTypeOK'
  <2>1. k \in Host /\ table[k] \in Tables
    BY DEF NamesTypeOK, Others
  <2>2. snap' \in [Host -> [Host -> Tables]]
    BY <1>8, <2>1 DEF AnswerSnapshot, NamesTypeOK
  <2>3. torn' \subseteq Name
    BY <1>8 DEF AnswerSnapshot, NamesTypeOK, Outdated
  <2>4. QED
    BY <1>8, <2>2, <2>3 DEF AnswerSnapshot, NamesTypeOK
<1>9. ASSUME NEW h \in Host, NEW k \in Others(h), FetchApplies(h, k)
      PROVE  NamesTypeOK'
  <2>1. k \in Host /\ snap[h][k] \in Tables /\ table[h] \in Tables
    BY DEF NamesTypeOK, Others
  <2>2. ApplySnapshot(table[h], snap[h][k]) \in Tables
    BY <2>1, SnapshotKeepsTable
  <2>3. table' \in [Host -> Tables]
    BY <1>9, <2>2 DEF FetchApplies, NamesTypeOK
  <2>4. snap' \in [Host -> [Host -> Tables]]
    BY <1>9, <2>1, EmptyTable DEF FetchApplies, NamesTypeOK
  <2>5. QED
    BY <1>9, <2>3, <2>4 DEF FetchApplies, NamesTypeOK
<1>10. ASSUME NEW h \in Host, NEW k \in Others(h), LinkDrops(h, k)
      PROVE  NamesTypeOK'
  <2>1. k \in Host /\ queue[h][k] \in Seq(Events)
    BY DEF NamesTypeOK, Others
  <2>2. {queue[h][k][i] : i \in DOMAIN queue[h][k]} \in SUBSET Events
    BY <2>1
  <2>3. torn' \subseteq Name
    BY <1>10, <2>2, MissedAreNames DEF LinkDrops, NamesTypeOK
  <2>4. snap' \in [Host -> [Host -> Tables]]
    BY <1>10, <2>1, EmptyTable DEF LinkDrops, NamesTypeOK
  <2>5. queue' \in [Host -> [Host -> Seq(Events)]]
    BY <1>10, <2>1 DEF LinkDrops, NamesTypeOK
  <2>6. /\ subscribed' \in [Host -> [Host -> BOOLEAN]]
        /\ \A i, j \in Host : /\ link'[i][j] = "down" => ~subscribed'[i][j]
                             /\ ~subscribed'[i][j] => queue'[i][j] = <<>>
    BY <1>10, <2>1 DEF LinkDrops, NamesTypeOK
  <2>7. QED
    BY <1>10, <2>3, <2>4, <2>5, <2>6 DEF LinkDrops, NamesTypeOK
<1>11. CASE UNCHANGED vars
  BY <1>11 DEF vars, NamesTypeOK
<1>12. QED
  BY <1>2, <1>3, <1>4, <1>5, <1>6, <1>7, <1>8, <1>9, <1>10, <1>11 DEF Next

\* The tables kept by the databases are well formed.
LEMMA TypeInit == Init => NamesTypeOK
<1> SUFFICES ASSUME Init PROVE NamesTypeOK
  OBVIOUS
<1>1. PICK t \in [Name -> {NoEntry} \cup {Entry(p, "registry") : p \in Pair}] :
        table = [h \in Host |-> t]
  BY DEF Init
<1>2. \A n \in Name : t[n] \in Rows(n)
  BY <1>1 DEF Rows, Assigned
<1>3. t \in Tables
  BY <1>1, <1>2, TableFromRows
<1>4. table \in [Host -> Tables]
  BY <1>1, <1>3
<1>5. snap \in [Host -> [Host -> Tables]]
  BY EmptyTable DEF Init
<1>6. req \in [Request -> Works]
  BY DEF Init, Works, Resolvings
<1>7. queue \in [Host -> [Host -> Seq(Events)]]
  BY DEF Init
<1>8. QED
  BY <1>4, <1>5, <1>6, <1>7 DEF Init, NamesTypeOK

\* Rows marked derived hold the derived address on every host, for any
\* number of hosts, names, links and handlers, through replication, drops
\* and snapshots (store.py, Store.set and Store.resolve).
THEOREM NamesTyped == Spec => []NamesTypeOK
<1>1. QED
  BY TypeInit, TypeStep, PTL DEF Spec

\* name_for inverts resolve on every host at all times (store.py,
\* Store.name_for).
THEOREM NameForIsInverse == Spec => []NameForInvertsResolve
<1>1. NamesTypeOK => NameForInvertsResolve
  BY NameForOnTable DEF NamesTypeOK, NameForInvertsResolve
<1>2. QED
  BY <1>1, NamesTyped, PTL

(***************************************************************************)
(* Replication.  NamesAgree speaks of the moment when nothing is on its    *)
(* way; what holds all along is that some host leads: what every handler,  *)
(* queue and snapshot has to say about the name is what that host's table  *)
(* says, except in the queues of the leader itself, where older values may *)
(* come first; and every other host either has been told, or will be, or   *)
(* has no row and a snapshot of the leader still to come.                  *)
(***************************************************************************)
Silent(n, s) == \A i \in DOMAIN s : s[i].name # n
Says(n, s, v) == \A i \in DOMAIN s : s[i].name = n => s[i].pair = v
EndsWith(n, s, v) ==
    \E i \in DOMAIN s :
        /\ s[i].name = n /\ s[i].pair = v
        /\ \A m \in DOMAIN s : s[m].name = n => m <= i

ValueAt(w, n) == table[w][n].pair
Publishes(q, n) == req[q].pc = "publish" /\ req[q].ev.name = n

\* Nothing is left to publish or to read, and host j has w's value or waits
\* for w's snapshot.
CaughtUp(n, w, j) ==
    /\ Silent(n, queue[j][w])
    /\ \/ ValueAt(j, n) = ValueAt(w, n)
       \/ /\ ValueAt(j, n) = NoPair /\ ValueAt(w, n) # NoPair
          /\ link[j][w] # "up"
          /\ link[j][w] = "answered" => snap[j][w][n].pair = ValueAt(w, n)

Arrives(n, w, j) ==
    \/ \E q \in Request : HostOf[q] = w /\ Publishes(q, n)
    \/ EndsWith(n, queue[j][w], ValueAt(w, n))
    \/ CaughtUp(n, w, j)

Leads(n, w) ==
    /\ \A q \in Request : Publishes(q, n) => req[q].ev.pair = ValueAt(w, n)
    /\ \A j \in Host : \A k \in Others(j) :
        /\ link[j][k] = "answered" /\ snap[j][k][n] # NoEntry
             => snap[j][k][n].pair = ValueAt(w, n)
        /\ k # w => Says(n, queue[j][k], ValueAt(w, n))
    /\ \A j \in Others(w) : Arrives(n, w, j)

Led == \A n \in Name \ torn : \E w \in Host : Leads(n, w)

\* An event at the end of a queue has the last word on its name and leaves
\* the others alone.
LEMMA AppendedEvent ==
    ASSUME NEW s \in Seq(Events), NEW e \in Events, NEW n, NEW v
    PROVE  /\ e.name = n => EndsWith(n, Append(s, e), e.pair)
           /\ e.name # n /\ EndsWith(n, s, v) => EndsWith(n, Append(s, e), v)
           /\ e.name # n /\ Silent(n, s) => Silent(n, Append(s, e))
           /\ (e.name = n => e.pair = v) /\ Says(n, s, v) => Says(n, Append(s, e), v)
<1> DEFINE a == Append(s, e)
<1>1. /\ DOMAIN s = 1 .. Len(s) /\ Len(s) \in Nat
      /\ DOMAIN a = 1 .. Len(s) + 1 /\ a[Len(s) + 1] = e
      /\ \A i \in 1 .. Len(s) : a[i] = s[i]
  OBVIOUS
<1> HIDE DEF a
<1>2. e.name = n => EndsWith(n, a, e.pair)
  BY <1>1 DEF EndsWith
<1>3. e.name # n /\ EndsWith(n, s, v) => EndsWith(n, a, v)
  BY <1>1 DEF EndsWith
<1>4. e.name # n /\ Silent(n, s) => Silent(n, a)
  BY <1>1 DEF Silent
<1>5. (e.name = n => e.pair = v) /\ Says(n, s, v) => Says(n, a, v)
  BY <1>1 DEF Says
<1> QED
  BY <1>2, <1>3, <1>4, <1>5 DEF a

\* What is left of a queue whose first event has been read.
LEMMA ReadEvent ==
    ASSUME NEW s \in Seq(Events), s # <<>>, NEW n, NEW v
    PROVE  /\ Says(n, s, v) => Says(n, Tail(s), v)
           /\ Says(n, s, v) /\ Head(s).name = n => Head(s).pair = v
           /\ EndsWith(n, s, v) =>
                \/ EndsWith(n, Tail(s), v)
                \/ Head(s).name = n /\ Head(s).pair = v /\ Silent(n, Tail(s))
<1> DEFINE t == Tail(s)
<1>1. /\ DOMAIN s = 1 .. Len(s) /\ Len(s) \in Nat /\ Len(s) >= 1 /\ Head(s) = s[1]
      /\ DOMAIN t = 1 .. Len(s) - 1
      /\ \A i \in 1 .. Len(s) - 1 : t[i] = s[i + 1]
  OBVIOUS
<1> HIDE DEF t
<1>2. Says(n, s, v) => Says(n, t, v) /\ (Head(s).name = n => Head(s).pair = v)
  BY <1>1 DEF Says
<1>3. ASSUME EndsWith(n, s, v)
      PROVE  \/ EndsWith(n, t, v)
             \/ Head(s).name = n /\ Head(s).pair = v /\ Silent(n, t)
  <2>1. PICK i \in 1 .. Len(s) : /\ s[i].name = n /\ s[i].pair = v
                                 /\ \A m \in 1 .. Len(s) : s[m].name = n => m <= i
    BY <1>1, <1>3 DEF EndsWith
  <2>2. CASE i = 1
    BY <1>1, <2>1, <2>2 DEF Silent
  <2>3. CASE i # 1
    <3>1. i - 1 \in DOMAIN t /\ t[i - 1] = s[i]
      BY <1>1, <2>3
    <3>2. \A m \in DOMAIN t : t[m].name = n => m <= i - 1
      BY <1>1, <2>1
    <3> QED
      BY <2>1, <3>1, <3>2 DEF EndsWith
  <2> QED
    BY <2>2, <2>3
<1> QED
  BY <1>2, <1>3 DEF t

\* Reading a queue that is silent on a name leaves it so.
LEMMA ReadSilent ==
    ASSUME NEW s \in Seq(Events), s # <<>>, NEW n, Silent(n, s)
    PROVE  Head(s).name # n /\ Silent(n, Tail(s))
  BY DEF Silent

\* A row without a link is no row.
LEMMA NoPairIsNoEntry ==
    ASSUME NEW t \in Tables, NEW n \in Name
    PROVE  t[n].pair = NoPair <=> t[n] = NoEntry
  BY PairOfRow, AssignedIsNotNoPair DEF NoEntry, Entry

\* A write in turn makes its host the leader, whatever was before.
LEMMA WriteTakesLead ==
    ASSUME NamesTypeOK, NEW r \in Request, NEW n \in Name, NEW t \in Tables, NEW then,
           Write(r, n, t, then), n \notin torn'
    PROVE  Leads(n, HostOf[r])'
<1> DEFINE h == HostOf[r]
           v == t[n].pair
<1>1. h \in Host /\ h' = h
  BY RequestsHaveHosts
<1>2. InTurn(r, n, v)
  BY DEF Write
<1>3. ValueAt(h, n)' = v
  BY <1>1 DEF ValueAt, Write, NamesTypeOK
<1>4. req'[r] = Publishing(Event(n, v), then) /\ \A q \in Request \ {r} : req'[q] = req[q]
  BY DEF Write, NamesTypeOK
<1>5. Publishes(r, n)' /\ req'[r].ev.pair = v
  BY <1>4 DEF Publishes, Publishing, Event
<1>6. ASSUME NEW q \in Request, Publishes(q, n)'
      PROVE  req'[q].ev.pair = v
  BY <1>2, <1>4, <1>5, <1>6 DEF Publishes, InTurn, Pending
<1>7. link' = link /\ snap' = snap /\ queue' = queue
  BY DEF Write, linkVars
<1>8. ASSUME NEW j \in Host, NEW k \in Others(j)
      PROVE  /\ link[j][k] = "answered" /\ snap[j][k][n] # NoEntry => snap[j][k][n].pair = v
             /\ k # h => Says(n, queue[j][k], v)
  <2>1. <<j, k>> \in Links /\ <<j, k>>[1] = j /\ <<j, k>>[2] = k
    BY DEF Links, Others
  <2>2. Fetched(n, j, k) \subseteq {v} /\ (k # h => Queued(n, j, k) \subseteq {v})
    BY <1>2, <2>1 DEF InTurn
  <2>3. link[j][k] = "answered" /\ snap[j][k][n] # NoEntry => snap[j][k][n].pair = v
    BY <2>2 DEF Fetched
  <2>4. ASSUME k # h, NEW i \in DOMAIN queue[j][k], queue[j][k][i].name = n
        PROVE  queue[j][k][i].pair = v
    <3>1. queue[j][k][i].pair \in Queued(n, j, k)
      BY <2>4 DEF Queued
    <3> QED
      BY <2>2, <2>4, <3>1
  <2> QED
    BY <2>3, <2>4 DEF Says
<1>9. \A j \in Others(h) : Arrives(n, h, j)'
  BY <1>1, <1>5 DEF Arrives
<1> HIDE DEF h, v
<1>10. Leads(n, h)'
  BY <1>1, <1>3, <1>6, <1>7, <1>8, <1>9 DEF Leads
<1> QED
  BY <1>1, <1>10 DEF h

\* A write of another name changes nothing about this one.
LEMMA OtherWriteKeepsLead ==
    ASSUME NamesTypeOK, NEW r \in Request, NEW m, NEW t \in Tables, NEW then,
           Write(r, m, t, then), req[r].pc # "publish",
           NEW n \in Name, n # m, t[n] = table[HostOf[r]][n],
           NEW w \in Host, Leads(n, w)
    PROVE  Leads(n, w)'
<1>1. \A h \in Host : table'[h][n] = table[h][n]
  BY RequestsHaveHosts DEF Write, NamesTypeOK
<1>2. \A h \in Host : ValueAt(h, n)' = ValueAt(h, n)
  BY <1>1 DEF ValueAt
<1>3. req'[r] = Publishing(Event(m, t[m].pair), then) /\ \A q \in Request \ {r} : req'[q] = req[q]
  BY DEF Write, NamesTypeOK
<1>4. ~Publishes(r, n) /\ ~Publishes(r, n)'
  BY <1>3 DEF Publishes, Publishing, Event
<1>5. \A q \in Request : /\ Publishes(q, n)' <=> Publishes(q, n)
                         /\ Publishes(q, n) => req'[q].ev = req[q].ev
  BY <1>3, <1>4 DEF Publishes
<1>6. link' = link /\ snap' = snap /\ queue' = queue
  BY DEF Write, linkVars
<1>7. ASSUME NEW j \in Others(w), Arrives(n, w, j) PROVE Arrives(n, w, j)'
  BY <1>2, <1>5, <1>6, <1>7 DEF Arrives, CaughtUp, Others
<1> QED
  BY <1>2, <1>5, <1>6, <1>7 DEF Leads

\* What a handler's write does to another name than its own.
LEMMA OtherRow ==
    ASSUME NEW t \in Tables, NEW m \in Name, NEW n \in Name, n # m, NEW p
    PROVE  Set(t, m, p)[n] = t[n] /\ Clear(t, m)[n] = t[n] /\ Resolve(t, m)[n] = t[n]
  BY DEF Set, Clear, Resolve, Tables

\* A handler's step leaves every name that is not torn with a leader.
LEMMA WriteKeepsLed ==
    ASSUME NamesTypeOK, Led, NEW r \in Request, NEW m \in Name, NEW t \in Tables, NEW then,
           Write(r, m, t, then), req[r].pc # "publish",
           \A n \in Name \ {m} : t[n] = table[HostOf[r]][n]
    PROVE  Led'
<1> SUFFICES ASSUME NEW n \in Name \ torn' PROVE \E w \in Host : Leads(n, w)'
  BY DEF Led
<1>1. CASE n = m
  BY <1>1, WriteTakesLead, RequestsHaveHosts
<1>2. CASE n # m
  <2>1. n \notin torn
    BY <1>2 DEF Write
  <2>2. PICK w \in Host : Leads(n, w)
    BY <2>1 DEF Led
  <2> QED
    BY <1>2, <2>2, OtherWriteKeepsLead
<1> QED
  BY <1>1, <1>2

\* Publishing tells every host that has subscribed; one that has not has the
\* value already, or no row and a snapshot to come, unless the name is torn.
LEMMA PublishKeepsLead ==
    ASSUME NamesTypeOK, NEW r \in Request, PublishName(r),
           NEW n \in Name, n \notin torn', NEW w \in Host, Leads(n, w)
    PROVE  Leads(n, w)'
<1> DEFINE h == HostOf[r]
           e == req[r].ev
           v == ValueAt(w, n)
<1>1. h \in Host /\ e \in Events /\ req[r].then \in Resolvings /\ req[r].pc = "publish"
  BY RequestsHaveHosts, PublishingIsTyped DEF PublishName
<1>2. e.name = n => e.pair = v
  BY <1>1 DEF Leads, Publishes
<1>3. table' = table /\ link' = link /\ subscribed' = subscribed /\ snap' = snap
  BY DEF PublishName
<1>4. \A j \in Host : ValueAt(j, n)' = ValueAt(j, n)
  BY <1>3 DEF ValueAt
<1>5. req'[r] = req[r].then /\ \A q \in Request \ {r} : req'[q] = req[q]
  BY DEF PublishName, NamesTypeOK
<1>6. ~Publishes(r, n)'
  BY <1>1, <1>5 DEF Publishes, Resolvings, Idle, Resolving
<1>7. ASSUME NEW j \in Host, NEW k \in Others(j)
      PROVE  queue'[j][k] = IF k = h /\ subscribed[j][h]
                              THEN Append(queue[j][h], e) ELSE queue[j][k]
  BY <1>1, <1>7 DEF PublishName, NamesTypeOK, Others
<1>8. ASSUME NEW j \in Others(h), ~subscribed[j][h], e.name = n
      PROVE  /\ v # NoPair /\ ValueAt(j, n) \in {NoPair, v}
             /\ Awaited(j, h, e) \/ ValueAt(j, n) = v
  <2>1. n \notin Unheard(j, h, e)
    BY <1>8 DEF PublishName
  <2> QED
    BY <1>2, <1>8, <2>1 DEF Unheard, Missed, ValueAt
<1>9. ASSUME NEW j \in Host, NEW k \in Others(j), k # w
      PROVE  Says(n, queue'[j][k], v)
  <2>1. Says(n, queue[j][k], v) /\ queue[j][k] \in Seq(Events)
    BY <1>9 DEF Leads, NamesTypeOK, Others
  <2> QED
    BY <1>1, <1>2, <1>7, <2>1, AppendedEvent
<1>10. ASSUME NEW j \in Others(w) PROVE Arrives(n, w, j)'
  <2>1. j \in Host /\ w \in Others(j) /\ queue[j][w] \in Seq(Events) /\ Arrives(n, w, j)
    BY DEF Others, Leads, NamesTypeOK
  <2>2. CASE h = w /\ e.name = n /\ subscribed[j][w]
    <3>1. EndsWith(n, queue'[j][w], v)
      BY <1>1, <1>2, <1>7, <2>1, <2>2, AppendedEvent
    <3> QED
      BY <1>4, <3>1 DEF Arrives
  <2>3. CASE h = w /\ e.name = n /\ ~subscribed[j][w]
    <3>1. queue'[j][w] = <<>>
      BY <1>7, <2>1, <2>3 DEF NamesTypeOK
    <3>2. Silent(n, queue'[j][w])
      BY <3>1 DEF Silent
    <3>3. /\ v # NoPair /\ ValueAt(j, n) \in {NoPair, v}
          /\ ValueAt(j, n) = v \/ Awaited(j, w, e)
      BY <1>8, <2>3
    <3>4. Awaited(j, w, e) => /\ link[j][w] # "up"
                              /\ link[j][w] = "answered" => snap[j][w][n].pair = v
      BY <1>2, <2>3 DEF Awaited
    <3> QED
      BY <1>3, <1>4, <2>1, <3>2, <3>3, <3>4 DEF Arrives, CaughtUp
  <2>4. CASE h # w \/ e.name # n
    <3>1. ASSUME NEW q \in Request, HostOf[q] = w, Publishes(q, n)
          PROVE  Publishes(q, n)'
      BY <1>5, <2>4, <3>1 DEF Publishes
    <3>2. EndsWith(n, queue[j][w], v) => EndsWith(n, queue'[j][w], v)
      BY <1>1, <1>7, <2>1, <2>4, AppendedEvent
    <3>3. Silent(n, queue[j][w]) => Silent(n, queue'[j][w])
      BY <1>1, <1>7, <2>1, <2>4, AppendedEvent
    <3>4. CaughtUp(n, w, j) => CaughtUp(n, w, j)'
      BY <1>3, <1>4, <2>1, <3>3 DEF CaughtUp
    <3> QED
      BY <1>4, <2>1, <3>1, <3>2, <3>4 DEF Arrives
  <2> QED
    BY <2>2, <2>3, <2>4
<1>11. \A q \in Request : Publishes(q, n)' => req'[q].ev.pair = v
  BY <1>5, <1>6 DEF Publishes, Leads
<1>12. \A j \in Host : \A k \in Others(j) :
         link[j][k] = "answered" /\ snap[j][k][n] # NoEntry => snap[j][k][n].pair = v
  BY DEF Leads
<1>13. v' = v
  BY <1>4
<1> HIDE DEF v
<1> QED
  BY <1>3, <1>9, <1>10, <1>11, <1>12, <1>13 DEF Leads, v

\* Reading an event brings a host to the leader's value, or leaves a later
\* event to do so.
LEMMA ReceiveKeepsLead ==
    ASSUME NamesTypeOK, NEW h \in Host, NEW k \in Others(h), ReceiveName(h, k),
           NEW n \in Name, NEW w \in Host, Leads(n, w)
    PROVE  Leads(n, w)'
<1> DEFINE e == Head(queue[h][k])
           v == ValueAt(w, n)
<1>1. k \in Host /\ queue[h][k] \in Seq(Events) /\ queue[h][k] # <<>> /\ e \in Events
  BY DEF ReceiveName, NamesTypeOK, Others
<1>2. req' = req /\ link' = link /\ snap' = snap
  BY DEF ReceiveName
<1>3. ASSUME NEW i \in Host, NEW j \in Host
      PROVE  queue'[i][j] = IF i = h /\ j = k THEN Tail(queue[h][k]) ELSE queue[i][j]
  BY <1>1 DEF ReceiveName, NamesTypeOK
<1>4. ASSUME NEW j \in Host
      PROVE  ValueAt(j, n)' = IF j = h /\ e.name = n THEN e.pair ELSE ValueAt(j, n)
  <2>1. table[h] \in Tables /\ e.name \in Name
    BY <1>1 DEF NamesTypeOK, Events
  <2>2. ApplyEvent(table[h], e)[n].pair = IF e.name = n THEN e.pair ELSE table[h][n].pair
    BY <2>1 DEF ApplyEvent, Set, Clear, Tables, Entry, NoEntry
  <2>3. table'[j] = IF j = h THEN ApplyEvent(table[h], e) ELSE table[j]
    BY DEF ReceiveName, NamesTypeOK
  <2> QED
    BY <2>2, <2>3 DEF ValueAt
<1>5. k # w /\ e.name = n => e.pair = v
  BY <1>1, ReadEvent DEF Leads
<1>6. v' = v
  BY <1>4, <1>5 DEF Others
<1>7. ASSUME NEW i \in Host, NEW j \in Others(i), j # w
      PROVE  Says(n, queue'[i][j], v)
  <2>1. Says(n, queue[i][j], v) /\ j \in Host
    BY <1>7 DEF Leads, Others
  <2> QED
    BY <1>1, <1>3, <2>1, ReadEvent
<1>8. ASSUME NEW j \in Others(w) PROVE Arrives(n, w, j)'
  <2>1. j \in Host /\ j # w /\ Arrives(n, w, j)
    BY DEF Others, Leads
  <2>2. (\E q \in Request : HostOf[q] = w /\ Publishes(q, n)) => Arrives(n, w, j)'
    BY <1>2 DEF Arrives, Publishes
  <2>3. CASE ~(j = h /\ k = w)
    <3>1. queue'[j][w] = queue[j][w]
      BY <1>3, <2>1, <2>3
    <3>2. ValueAt(j, n)' = ValueAt(j, n) \/ ValueAt(j, n)' = v
      BY <1>4, <1>5, <2>1, <2>3
    <3>3. EndsWith(n, queue[j][w], v) => Arrives(n, w, j)'
      BY <1>6, <3>1 DEF Arrives
    <3>4. CaughtUp(n, w, j) => CaughtUp(n, w, j)'
      BY <1>2, <1>6, <3>1, <3>2 DEF CaughtUp
    <3> QED
      BY <2>1, <2>2, <3>3, <3>4 DEF Arrives
  <2>4. CASE j = h /\ k = w
    <3>1. queue'[j][w] = Tail(queue[j][w]) /\ queue[j][w] = queue[h][k]
      BY <1>3, <2>1, <2>4
    <3>2. CASE EndsWith(n, queue[j][w], v)
      <4>1. CASE EndsWith(n, queue'[j][w], v)
        BY <1>6, <4>1 DEF Arrives
      <4>2. CASE ~EndsWith(n, queue'[j][w], v)
        <5>1. e.name = n /\ e.pair = v /\ Silent(n, queue'[j][w])
          BY <1>1, <3>1, <3>2, <4>2, ReadEvent
        <5> QED
          BY <1>4, <1>6, <2>1, <2>4, <5>1 DEF Arrives, CaughtUp
      <4> QED
        BY <4>1, <4>2
    <3>3. CASE CaughtUp(n, w, j)
      <4>1. Silent(n, queue[h][k])
        BY <3>1, <3>3 DEF CaughtUp
      <4>2. e.name # n /\ Silent(n, queue'[j][w])
        BY <1>1, <3>1, <4>1, ReadSilent
      <4> QED
        BY <1>2, <1>4, <1>6, <2>1, <3>3, <4>2 DEF Arrives, CaughtUp
    <3> QED
      BY <2>1, <2>2, <3>2, <3>3 DEF Arrives
  <2> QED
    BY <2>3, <2>4
<1> HIDE DEF v
<1> QED
  BY <1>2, <1>6, <1>7, <1>8 DEF Leads, Publishes, v

\* A link that asks for a snapshot has none applied yet.
LEMMA ConnectKeepsLead ==
    ASSUME NamesTypeOK, NEW h \in Host, NEW k \in Others(h), LinkConnects(h, k),
           NEW n \in Name, NEW w \in Host, Leads(n, w)
    PROVE  Leads(n, w)'
<1>1. table' = table /\ req' = req /\ queue' = queue /\ snap' = snap
  BY DEF LinkConnects
<1>2. \A i, j \in Host : link'[i][j] = link[i][j] \/ link'[i][j] = "asking"
  BY DEF LinkConnects, NamesTypeOK, Others
<1>3. \A j \in Host : ValueAt(j, n)' = ValueAt(j, n)
  BY <1>1 DEF ValueAt
<1>4. ASSUME NEW j \in Others(w) PROVE Arrives(n, w, j)'
  <2>1. j \in Host /\ Arrives(n, w, j)
    BY DEF Others, Leads
  <2>2. CaughtUp(n, w, j) => CaughtUp(n, w, j)'
    BY <1>1, <1>2, <1>3, <2>1 DEF CaughtUp
  <2> QED
    BY <1>1, <1>3, <2>1, <2>2 DEF Arrives, Publishes
<1> QED
  BY <1>1, <1>2, <1>3, <1>4 DEF Leads, Publishes, Others

\* A subscription that takes effect changes what is published from then on.
LEMMA SubscribeKeepsLead ==
    ASSUME NEW h, NEW k, Subscribe(h, k), NEW n, NEW w, Leads(n, w)
    PROVE  Leads(n, w)'
  BY DEF Subscribe, Leads, Arrives, CaughtUp, Publishes, ValueAt

\* A host that answers with its row has the leader's value: one that is still
\* to hear otherwise makes the name torn.
LEMMA AnswerKeepsLead ==
    ASSUME NamesTypeOK, NEW h \in Host, NEW k \in Others(h), AnswerSnapshot(h, k),
           NEW n \in Name, n \notin torn', NEW w \in Host, Leads(n, w)
    PROVE  Leads(n, w)'
<1> DEFINE v == ValueAt(w, n)
<1>1. k \in Host /\ k # h /\ table[k] \in Tables
  BY DEF Others, NamesTypeOK
<1>2. table' = table /\ req' = req /\ queue' = queue
  BY DEF AnswerSnapshot
<1>3. \A i, j \in Host : /\ link'[i][j] = IF i = h /\ j = k THEN "answered" ELSE link[i][j]
                         /\ snap'[i][j] = IF i = h /\ j = k THEN table[k] ELSE snap[i][j]
  BY <1>1 DEF AnswerSnapshot, NamesTypeOK
<1>4. \A j \in Host : ValueAt(j, n)' = ValueAt(j, n)
  BY <1>2 DEF ValueAt
<1>5. ASSUME table[k][n] # NoEntry PROVE ValueAt(k, n) = v
  <2>1. CASE k = w
    BY <2>1
  <2>2. CASE k # w
    <3>1. n \notin Outdated(h, k)
      BY DEF AnswerSnapshot
    <3>2. /\ \A j \in Others(k) : Queued(n, k, j) \subseteq {ValueAt(k, n)}
          /\ \A q \in Request : HostOf[q] # k => Pending(n, q) \subseteq {ValueAt(k, n)}
      BY <1>5, <3>1 DEF Outdated, ValueAt
    <3>3. k \in Others(w) /\ w \in Others(k)
      BY <1>1, <2>2 DEF Others
    <3>4. Arrives(n, w, k)
      BY <3>3 DEF Leads
    <3>5. ASSUME NEW q \in Request, HostOf[q] = w, Publishes(q, n)
          PROVE  ValueAt(k, n) = v
      <4>1. req[q].ev.pair = v
        BY <3>5 DEF Leads
      <4>2. Pending(n, q) = {v}
        BY <3>5, <4>1 DEF Pending, Publishes
      <4> QED
        BY <2>2, <3>2, <3>5, <4>2
    <3>6. ASSUME EndsWith(n, queue[k][w], v)
          PROVE  ValueAt(k, n) = v
      <4>1. v \in Queued(n, k, w)
        BY <3>6 DEF EndsWith, Queued
      <4> QED
        BY <3>2, <3>3, <4>1
    <3>7. ASSUME CaughtUp(n, w, k)
          PROVE  ValueAt(k, n) = v
      BY <1>1, <1>5, <3>7, NoPairIsNoEntry DEF CaughtUp, ValueAt
    <3> QED
      BY <3>4, <3>5, <3>6, <3>7 DEF Arrives
  <2> QED
    BY <2>1, <2>2
<1>6. ASSUME NEW i \in Host, NEW j \in Others(i),
             link'[i][j] = "answered", snap'[i][j][n] # NoEntry
      PROVE  snap'[i][j][n].pair = v
  BY <1>3, <1>5, <1>6 DEF Leads, ValueAt, Others
<1>7. ASSUME NEW j \in Others(w) PROVE Arrives(n, w, j)'
  <2>1. j \in Host /\ Arrives(n, w, j)
    BY DEF Others, Leads
  <2>2. CaughtUp(n, w, j) => CaughtUp(n, w, j)'
    BY <1>2, <1>3, <1>4, <2>1 DEF CaughtUp, ValueAt
  <2> QED
    BY <1>2, <1>4, <2>1, <2>2 DEF Arrives, Publishes
<1> QED
  BY <1>2, <1>4, <1>6, <1>7 DEF Leads, Publishes

\* A snapshot brings the leader's value or nothing.
LEMMA FetchKeepsLead ==
    ASSUME NamesTypeOK, NEW h \in Host, NEW k \in Others(h), FetchApplies(h, k),
           NEW n \in Name, NEW w \in Host, Leads(n, w)
    PROVE  Leads(n, w)'
<1> DEFINE v == ValueAt(w, n)
<1>1. k \in Host /\ k # h /\ snap[h][k] \in Tables /\ link[h][k] = "answered"
  BY DEF Others, NamesTypeOK, FetchApplies
<1>2. req' = req /\ queue' = queue
  BY DEF FetchApplies
<1>3. \A i, j \in Host :
        /\ link'[i][j] = IF i = h /\ j = k THEN "up" ELSE link[i][j]
        /\ ~(i = h /\ j = k) => snap'[i][j] = snap[i][j]
  BY <1>1 DEF FetchApplies, NamesTypeOK
<1>4. \A j \in Host : ValueAt(j, n)' =
        IF j = h /\ snap[h][k][n] # NoEntry THEN snap[h][k][n].pair ELSE ValueAt(j, n)
  BY DEF FetchApplies, NamesTypeOK, ApplySnapshot, ValueAt, Entry
<1>5. snap[h][k][n] # NoEntry => snap[h][k][n].pair = v
  BY <1>1 DEF Leads
<1>6. v' = v
  BY <1>4, <1>5
<1>7. ASSUME NEW j \in Others(w) PROVE Arrives(n, w, j)'
  <2>1. j \in Host /\ Arrives(n, w, j)
    BY DEF Others, Leads
  <2>2. CASE CaughtUp(n, w, j)
    <3>1. CASE ValueAt(j, n) = v
      BY <1>2, <1>4, <1>5, <1>6, <2>1, <2>2, <3>1 DEF Arrives, CaughtUp
    <3>2. CASE ValueAt(j, n) # v /\ j = h /\ k = w
      <4>1. snap[h][k][n].pair = v /\ v # NoPair
        BY <1>1, <2>2, <3>2 DEF CaughtUp
      <4>2. snap[h][k][n] # NoEntry
        BY <1>1, <4>1, NoPairIsNoEntry
      <4> QED
        BY <1>2, <1>4, <1>6, <2>1, <2>2, <3>2, <4>1, <4>2 DEF Arrives, CaughtUp
    <3>3. CASE ValueAt(j, n) # v /\ ~(j = h /\ k = w)
      <4>1. ValueAt(j, n)' = ValueAt(j, n) \/ ValueAt(j, n)' = v
        BY <1>4, <1>5, <2>1
      <4> QED
        BY <1>2, <1>3, <1>6, <2>1, <2>2, <3>3, <4>1 DEF Arrives, CaughtUp
    <3> QED
      BY <3>1, <3>2, <3>3
  <2> QED
    BY <1>2, <1>6, <2>1, <2>2 DEF Arrives, Publishes
<1>8. ASSUME NEW i \in Host, NEW j \in Others(i),
             link'[i][j] = "answered", snap'[i][j][n] # NoEntry
      PROVE  snap'[i][j][n].pair = v
  BY <1>3, <1>8 DEF Leads, Others
<1> QED
  BY <1>2, <1>6, <1>7, <1>8 DEF Leads, Publishes

\* What a dropped link loses, the next snapshot brings, unless the name is
\* torn.
LEMMA DropKeepsLead ==
    ASSUME NamesTypeOK, NEW h \in Host, NEW k \in Others(h), LinkDrops(h, k),
           NEW n \in Name, n \notin torn', NEW w \in Host, Leads(n, w)
    PROVE  Leads(n, w)'
<1> DEFINE v == ValueAt(w, n)
<1>1. k \in Host /\ k # h
  BY DEF Others
<1>2. table' = table /\ req' = req
  BY DEF LinkDrops
<1>3. \A i, j \in Host :
        /\ link'[i][j] = IF i = h /\ j = k THEN "down" ELSE link[i][j]
        /\ queue'[i][j] = IF i = h /\ j = k THEN <<>> ELSE queue[i][j]
        /\ ~(i = h /\ j = k) => snap'[i][j] = snap[i][j]
  BY <1>1 DEF LinkDrops, NamesTypeOK
<1>4. \A j \in Host : ValueAt(j, n)' = ValueAt(j, n)
  BY <1>2 DEF ValueAt
<1>5. Silent(n, <<>>) /\ Says(n, <<>>, v)
  BY DEF Silent, Says
<1>6. ASSUME NEW i \in DOMAIN queue[h][k], queue[h][k][i].name = n
      PROVE  /\ queue[h][k][i].pair # NoPair
             /\ ValueAt(h, n) \in {NoPair, queue[h][k][i].pair}
  <2> DEFINE lost == {queue[h][k][j] : j \in DOMAIN queue[h][k]}
  <2>1. n \notin Missed(h, lost)
    BY DEF LinkDrops
  <2>2. queue[h][k][i] \in lost
    OBVIOUS
  <2> HIDE DEF lost
  <2> QED
    BY <1>6, <2>1, <2>2 DEF Missed, ValueAt
<1>7. ASSUME NEW j \in Others(w) PROVE Arrives(n, w, j)'
  <2>1. j \in Host /\ j # w /\ Arrives(n, w, j)
    BY DEF Others, Leads
  <2>2. (\E q \in Request : HostOf[q] = w /\ Publishes(q, n)) => Arrives(n, w, j)'
    BY <1>2 DEF Arrives, Publishes
  <2>3. CASE ~(j = h /\ k = w)
    <3>1. /\ queue'[j][w] = queue[j][w] /\ link'[j][w] = link[j][w]
          /\ snap'[j][w] = snap[j][w]
      BY <1>3, <2>1, <2>3
    <3>2. CaughtUp(n, w, j) => CaughtUp(n, w, j)'
      BY <1>4, <2>1, <3>1 DEF CaughtUp
    <3> QED
      BY <1>4, <2>1, <2>2, <3>1, <3>2 DEF Arrives
  <2>4. CASE j = h /\ k = w
    <3>1. queue'[j][w] = <<>> /\ link'[j][w] = "down"
      BY <1>3, <2>1, <2>4
    <3>2. EndsWith(n, queue[j][w], v) => v # NoPair /\ ValueAt(j, n) \in {NoPair, v}
      BY <1>6, <2>4 DEF EndsWith
    <3>3. EndsWith(n, queue[j][w], v) => CaughtUp(n, w, j)'
      BY <1>4, <1>5, <2>1, <3>1, <3>2 DEF CaughtUp
    <3>4. CaughtUp(n, w, j) => CaughtUp(n, w, j)'
      BY <1>4, <1>5, <2>1, <3>1 DEF CaughtUp
    <3> QED
      BY <2>1, <2>2, <3>3, <3>4 DEF Arrives
  <2> QED
    BY <2>3, <2>4
<1>8. ASSUME NEW i \in Host, NEW j \in Others(i)
      PROVE  /\ link'[i][j] = "answered" /\ snap'[i][j][n] # NoEntry
                  => snap'[i][j][n].pair = v
             /\ j # w => Says(n, queue'[i][j], v)
  BY <1>3, <1>5 DEF Leads, Others
<1> QED
  BY <1>2, <1>4, <1>7, <1>8 DEF Leads, Publishes

\* Every step leaves every name that is not torn with a leader.
LEMMA LedStep ==
    ASSUME NamesTypeOK, Led, [Next]_vars
    PROVE  Led'
<1>0. ASSUME NEW r \in Request
      PROVE  Table(r) \in Tables /\ Table(r) = table[HostOf[r]] /\ HostOf[r] \in Host
  BY RequestsHaveHosts DEF NamesTypeOK, Table
<1>1. ASSUME NEW r \in Request, NEW n \in Name, NEW p \in Pair,
             OpNamesSet(r, n, p) \/ HandlePut(r, n, p)
      PROVE  Led'
  <2>1. Set(Table(r), n, p) \in Tables
    BY <1>0, StoreKeepsTable DEF Assigned
  <2>2. \A m \in Name \ {n} : Set(Table(r), n, p)[m] = Table(r)[m]
    BY <1>0, OtherRow
  <2>3. req[r].pc # "publish"
    BY <1>1 DEF OpNamesSet, HandlePut, Serve, Idle
  <2> QED
    BY <1>0, <1>1, <2>1, <2>2, <2>3, WriteKeepsLed DEF OpNamesSet, HandlePut
<1>2. ASSUME NEW r \in Request, NEW n \in Name,
             OpNamesClear(r, n) \/ HandleGet(r, n) \/ HandleDelete(r, n)
      PROVE  Led'
  <2>1. Clear(Table(r), n) \in Tables /\ Resolve(Table(r), n) \in Tables
    BY <1>0, StoreKeepsTable
  <2>2. \A m \in Name \ {n} : /\ Clear(Table(r), n)[m] = Table(r)[m]
                              /\ Resolve(Table(r), n)[m] = Table(r)[m]
    BY <1>0, OtherRow
  <2>3. req[r].pc # "publish"
    BY <1>2 DEF OpNamesClear, HandleGet, HandleDelete, Serve, Idle
  <2> QED
    BY <1>0, <1>2, <2>1, <2>2, <2>3, WriteKeepsLed DEF OpNamesClear, HandleGet, HandleDelete
<1>3. ASSUME NEW r \in Request, DeleteResolves(r) PROVE Led'
  <2>1. req[r].name \in Name /\ req[r].pc # "publish"
    BY <1>3, ResolvingIsTyped DEF DeleteResolves
  <2>2. Resolve(Table(r), req[r].name) \in Tables
    BY <1>0, <2>1, StoreKeepsTable
  <2>3. \A m \in Name \ {req[r].name} : Resolve(Table(r), req[r].name)[m] = Table(r)[m]
    BY <1>0, <2>1, OtherRow
  <2> QED
    BY <1>0, <1>3, <2>1, <2>2, <2>3, WriteKeepsLed DEF DeleteResolves
<1>4. ASSUME torn \subseteq torn',
             \A n \in Name \ torn' : \A w \in Host : Leads(n, w) => Leads(n, w)'
      PROVE  Led'
  BY <1>4 DEF Led
<1>5. ASSUME NEW r \in Request, PublishName(r) PROVE Led'
  BY <1>4, <1>5, PublishKeepsLead DEF PublishName
<1>6. ASSUME NEW h \in Host, NEW k \in Others(h), ReceiveName(h, k) PROVE Led'
  BY <1>4, <1>6, ReceiveKeepsLead DEF ReceiveName
<1>7. ASSUME NEW h \in Host, NEW k \in Others(h), LinkConnects(h, k) PROVE Led'
  BY <1>4, <1>7, ConnectKeepsLead DEF LinkConnects
<1>8. ASSUME NEW h \in Host, NEW k \in Others(h), AnswerSnapshot(h, k) PROVE Led'
  BY <1>4, <1>8, AnswerKeepsLead DEF AnswerSnapshot
<1>9. ASSUME NEW h \in Host, NEW k \in Others(h), FetchApplies(h, k) PROVE Led'
  BY <1>4, <1>9, FetchKeepsLead DEF FetchApplies
<1>10. ASSUME NEW h \in Host, NEW k \in Others(h), LinkDrops(h, k) PROVE Led'
  BY <1>4, <1>10, DropKeepsLead DEF LinkDrops
<1>11. ASSUME NEW h \in Host, NEW k \in Others(h), Subscribe(h, k) PROVE Led'
  BY <1>4, <1>11, SubscribeKeepsLead DEF Subscribe
<1>12. CASE UNCHANGED vars
  BY <1>12 DEF vars, Led, Leads, Arrives, CaughtUp, Publishes, ValueAt
<1> QED
  BY <1>1, <1>2, <1>3, <1>5, <1>6, <1>7, <1>8, <1>9, <1>10, <1>11, <1>12 DEF Next

\* At first every host has the same table, and any of them leads.
LEMMA LedInit ==
    ASSUME Init, Host # {}
    PROVE  Led
<1> SUFFICES ASSUME NEW n \in Name, NEW w \in Host PROVE Leads(n, w)
  BY DEF Led
<1>1. \A h, k \in Host : ValueAt(h, n) = ValueAt(k, n)
  BY DEF Init, ValueAt
<1>2. \A q \in Request : ~Publishes(q, n)
  BY DEF Init, Publishes, Idle
<1>3. \A j, k \in Host : queue[j][k] = <<>> /\ link[j][k] = "down"
  BY DEF Init
<1>4. \A j, k \in Host : Silent(n, queue[j][k]) /\ Says(n, queue[j][k], ValueAt(w, n))
  BY <1>3 DEF Silent, Says
<1> QED
  BY <1>1, <1>2, <1>3, <1>4 DEF Leads, Arrives, CaughtUp, Others

\* Replication agrees: for any number of hosts, handlers and names, through
\* drops, reconnections, subscriptions that take effect late and snapshots
\* that cross events, a name whose last write raced no other change, and did
\* not fall between a snapshot's answer and a late subscription, is the same
\* everywhere once nothing about it is on its way (peering.py, _apply_event
\* and _apply_snapshot_name).
THEOREM ReplicasAgree == Spec => []NamesAgree
<1>1. CASE Host = {}
  <2>1. NamesAgree
    BY <1>1 DEF NamesAgree
  <2> QED
    BY <2>1, PTL
<1>2. CASE Host # {}
  <2>1. NamesTypeOK /\ Led => NamesAgree
    <3> SUFFICES ASSUME NamesTypeOK, Led, AllUp, NEW n \in Name \ torn, NothingMoving(n),
                        NEW w \in Host, Leads(n, w), NEW j \in Host
                 PROVE  ValueAt(j, n) = ValueAt(w, n)
      BY DEF Led, NamesAgree, ValueAt
    <3>1. CASE j = w
      BY <3>1
    <3>2. CASE j # w
      <4>1. <<j, w>> \in Links /\ <<j, w>>[1] = j /\ <<j, w>>[2] = w /\ j \in Others(w)
        BY <3>2 DEF Links, Others
      <4>2. link[j][w] = "up" /\ Queued(n, j, w) = {}
        BY <4>1 DEF AllUp, NothingMoving
      <4>3. ~EndsWith(n, queue[j][w], ValueAt(w, n))
        BY <4>2 DEF EndsWith, Queued
      <4>4. \A q \in Request : ~Publishes(q, n)
        BY DEF NothingMoving, Pending, Publishes
      <4>5. Arrives(n, w, j)
        BY <4>1 DEF Leads
      <4> QED
        BY <4>2, <4>3, <4>4, <4>5 DEF Arrives, CaughtUp
    <3> QED
      BY <3>1, <3>2
  <2>2. Init => Led
    BY <1>2, LedInit
  <2>3. NamesTypeOK /\ Led /\ [Next]_vars => Led'
    BY LedStep
  <2> QED
    BY <2>1, <2>2, <2>3, NamesTyped, PTL DEF Spec
<1> QED
  BY <1>1, <1>2
================================================================================
