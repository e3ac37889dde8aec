---------------------------- MODULE AddressesProofs ----------------------------
(***************************************************************************)
(* Proofs about the addresses kept in EEPROM (module Addresses).             *)
(*                                                                           *)
(* Of the CRC, the proofs use that it depends on the bytes only: what they   *)
(* show holds with any checksum of four bytes.  That load accepts no mixture *)
(* of saves is so unless a mixture has the right checksum by accident.       *)
(***************************************************************************)
EXTENDS Addresses, TLAPS, SequenceTheorems

Prefixes == {{}} \union {{p} : p \in OuiPrefixes}

WellFormed(a) ==
    a = [ip |-> [i \in 1 .. 4 |-> a.ip[i]], mac |-> [i \in 1 .. 6 |-> a.mac[i]]]

\* The EEPROM holds what save writes for these addresses.
Holds(a) == \A i \in 1 .. Size : eeprom[i] = Image(a)[i]

Stored == [ip |-> StoredIp, mac |-> StoredMac]

EepromInv == eeprom = [i \in 1 .. Size |-> eeprom[i]]

LoadInv ==
    /\ oui_prefix \in Prefixes
    /\ stage = "load" => \A used \in last : StartsWith(used.mac, oui_prefix)

\* Addresses are only saved when there are none to be kept, and the cells before
\* the next one have been written.
SaveInv ==
    stage = "save" =>
        /\ last = {}
        /\ WellFormed(addresses) /\ hasOuiPrefix(addresses.mac, oui_prefix)
        /\ at \in 1 .. (Size + 1)
        /\ \A i \in 1 .. (at - 1) : eeprom[i] = Image(addresses)[i]

\* The addresses in use, and the ones used last, are in the EEPROM.
UsedInv ==
    /\ stage = "begin" => /\ WellFormed(addresses) /\ Holds(addresses)
                          /\ hasOuiPrefix(addresses.mac, oui_prefix)
    /\ \A used \in last : WellFormed(used) /\ Holds(used)

AddressesInv == EepromInv /\ LoadInv /\ SaveInv /\ UsedInv /\ SameAfterRestart
-----------------------------------------------------------------------------
(* What save writes and load reads *)

LEMMA Name == kName \in Seq(Byte) /\ Len(kName) \in Nat /\ Size = Len(kName) + 14
BY AddressesAssumption DEF Size

LEMMA CrcShape ==
    ASSUME NEW ip, NEW mac
    PROVE  CrcOf(ip, mac) = [i \in 1 .. 4 |-> CrcOf(ip, mac)[i]]
<1>1. \E f : CrcOf(ip, mac) = [i \in 1 .. 4 |-> f[i]]
  <2> DEFINE value == Crc32(ip \o mac)
             f == [i \in 1 .. 4 |-> value[2 * i - 1] + 16 * value[2 * i]]
  <2>1. CrcOf(ip, mac) = f
    BY DEF CrcOf, CrcBytes
  <2>2. f = [i \in 1 .. 4 |-> f[i]]
    OBVIOUS
  <2> QED
    BY <2>1, <2>2
<1> QED
    BY <1>1

LEMMA IsSequence ==
    ASSUME NEW S, NEW n \in Nat, NEW f \in [1 .. n -> S]
    PROVE  f \in Seq(S) /\ Len(f) = n
OBVIOUS

LEMMA Joined ==
    ASSUME NEW S, NEW a \in Seq(S), NEW b \in Seq(S)
    PROVE  /\ a \o b \in Seq(S) /\ Len(a \o b) = Len(a) + Len(b)
           /\ \A i \in 1 .. Len(a) : (a \o b)[i] = a[i]
           /\ \A i \in 1 .. Len(b) : (a \o b)[Len(a) + i] = b[i]
OBVIOUS

\* The elements of four sequences, one after the other.
InTurn(all, a, b, c, d) ==
    /\ \A i \in 1 .. Len(a) : all[i] = a[i]
    /\ \A i \in 1 .. Len(b) : all[Len(a) + i] = b[i]
    /\ \A i \in 1 .. Len(c) : all[Len(a) + Len(b) + i] = c[i]
    /\ \A i \in 1 .. Len(d) : all[Len(a) + Len(b) + Len(c) + i] = d[i]

LEMMA Concatenated ==
    ASSUME NEW S, NEW a \in Seq(S), NEW b \in Seq(S), NEW c \in Seq(S), NEW d \in Seq(S)
    PROVE  InTurn(a \o b \o c \o d, a, b, c, d)
<1> DEFINE Follows(x, y) ==
               /\ x \o y \in Seq(S) /\ Len(x \o y) = Len(x) + Len(y)
               /\ \A i \in 1 .. Len(x) : (x \o y)[i] = x[i]
               /\ \A i \in 1 .. Len(y) : (x \o y)[Len(x) + i] = y[i]
<1>0. \A x, y \in Seq(S) : Follows(x, y)
    BY Joined
<1> HIDE DEF Follows
<1>1. PICK ab : /\ ab = a \o b /\ ab \in Seq(S) /\ Len(ab) = Len(a) + Len(b)
                /\ \A i \in 1 .. Len(a) : ab[i] = a[i]
                /\ \A i \in 1 .. Len(b) : ab[Len(a) + i] = b[i]
  <2>1. Follows(a, b)
    BY <1>0, Zenon
  <2> QED
    BY <2>1, Zenon DEF Follows
<1>2. PICK abc : /\ abc = ab \o c /\ abc \in Seq(S) /\ Len(abc) = Len(ab) + Len(c)
                 /\ \A i \in 1 .. Len(ab) : abc[i] = ab[i]
                 /\ \A i \in 1 .. Len(c) : abc[Len(ab) + i] = c[i]
  <2>1. Follows(ab, c)
    BY <1>0, <1>1, Zenon
  <2> QED
    BY <2>1, Zenon DEF Follows
<1>3. PICK all : /\ all = abc \o d
                 /\ \A i \in 1 .. Len(abc) : all[i] = abc[i]
                 /\ \A i \in 1 .. Len(d) : all[Len(abc) + i] = d[i]
  <2>1. Follows(abc, d)
    BY <1>0, <1>2, Zenon
  <2> QED
    BY <2>1, Zenon DEF Follows
<1>4. Len(a) \in Nat /\ Len(b) \in Nat /\ Len(c) \in Nat /\ Len(d) \in Nat
    BY LenProperties
<1>5. ASSUME NEW i \in 1 .. Len(a)
      PROVE  all[i] = a[i]
  <2>1. i \in 1 .. Len(ab) /\ i \in 1 .. Len(abc)
    BY <1>1, <1>2, <1>4
  <2> QED
    BY <1>1, <1>2, <1>3, <2>1
<1>6. ASSUME NEW i \in 1 .. Len(b)
      PROVE  all[Len(a) + i] = b[i]
  <2>1. Len(a) + i \in 1 .. Len(ab) /\ Len(a) + i \in 1 .. Len(abc)
    BY <1>1, <1>2, <1>4
  <2> QED
    BY <1>1, <1>2, <1>3, <2>1
<1>7. ASSUME NEW i \in 1 .. Len(c)
      PROVE  all[Len(a) + Len(b) + i] = c[i]
  <2>1. Len(ab) + i = Len(a) + Len(b) + i /\ Len(ab) + i \in 1 .. Len(abc)
    BY <1>1, <1>2, <1>4
  <2> QED
    BY <1>2, <1>3, <2>1
<1>8. ASSUME NEW i \in 1 .. Len(d)
      PROVE  all[Len(a) + Len(b) + Len(c) + i] = d[i]
  <2>1. Len(abc) + i = Len(a) + Len(b) + Len(c) + i
    BY <1>1, <1>2, <1>4
  <2> QED
    BY <1>3, <2>1
<1> QED
    BY <1>1, <1>2, <1>3, <1>5, <1>6, <1>7, <1>8, Zenon DEF InTurn

\* The name, the IP address, the MAC address and the CRC of both.
LEMMA ImageFacts ==
    ASSUME NEW a, WellFormed(a)
    PROVE  /\ \A i \in 1 .. Len(kName) : Image(a)[i] = kName[i]
           /\ \A i \in 1 .. 4 : Image(a)[Len(kName) + i] = a.ip[i]
           /\ \A i \in 1 .. 6 : Image(a)[Len(kName) + 4 + i] = a.mac[i]
           /\ \A i \in 1 .. 4 : Image(a)[Len(kName) + 10 + i] = CrcOf(a.ip, a.mac)[i]
<1> DEFINE ip == a.ip
           mac == a.mac
           crc == CrcOf(ip, mac)
           S == Byte \cup {ip[i] : i \in 1 .. 4} \cup {mac[i] : i \in 1 .. 6}
                     \cup {crc[i] : i \in 1 .. 4}
<1>1. ip = [i \in 1 .. 4 |-> ip[i]] /\ mac = [i \in 1 .. 6 |-> mac[i]]
    BY DEF WellFormed
<1>2. crc = [i \in 1 .. 4 |-> crc[i]]
    BY CrcShape
<1>3. Image(a) = kName \o ip \o mac \o crc
    BY DEF Image
<1> HIDE DEF ip, mac, crc
<1>4. /\ kName \in Seq(S)
      /\ ip \in Seq(S) /\ Len(ip) = 4
      /\ mac \in Seq(S) /\ Len(mac) = 6
      /\ crc \in Seq(S) /\ Len(crc) = 4
  <2>1. kName \in Seq(S)
    BY Name
  <2>2. ip \in [1 .. 4 -> S] /\ mac \in [1 .. 6 -> S] /\ crc \in [1 .. 4 -> S]
    BY <1>1, <1>2
  <2> HIDE DEF S
  <2> QED
    BY <2>1, <2>2, IsSequence
<1> HIDE DEF S
<1>5. /\ \A i \in 1 .. Len(kName) : Image(a)[i] = kName[i]
      /\ \A i \in 1 .. 4 : Image(a)[Len(kName) + i] = ip[i]
      /\ \A i \in 1 .. 6 : Image(a)[Len(kName) + 4 + i] = mac[i]
      /\ \A i \in 1 .. 4 : Image(a)[Len(kName) + 4 + 6 + i] = crc[i]
  <2>1. InTurn(Image(a), kName, ip, mac, crc)
    BY <1>3, <1>4, Concatenated, Zenon
  <2> QED
    BY <1>4, <2>1, Zenon DEF InTurn
<1>6. \A i \in 1 .. 4 : Len(kName) + 4 + 6 + i = Len(kName) + 10 + i
    BY Name
<1>7. \A i \in 1 .. 4 : Image(a)[Len(kName) + 10 + i] = crc[i]
    BY <1>5, <1>6
<1> QED
    BY <1>5, <1>7, Zenon DEF ip, mac, crc

\* Saved addresses are found again by load.
LEMMA HoldsLoads ==
    ASSUME NEW a, WellFormed(a), Holds(a)
    PROVE  verifyName /\ Stored = a /\ StoredCrc = CrcOf(StoredIp, StoredMac)
<1>1. verifyName
  <2>1. ASSUME NEW i \in 1 .. Len(kName)
        PROVE  eeprom[1 + i - 1] = kName[i]
    <3>1. 1 + i - 1 = i /\ i \in 1 .. Size
      BY Name
    <3>2. Image(a)[i] = kName[i]
      BY ImageFacts
    <3> QED
      BY <3>1, <3>2 DEF Holds
  <2>2. kName = [i \in 1 .. Len(kName) |-> kName[i]]
    BY Name
  <2> QED
    BY <2>1, <2>2 DEF verifyName, Cells
<1>2. StoredIp = a.ip
  <2>1. ASSUME NEW i \in 1 .. 4
        PROVE  eeprom[Len(kName) + 1 + i - 1] = a.ip[i]
    <3>1. Len(kName) + 1 + i - 1 = Len(kName) + i /\ Len(kName) + i \in 1 .. Size
      BY Name
    <3>2. Image(a)[Len(kName) + i] = a.ip[i]
      BY ImageFacts
    <3> QED
      BY <3>1, <3>2 DEF Holds
  <2>2. a.ip = [i \in 1 .. 4 |-> a.ip[i]]
    BY DEF WellFormed
  <2> QED
    BY <2>1, <2>2 DEF StoredIp, Cells
<1>3. StoredMac = a.mac
  <2>1. ASSUME NEW i \in 1 .. 6
        PROVE  eeprom[Len(kName) + 5 + i - 1] = a.mac[i]
    <3>1. Len(kName) + 5 + i - 1 = Len(kName) + 4 + i /\ Len(kName) + 4 + i \in 1 .. Size
      BY Name
    <3>2. Image(a)[Len(kName) + 4 + i] = a.mac[i]
      BY ImageFacts
    <3> QED
      BY <3>1, <3>2 DEF Holds
  <2>2. a.mac = [i \in 1 .. 6 |-> a.mac[i]]
    BY DEF WellFormed
  <2> QED
    BY <2>1, <2>2 DEF StoredMac, Cells
<1>4. StoredCrc = CrcOf(a.ip, a.mac)
  <2>1. ASSUME NEW i \in 1 .. 4
        PROVE  eeprom[Len(kName) + 11 + i - 1] = CrcOf(a.ip, a.mac)[i]
    <3>1. Len(kName) + 11 + i - 1 = Len(kName) + 10 + i /\ Len(kName) + 10 + i \in 1 .. Size
      BY Name
    <3>2. Image(a)[Len(kName) + 10 + i] = CrcOf(a.ip, a.mac)[i]
      BY ImageFacts
    <3> QED
      BY <3>1, <3>2 DEF Holds
  <2>2. CrcOf(a.ip, a.mac) = [i \in 1 .. 4 |-> CrcOf(a.ip, a.mac)[i]]
    BY CrcShape
  <2> QED
    BY <2>1, <2>2 DEF StoredCrc, Cells
<1>5. a = [ip |-> a.ip, mac |-> a.mac]
    BY DEF WellFormed
<1> QED
    BY <1>1, <1>2, <1>3, <1>4, <1>5 DEF Stored

\* What load accepts is what save writes for the addresses that it returns.
LEMMA LoadsHolds ==
    ASSUME verifyName, StoredCrc = CrcOf(StoredIp, StoredMac)
    PROVE  WellFormed(Stored) /\ Holds(Stored)
<1>1. WellFormed(Stored)
    BY DEF WellFormed, Stored, StoredIp, StoredMac, Cells
<1>2. Stored.ip = StoredIp /\ Stored.mac = StoredMac
    BY DEF Stored
<1>3. ASSUME NEW i \in 1 .. Size
      PROVE  eeprom[i] = Image(Stored)[i]
  <2> DEFINE n == Len(kName)
  <2>1. CASE i <= n
    <3>1. eeprom[1 + i - 1] = kName[i]
      BY <2>1, Name DEF verifyName, Cells
    <3> QED
      BY <1>1, <2>1, <3>1, Name, ImageFacts
  <2>2. CASE n < i /\ i <= n + 4
    <3>1. StoredIp[i - n] = eeprom[i]
      BY <2>2, Name DEF StoredIp, Cells
    <3>2. i - n \in 1 .. 4 /\ n + (i - n) = i
      BY <2>2, Name
    <3> QED
      BY <1>1, <1>2, <3>1, <3>2, ImageFacts
  <2>3. CASE n + 4 < i /\ i <= n + 10
    <3>1. StoredMac[i - n - 4] = eeprom[i]
      BY <2>3, Name DEF StoredMac, Cells
    <3>2. i - n - 4 \in 1 .. 6 /\ n + 4 + (i - n - 4) = i
      BY <2>3, Name
    <3> QED
      BY <1>1, <1>2, <3>1, <3>2, ImageFacts
  <2>4. CASE n + 10 < i
    <3>1. StoredCrc[i - n - 10] = eeprom[i]
      BY <2>4, Name DEF StoredCrc, Cells
    <3>2. i - n - 10 \in 1 .. 4 /\ n + 10 + (i - n - 10) = i
      BY <2>4, Name
    <3> QED
      BY <1>1, <1>2, <3>1, <3>2, ImageFacts
  <2> QED
    BY <2>1, <2>2, <2>3, <2>4, Name
<1> QED
    BY <1>1, <1>3 DEF Holds
-----------------------------------------------------------------------------
(* Prefixes *)

\* Looking at the first three bytes one by one, as hasPrefix does, is looking at
\* them as one.
LEMMA PrefixAgrees ==
    ASSUME NEW prefix \in Prefixes, NEW mac, mac = [i \in 1 .. 6 |-> mac[i]]
    PROVE  StartsWith(mac, prefix) <=> hasOuiPrefix(mac, prefix)
<1>1. ASSUME NEW p \in prefix
      PROVE  SubSeq(mac, 1, 3) = OuiPrefix(p) <=> \A i \in 1 .. 3 : mac[i] = OuiPrefix(p)[i]
  <2>1. p \in [1 .. 3 -> Byte]
    BY AddressesAssumption DEF Prefixes
  <2>2. OuiPrefix(p) = [i \in 1 .. 3 |-> OuiPrefix(p)[i]]
    BY <2>1 DEF OuiPrefix
  <2>3. SubSeq(mac, 1, 3) = [i \in 1 .. 3 |-> mac[i]]
    <3> DEFINE S == {mac[i] : i \in 1 .. 6}
    <3>1. mac \in [1 .. 6 -> S]
      OBVIOUS
    <3> HIDE DEF S
    <3>2. mac \in Seq(S) /\ Len(mac) = 6
      BY <3>1, IsSequence
    <3> QED
      BY <3>2
  <2> QED
    BY <2>2, <2>3
<1> QED
    BY <1>1 DEF StartsWith, hasOuiPrefix

\* What is generated has the prefix.
LEMMA GeneratedFacts ==
    ASSUME NEW prefix \in Prefixes, NEW draw \in Draws
    PROVE  LET a == generateAddresses(prefix, draw)
           IN  WellFormed(a) /\ hasOuiPrefix(a.mac, prefix)
<1> DEFINE a == generateAddresses(prefix, draw)
<1>1. /\ a = [mac |-> generateAddress(prefix, draw.mac), ip |-> pickIPAddress(draw.c, draw.d)]
    BY DEF generateAddresses
<1>2. a.mac = generateAddress(prefix, draw.mac) /\ a.ip = pickIPAddress(draw.c, draw.d)
    BY <1>1
<1>3. generateAddress(prefix, draw.mac) = [i \in 1 .. 6 |-> generateAddress(prefix, draw.mac)[i]]
    BY DEF generateAddress
<1>4. pickIPAddress(draw.c, draw.d) = [i \in 1 .. 4 |-> pickIPAddress(draw.c, draw.d)[i]]
    BY DEF pickIPAddress
<1>5. a = [ip |-> a.ip, mac |-> a.mac]
    BY <1>1
<1>6. WellFormed(a)
    BY <1>2, <1>3, <1>4, <1>5 DEF WellFormed
<1>7. ASSUME NEW p \in prefix, NEW i \in 1 .. 3
      PROVE  generateAddress(prefix, draw.mac)[i] = OuiPrefix(p)[i]
  <2>1. prefix = {p}
    BY DEF Prefixes
  <2>2. (CHOOSE x \in prefix : TRUE) = p
    BY <2>1
  <2>3. i \in 1 .. 6 /\ i <= 3 /\ prefix # {}
    BY <2>1
  <2> QED
    BY <2>2, <2>3 DEF generateAddress
<1>8. hasOuiPrefix(a.mac, prefix)
    BY <1>2, <1>7 DEF hasOuiPrefix
<1> QED
    BY <1>6, <1>8
-----------------------------------------------------------------------------
(* The invariant *)

LEMMA AddressesStart == AddressesInit => AddressesInv
<1> SUFFICES ASSUME AddressesInit PROVE AddressesInv
    OBVIOUS
<1>1. EepromInv
    BY AddressesAssumption DEF AddressesInit, EepromInv, Size
<1> QED
    BY <1>1 DEF AddressesInit, AddressesInv, LoadInv, SaveInv, UsedInv, SameAfterRestart, Prefixes

\* The addresses used last are loaded again, if they have the prefix.
LEMMA UsedLoads ==
    ASSUME AddressesInv, stage = "load", NEW used \in last
    PROVE  Loads(oui_prefix) /\ Stored = used
<1>1. WellFormed(used) /\ Holds(used) /\ StartsWith(used.mac, oui_prefix) /\ oui_prefix \in Prefixes
    BY DEF AddressesInv, UsedInv, LoadInv
<1>2. verifyName /\ Stored = used /\ StoredCrc = CrcOf(StoredIp, StoredMac)
    BY <1>1, HoldsLoads
<1>3. used.mac = [i \in 1 .. 6 |-> used.mac[i]] /\ used.mac = StoredMac
    BY <1>1, <1>2 DEF WellFormed, Stored
<1>4. hasOuiPrefix(StoredMac, oui_prefix)
    BY <1>1, <1>3, PrefixAgrees
<1> QED
    BY <1>2, <1>4 DEF Loads

LEMMA SetUpStep ==
    ASSUME AddressesInv, NEW prefix \in Prefixes, SetUp(prefix)
    PROVE  AddressesInv'
<1>1. /\ stage' = "load" /\ oui_prefix' = prefix /\ eeprom' = eeprom
      /\ last' = {used \in last : StartsWith(used.mac, prefix)}
    BY DEF SetUp
<1>2. \A a : Holds(a)' <=> Holds(a)
    BY <1>1 DEF Holds
<1> QED
    BY <1>1, <1>2 DEF AddressesInv, EepromInv, LoadInv, SaveInv, UsedInv, SameAfterRestart

LEMMA LoadStep ==
    ASSUME AddressesInv, loadOrGenerate
    PROVE  AddressesInv'
<1>1. stage = "load" /\ eeprom' = eeprom /\ oui_prefix' = oui_prefix /\ last' = last
    BY DEF loadOrGenerate
<1>2. \A a : Holds(a)' <=> Holds(a)
    BY <1>1 DEF Holds
<1>3. EepromInv' /\ oui_prefix' \in Prefixes
    BY <1>1 DEF AddressesInv, EepromInv, LoadInv
<1>4. \A used \in last : WellFormed(used) /\ Holds(used)'
    BY <1>2 DEF AddressesInv, UsedInv
<1>5. CASE Loads(oui_prefix)
  <2>1. stage' = "begin" /\ addresses' = Stored
    BY <1>5 DEF loadOrGenerate, Stored
  <2>2. WellFormed(Stored) /\ Holds(Stored)
    BY <1>5, LoadsHolds DEF Loads
  <2>3. hasOuiPrefix(Stored.mac, oui_prefix)
    BY <1>5 DEF Loads, Stored
  <2>4. \A used \in last : Stored = used
    BY <1>1, UsedLoads
  <2>5. WellFormed(addresses') /\ Holds(addresses)' /\ hasOuiPrefix(addresses'.mac, oui_prefix')
    <3>1. Holds(addresses)'
      BY <1>1, <2>1, <2>2 DEF Holds
    <3> QED
      BY <1>1, <2>1, <2>2, <2>3, <3>1
  <2>6. UsedInv' /\ SameAfterRestart'
    BY <1>1, <1>4, <2>1, <2>4, <2>5 DEF UsedInv, SameAfterRestart
  <2> QED
    BY <1>3, <2>1, <2>6 DEF AddressesInv, LoadInv, SaveInv
<1>6. CASE ~Loads(oui_prefix)
  <2>1. last = {}
    BY <1>1, <1>6, UsedLoads
  <2>2. stage' = "save" /\ at' = 1
    BY <1>6 DEF loadOrGenerate
  <2>3. PICK draw \in Draws : addresses' = generateAddresses(oui_prefix, draw)
    BY <1>6 DEF loadOrGenerate
  <2>4. WellFormed(addresses') /\ hasOuiPrefix(addresses'.mac, oui_prefix')
    BY <1>1, <2>3, GeneratedFacts DEF AddressesInv, LoadInv
  <2>5. SaveInv'
    BY <1>1, <2>1, <2>2, <2>4, Name DEF SaveInv
  <2> QED
    BY <1>1, <1>3, <2>1, <2>2, <2>5 DEF AddressesInv, LoadInv, UsedInv, SameAfterRestart
<1> QED
    BY <1>5, <1>6

LEMMA SaveStep ==
    ASSUME AddressesInv, save \/ Saved
    PROVE  AddressesInv'
<1>1. /\ stage = "save" /\ oui_prefix' = oui_prefix /\ addresses' = addresses /\ last' = last
      /\ last = {} /\ WellFormed(addresses) /\ hasOuiPrefix(addresses.mac, oui_prefix)
      /\ at \in 1 .. (Size + 1) /\ \A i \in 1 .. (at - 1) : eeprom[i] = Image(addresses)[i]
      /\ oui_prefix \in Prefixes
    BY DEF save, Saved, AddressesInv, SaveInv, LoadInv
<1>2. CASE save
  <2>1. stage' = stage /\ at' = at + 1 /\ at \in 1 .. Size
        /\ eeprom' = [eeprom EXCEPT ![at] = Image(addresses)[at]]
    BY <1>1, <1>2, Name DEF save
  <2>2. /\ eeprom' = [i \in 1 .. Size |-> eeprom'[i]]
        /\ eeprom'[at] = Image(addresses)[at]
        /\ \A i \in 1 .. Size : i # at => eeprom'[i] = eeprom[i]
    BY <2>1 DEF AddressesInv, EepromInv
  <2>3. \A i \in 1 .. (at' - 1) : eeprom'[i] = Image(addresses)[i]
    <3> SUFFICES ASSUME NEW i \in 1 .. (at' - 1) PROVE eeprom'[i] = Image(addresses)[i]
      OBVIOUS
    <3>1. i \in 1 .. Size /\ (i = at \/ i \in 1 .. (at - 1))
      BY <2>1, Name
    <3> QED
      BY <1>1, <2>2, <3>1
  <2>4. at' \in 1 .. (Size + 1)
    BY <2>1, Name
  <2>5. SaveInv'
    BY <1>1, <2>1, <2>3, <2>4 DEF SaveInv
  <2> QED
    BY <1>1, <2>1, <2>2, <2>5 DEF AddressesInv, EepromInv, LoadInv, UsedInv, SameAfterRestart
<1>3. CASE Saved
  <2>1. stage' = "begin" /\ eeprom' = eeprom /\ at = Size + 1
    BY <1>1, <1>3, Name DEF Saved
  <2>2. Holds(addresses)'
    BY <1>1, <2>1, Name DEF Holds
  <2> QED
    BY <1>1, <2>1, <2>2 DEF AddressesInv, EepromInv, LoadInv, SaveInv, UsedInv, SameAfterRestart
<1> QED
    BY <1>2, <1>3

\* Power may fail at any cell; what is lost then was not in use.
LEMMA PowerFailsStep ==
    ASSUME AddressesInv, PowerFails
    PROVE  AddressesInv'
<1>1. stage' = "off" /\ oui_prefix' = {} /\ last' = last
    BY DEF PowerFails
<1>2. CASE stage = "save"
  <2>1. last = {}
    BY <1>2 DEF AddressesInv, SaveInv
  <2>2. eeprom' = eeprom \/ eeprom' = [eeprom EXCEPT ![at] = 255]
    BY DEF PowerFails
  <2>3. EepromInv'
    BY <2>2 DEF AddressesInv, EepromInv
  <2> QED
    BY <1>1, <2>1, <2>3 DEF AddressesInv, LoadInv, SaveInv, UsedInv, SameAfterRestart, Prefixes
<1>3. CASE stage # "save"
  <2>1. eeprom' = eeprom
    BY <1>3 DEF PowerFails
  <2>2. \A a : Holds(a)' <=> Holds(a)
    BY <2>1 DEF Holds
  <2> QED
    BY <1>1, <2>1, <2>2 DEF AddressesInv, EepromInv, LoadInv, SaveInv, UsedInv, SameAfterRestart, Prefixes
<1> QED
    BY <1>2, <1>3

LEMMA BeginStep ==
    ASSUME AddressesInv, BeginDhcp \/ BeginLinkLocal \/ NoHardware
    PROVE  AddressesInv'
<1>1. /\ stage = "begin" /\ stage' \in {"up", "no_hardware"} /\ last' = {addresses}
      /\ eeprom' = eeprom /\ addresses' = addresses /\ oui_prefix' = oui_prefix
    BY DEF BeginDhcp, BeginLinkLocal, NoHardware
<1>2. Holds(addresses)'
    BY <1>1 DEF AddressesInv, UsedInv, Holds
<1>3. WellFormed(addresses)
    BY <1>1 DEF AddressesInv, UsedInv
<1>4. \A used \in last' : WellFormed(used) /\ Holds(used)'
    BY <1>1, <1>2, <1>3 DEF Holds
<1> QED
    BY <1>1, <1>4 DEF AddressesInv, EepromInv, LoadInv, SaveInv, UsedInv, SameAfterRestart

LEMMA AddressesStep ==
    ASSUME AddressesInv, [AddressesNext]_addressVars
    PROVE  AddressesInv'
<1>1. CASE UNCHANGED addressVars
  <2>1. UNCHANGED <<eeprom, stage, oui_prefix, addresses, at, last>>
    BY <1>1 DEF addressVars
  <2>2. \A a : Holds(a)' <=> Holds(a)
    BY <2>1 DEF Holds
  <2> QED
    BY <2>1, <2>2 DEF AddressesInv, EepromInv, LoadInv, SaveInv, UsedInv, SameAfterRestart
<1> QED
    BY <1>1, SetUpStep, LoadStep, SaveStep, PowerFailsStep, BeginStep DEF AddressesNext, Prefixes

\* Addresses::loadOrGenAndSave: once the network was brought up with addresses,
\* they are the same after every restart, wherever power fails, until a sketch
\* asks for another prefix: with any name, any number of power failures and
\* whatever the EEPROM held at first.
THEOREM AddressesStay == AddressesSpec => []SameAfterRestart
<1>1. AddressesInv => SameAfterRestart
    BY DEF AddressesInv
<1> QED
    BY <1>1, AddressesStart, AddressesStep, PTL DEF AddressesSpec

\* The assertions after save, in loadOrGenAndSave and Crc32::put.
LEMMA SavedIsStored ==
    ASSUME AddressesInv
    PROVE  SavedLoads
<1> SUFFICES ASSUME stage = "save", at > Size
             PROVE  Loads(oui_prefix) /\ addresses = [ip |-> StoredIp, mac |-> StoredMac]
    BY DEF SavedLoads
<1>1. WellFormed(addresses) /\ hasOuiPrefix(addresses.mac, oui_prefix)
    BY DEF AddressesInv, SaveInv
<1>2. Holds(addresses)
    BY Name DEF AddressesInv, SaveInv, Holds
<1>3. verifyName /\ Stored = addresses /\ StoredCrc = CrcOf(StoredIp, StoredMac)
    BY <1>1, <1>2, HoldsLoads
<1>4. hasOuiPrefix(StoredMac, oui_prefix)
    BY <1>1, <1>3 DEF Stored
<1> QED
    BY <1>3, <1>4 DEF Loads, Stored

\* The addresses have the prefix that was asked for.
LEMMA BeginsWithPrefix ==
    ASSUME AddressesInv, stage = "begin"
    PROVE  StartsWith(addresses.mac, oui_prefix)
<1>1. WellFormed(addresses) /\ hasOuiPrefix(addresses.mac, oui_prefix) /\ oui_prefix \in Prefixes
    BY DEF AddressesInv, UsedInv, LoadInv
<1>2. addresses.mac = [i \in 1 .. 6 |-> addresses.mac[i]]
    BY <1>1 DEF WellFormed
<1> QED
    BY <1>1, <1>2, PrefixAgrees

\* The assertions after save in loadOrGenAndSave, with any checksum: the addresses
\* that were saved can be loaded, and are the ones that were generated; and the MAC
\* address has the prefix that was asked for.
THEOREM SavedAddressesLoad ==
    AddressesSpec => [](SavedLoads /\ (stage = "begin" => StartsWith(addresses.mac, oui_prefix)))
<1>1. AddressesInv => SavedLoads /\ (stage = "begin" => StartsWith(addresses.mac, oui_prefix))
    BY SavedIsStored, BeginsWithPrefix
<1> QED
    BY <1>1, AddressesStart, AddressesStep, PTL DEF AddressesSpec
-----------------------------------------------------------------------------
(* No mixture is loaded *)

\* What the cells with the addresses and the CRC hold: a save that began has
\* overwritten those up to some cell k.
CouldHold(k, first) ==
    /\ \A i \in 1 .. 14 : eeprom[Len(kName) + i] \in LeftBehind(k, first, begun)[i]
    /\ stage = "save" => at <= Len(kName) + k + 1

CellsInv ==
    /\ \E first \in Originals, k \in 0 .. 14 : CouldHold(k, first)
    /\ stage = "save" => addresses \in begun

\* load was not deceived.
BegunInv == stage = "begin" /\ ~SomeMixtureMatches(begun) => addresses \in begun

LEMMA Behind ==
    ASSUME NEW k \in 0 .. 14, NEW first
    PROVE  \A i \in 1 .. 14 : /\ i <= k => LeftBehind(k, first, begun)[i] = Written(i, begun)
                              /\ ~(i <= k) => LeftBehind(k, first, begun)[i] = {first[i]}
BY DEF LeftBehind

\* A save writes what some save may have written.
LEMMA WrittenCells ==
    ASSUME NEW i \in 1 .. 14
    PROVE  255 \in Written(i, begun) /\ \A a \in begun : Image(a)[Len(kName) + i] \in Written(i, begun)
BY DEF Written

\* What could be left behind still can be when a further save begins.
LEMMA MoreBegun ==
    ASSUME begun \subseteq begun', NEW k \in 0 .. 14, NEW first, NEW i \in 1 .. 14
    PROVE  LeftBehind(k, first, begun)[i] \subseteq LeftBehind(k, first, begun)[i]'
<1>1. Written(i, begun) \subseteq Written(i, begun)'
    BY DEF Written
<1>2. CASE i <= k
  <2>1. LeftBehind(k, first, begun)[i] = Written(i, begun) /\ LeftBehind(k, first, begun)[i]' = Written(i, begun)'
    BY <1>2 DEF LeftBehind
  <2> QED
    BY <1>1, <2>1
<1>3. CASE ~(i <= k)
    BY <1>3 DEF LeftBehind
<1> QED
    BY <1>2, <1>3

\* One cell further on, at most one more of the first cells is overwritten.
LEMMA OneMoreCell ==
    ASSUME AddressesInv, CellsInv, stage = "save", at <= Size, begun' = begun,
           NEW v, v = 255 \/ v = Image(addresses)[at],
           eeprom' = [eeprom EXCEPT ![at] = v],
           stage' = "save" => at' = at + 1
    PROVE  \E first \in Originals, k \in 0 .. 14 : CouldHold(k, first)'
<1>1. PICK first \in Originals, k \in 0 .. 14 : CouldHold(k, first)
    BY DEF CellsInv
<1>2. at \in 1 .. Size /\ at <= Len(kName) + k + 1 /\ addresses \in begun
    BY <1>1, Name DEF CouldHold, AddressesInv, SaveInv, CellsInv
<1>3. \A i \in 1 .. Size : eeprom'[i] = IF i = at THEN v ELSE eeprom[i]
    BY DEF AddressesInv, EepromInv
<1>4. PICK m \in 0 .. 14 : /\ m = k \/ (m = k + 1 /\ at = Len(kName) + m)
                           /\ at <= Len(kName) + m
  <2>1. CASE at <= Len(kName) + k
    BY <2>1, Zenon
  <2>2. CASE at = Len(kName) + k + 1
    <3>1. k + 1 \in 0 .. 14 /\ at = Len(kName) + (k + 1)
      BY <1>2, <2>2, Name
    <3> QED
      BY <3>1
  <2>3. at <= Len(kName) + k \/ at = Len(kName) + k + 1
    BY <1>2, Name
  <2> QED
    BY <2>1, <2>2, <2>3, Zenon
<1>5. ASSUME NEW i \in 1 .. 14
      PROVE  eeprom'[Len(kName) + i] \in LeftBehind(m, first, begun)[i]
  <2>1. Len(kName) + i \in 1 .. Size
    BY Name
  <2>2. CASE Len(kName) + i = at
    <3>1. i <= m
      BY <1>4, <2>2, Name
    <3>2. 255 \in Written(i, begun) /\ Image(addresses)[at] \in Written(i, begun)
      BY <1>2, <2>2, WrittenCells
    <3>3. LeftBehind(m, first, begun)[i] = Written(i, begun)
      BY <3>1, Behind
    <3>4. eeprom'[Len(kName) + i] = v
      BY <1>3, <2>1, <2>2
    <3> QED
      BY <3>2, <3>3, <3>4
  <2>3. CASE Len(kName) + i # at
    <3>1. eeprom'[Len(kName) + i] = eeprom[Len(kName) + i]
      BY <1>3, <2>1, <2>3
    <3>2. eeprom[Len(kName) + i] \in LeftBehind(k, first, begun)[i]
      BY <1>1 DEF CouldHold
    <3>3. i <= k <=> i <= m
      BY <1>4, <2>3, Name
    <3>4. CASE i <= k
      <4>1. LeftBehind(m, first, begun)[i] = Written(i, begun) /\ LeftBehind(k, first, begun)[i] = Written(i, begun)
        BY <3>3, <3>4, Behind
      <4> QED
        BY <3>1, <3>2, <4>1
    <3>5. CASE ~(i <= k)
      <4>1. LeftBehind(m, first, begun)[i] = {first[i]} /\ LeftBehind(k, first, begun)[i] = {first[i]}
        BY <3>3, <3>5, Behind
      <4> QED
        BY <3>1, <3>2, <4>1
    <3> QED
      BY <3>4, <3>5
  <2> QED
    BY <2>2, <2>3
<1>6. stage' = "save" => at' <= Len(kName) + m + 1
    BY <1>2, <1>4, Name
<1>7. CouldHold(m, first)'
    BY <1>5, <1>6, Zenon DEF CouldHold, LeftBehind, Written
<1> QED
    BY <1>4, <1>7

\* While the cells stay as they are.
LEMMA SameCells ==
    ASSUME CellsInv, eeprom' = eeprom, begun \subseteq begun',
           stage' = "save" => at' = 1 \/ (stage = "save" /\ at' = at)
    PROVE  \E first \in Originals, k \in 0 .. 14 : CouldHold(k, first)'
<1>1. PICK first \in Originals, k \in 0 .. 14 : CouldHold(k, first)
    BY DEF CellsInv
<1>2. ASSUME stage' = "save"
      PROVE  at' <= Len(kName) + k + 1
  <2>1. CASE at' = 1
    BY <2>1, Name
  <2>2. CASE stage = "save" /\ at' = at
    BY <1>1, <2>2 DEF CouldHold
  <2> QED
    BY <1>2, <2>1, <2>2
<1>3. ASSUME NEW i \in 1 .. 14
      PROVE  eeprom'[Len(kName) + i] \in LeftBehind(k, first, begun)[i]'
  <2>1. eeprom[Len(kName) + i] \in LeftBehind(k, first, begun)[i]
    BY <1>1 DEF CouldHold
  <2> QED
    BY <2>1, MoreBegun
<1>4. CouldHold(k, first)'
    BY <1>2, <1>3, Zenon DEF CouldHold
<1> QED
    BY <1>4

\* When a save is complete, nothing of earlier ones is left.
LEMMA AllWritten ==
    ASSUME AddressesInv, AddressesInv', stage' = "begin", begun' = {addresses'},
           NEW first \in Originals
    PROVE  CouldHold(14, first)'
<1>1. ASSUME NEW i \in 1 .. 14
      PROVE  eeprom'[Len(kName) + i] \in LeftBehind(14, first, begun)[i]'
  <2>1. Len(kName) + i \in 1 .. Size
    BY Name
  <2>2. eeprom'[Len(kName) + i] = Image(addresses')[Len(kName) + i]
    BY <2>1 DEF AddressesInv, UsedInv, Holds
  <2>3. eeprom'[Len(kName) + i] \in Written(i, begun)'
    BY <2>2 DEF Written
  <2>4. LeftBehind(14, first, begun)[i]' = Written(i, begun)'
    BY DEF LeftBehind
  <2> QED
    BY <2>3, <2>4
<1> QED
    BY <1>1, Zenon DEF CouldHold

\* What load accepts was pieced together from cells that a save may have written
\* and cells from before, and the CRC too.
LEMMA LoadsBegun ==
    ASSUME ~SomeMixtureMatches(begun), CellsInv, Loads(oui_prefix)
    PROVE  Stored \in begun
<1>1. PICK first \in Originals, k \in 0 .. 14 : CouldHold(k, first)
    BY DEF CellsInv
<1> DEFINE cell == LeftBehind(k, first, begun)
           n == Len(kName)
<1>2. \A i \in 1 .. 14 : eeprom[n + i] \in cell[i]
    BY <1>1 DEF CouldHold
<1> HIDE DEF cell
<1>3. StoredIp = <<eeprom[n + 1], eeprom[n + 2], eeprom[n + 3], eeprom[n + 4]>>
  <2>1. \A i \in 1 .. 4 : n + 1 + i - 1 = n + i
    BY Name
  <2> QED
    BY <2>1 DEF StoredIp, Cells
<1>4. StoredMac = <<eeprom[n + 5], eeprom[n + 6], eeprom[n + 7],
                    eeprom[n + 8], eeprom[n + 9], eeprom[n + 10]>>
  <2>1. \A i \in 1 .. 6 : n + 5 + i - 1 = n + (i + 4)
    BY Name
  <2> QED
    BY <2>1 DEF StoredMac, Cells
<1>5. \A i \in 1 .. 4 : StoredCrc[i] \in cell[10 + i]
  <2> SUFFICES ASSUME NEW i \in 1 .. 4 PROVE StoredCrc[i] \in cell[10 + i]
    OBVIOUS
  <2>1. n + 11 + i - 1 = n + (10 + i) /\ 10 + i \in 1 .. 14
    BY Name
  <2>2. StoredCrc[i] = eeprom[n + (10 + i)]
    BY <2>1 DEF StoredCrc, Cells
  <2> QED
    BY <1>2, <2>1, <2>2
<1>6. StoredIp \in cell[1] \X cell[2] \X cell[3] \X cell[4]
  <2>1. eeprom[n + 1] \in cell[1] /\ eeprom[n + 2] \in cell[2]
        /\ eeprom[n + 3] \in cell[3] /\ eeprom[n + 4] \in cell[4]
    BY <1>2
  <2> QED
    BY <1>3, <2>1
<1>7. StoredMac \in cell[5] \X cell[6] \X cell[7] \X cell[8] \X cell[9] \X cell[10]
  <2>1. eeprom[n + 5] \in cell[5] /\ eeprom[n + 6] \in cell[6] /\ eeprom[n + 7] \in cell[7]
        /\ eeprom[n + 8] \in cell[8] /\ eeprom[n + 9] \in cell[9] /\ eeprom[n + 10] \in cell[10]
    BY <1>2
  <2> QED
    BY <1>4, <2>1
<1>8. \A i \in 1 .. 4 : CrcOf(StoredIp, StoredMac)[i] \in cell[10 + i]
    BY <1>5 DEF Loads
<1>9. \A ip \in cell[1] \X cell[2] \X cell[3] \X cell[4],
         mac \in cell[5] \X cell[6] \X cell[7] \X cell[8] \X cell[9] \X cell[10] :
          (\A i \in 1 .. 4 : CrcOf(ip, mac)[i] \in cell[10 + i])
              => [ip |-> ip, mac |-> mac] \in begun
    BY Zenon DEF SomeMixtureMatches, cell
<1> QED
    BY <1>6, <1>7, <1>8, <1>9, Zenon DEF Stored

LEMMA MixtureStart == AddressesInit => CellsInv /\ BegunInv
<1> SUFFICES ASSUME AddressesInit PROVE CellsInv /\ BegunInv
    OBVIOUS
<1> DEFINE first == [i \in 1 .. 14 |-> eeprom[Len(kName) + i]]
<1>1. first \in Originals
    BY DEF AddressesInit, Originals
<1>2. ASSUME NEW i \in 1 .. 14
      PROVE  eeprom[Len(kName) + i] \in LeftBehind(0, first, begun)[i]
  <2>1. ~(i <= 0) /\ 0 \in 0 .. 14
    OBVIOUS
  <2> HIDE DEF first
  <2>2. LeftBehind(0, first, begun)[i] = {first[i]}
    BY <2>1 DEF LeftBehind
  <2> QED
    BY <2>2 DEF first
<1>3. CouldHold(0, first)
    BY <1>2 DEF CouldHold, AddressesInit
<1> QED
    BY <1>1, <1>3 DEF CellsInv, BegunInv, AddressesInit

LEMMA MixtureStep ==
    ASSUME AddressesInv, AddressesInv', CellsInv, BegunInv, [AddressesNext]_addressVars
    PROVE  CellsInv' /\ BegunInv'
<1>1. ASSUME NEW prefix \in Prefixes, SetUp(prefix)
      PROVE  CellsInv' /\ BegunInv'
  <2>1. eeprom' = eeprom /\ stage' = "load" /\ begun' = begun
    BY <1>1 DEF SetUp
  <2> QED
    BY <2>1, SameCells DEF CellsInv, BegunInv
<1>2. ASSUME loadOrGenerate
      PROVE  CellsInv' /\ BegunInv'
  <2>1. eeprom' = eeprom
    BY <1>2 DEF loadOrGenerate
  <2>2. CASE Loads(oui_prefix)
    <3>1. stage' = "begin" /\ addresses' = Stored /\ begun' = begun
      BY <1>2, <2>2 DEF loadOrGenerate, Stored
    <3>2. CellsInv'
      BY <2>1, <3>1, SameCells DEF CellsInv
    <3> QED
      BY <2>2, <3>1, <3>2, LoadsBegun DEF BegunInv
  <2>3. CASE ~Loads(oui_prefix)
    <3>1. stage' = "save" /\ at' = 1 /\ begun' = begun \union {addresses'}
      BY <1>2, <2>3 DEF loadOrGenerate
    <3> QED
      BY <2>1, <3>1, SameCells DEF CellsInv, BegunInv
  <2> QED
    BY <2>2, <2>3
<1>3. ASSUME save
      PROVE  CellsInv' /\ BegunInv'
  <2>1. stage = "save" /\ at <= Size /\ stage' = stage /\ addresses' = addresses /\ at' = at + 1
        /\ eeprom' = [eeprom EXCEPT ![at] = Image(addresses)[at]] /\ begun' = begun
    BY <1>3 DEF save
  <2>2. \E first \in Originals, k \in 0 .. 14 : CouldHold(k, first)'
    BY <2>1, OneMoreCell
  <2> QED
    BY <2>1, <2>2 DEF CellsInv, BegunInv
<1>4. ASSUME Saved
      PROVE  CellsInv' /\ BegunInv'
  <2>1. stage' = "begin" /\ addresses' = addresses /\ begun' = {addresses}
    BY <1>4 DEF Saved
  <2>2. PICK first \in Originals : TRUE
    BY DEF CellsInv
  <2>3. CouldHold(14, first)'
    BY <2>1, AllWritten
  <2> QED
    BY <2>1, <2>3 DEF CellsInv, BegunInv
<1>5. ASSUME BeginDhcp \/ BeginLinkLocal \/ NoHardware
      PROVE  CellsInv' /\ BegunInv'
  <2>1. stage' \in {"up", "no_hardware"} /\ eeprom' = eeprom /\ begun' = begun
    BY <1>5 DEF BeginDhcp, BeginLinkLocal, NoHardware
  <2> QED
    BY <2>1, SameCells DEF CellsInv, BegunInv
<1>6. ASSUME PowerFails
      PROVE  CellsInv' /\ BegunInv'
  <2>1. stage' = "off" /\ begun' = begun
    BY <1>6 DEF PowerFails
  <2>2. CASE eeprom' = eeprom
    BY <2>1, <2>2, SameCells DEF CellsInv, BegunInv
  <2>3. CASE eeprom' # eeprom
    <3>1. stage = "save" /\ at <= Size /\ eeprom' = [eeprom EXCEPT ![at] = 255]
      BY <1>6, <2>3 DEF PowerFails
    <3>2. \E first \in Originals, k \in 0 .. 14 : CouldHold(k, first)'
      BY <2>1, <3>1, OneMoreCell
    <3> QED
      BY <2>1, <3>2 DEF CellsInv, BegunInv
  <2> QED
    BY <2>2, <2>3
<1>7. CASE UNCHANGED addressVars
  <2>1. UNCHANGED <<eeprom, stage, addresses, at, begun>>
    BY <1>7 DEF addressVars
  <2>2. \E first \in Originals, k \in 0 .. 14 : CouldHold(k, first)'
    BY <2>1, SameCells
  <2> QED
    BY <2>1, <2>2 DEF CellsInv, BegunInv
<1> QED
    BY <1>1, <1>2, <1>3, <1>4, <1>5, <1>6, <1>7 DEF AddressesNext, Prefixes

\* Addresses::load, with any prefixes, draws, first contents and checksum, and
\* wherever and however often power failed while addresses were saved: what it
\* accepts was generated, or found at first, as one pair, and what save completed
\* can be loaded, unless the very cells that the saves since the last complete one
\* can have left make up another pair whose checksum they happen to make up too.
THEOREM AddressesStoredWhole == AddressesSpec => [](~SomeMixtureMatches(begun) => StoredWhole)
<1>1. ASSUME AddressesInv, BegunInv, ~SomeMixtureMatches(begun)
      PROVE  StoredWhole
  <2>1. stage = "begin" => StartsWith(addresses.mac, oui_prefix)
    BY <1>1, BeginsWithPrefix
  <2>2. SavedLoads
    BY <1>1, SavedIsStored
  <2> QED
    BY <1>1, <2>1, <2>2 DEF StoredWhole, NeverAMixture, BegunInv
<1>2. AddressesInit => AddressesInv /\ CellsInv /\ BegunInv
    BY AddressesStart, MixtureStart
<1>3. AddressesInv /\ CellsInv /\ BegunInv /\ [AddressesNext]_addressVars => (AddressesInv /\ CellsInv /\ BegunInv)'
    BY AddressesStep, MixtureStep
<1>4. AddressesInv /\ CellsInv /\ BegunInv => (~SomeMixtureMatches(begun) => StoredWhole)
    BY <1>1
<1> QED
    BY <1>2, <1>3, <1>4, PTL DEF AddressesSpec
=============================================================================
