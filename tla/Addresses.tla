-------------------------------- MODULE Addresses --------------------------------
(***************************************************************************)
(* The MAC and IP address of a server, which it generates when it first      *)
(* starts and keeps in EEPROM (src/utils/addresses.cpp and eeprom_io.cpp),   *)
(* and how it brings up the network with them (src/utils/ip_device.cpp).     *)
(*                                                                           *)
(* EEPROM is written one cell at a time and power may fail at any cell.      *)
(***************************************************************************)
EXTENDS Naturals, Sequences

CONSTANTS
    kName,              \* the bytes that mark what is stored, "addrs"
    OuiPrefixes,        \* what the sketches ask for, three bytes each
    Draws,              \* what random(256) may return for the bytes of a MAC
                        \* address and random(254), random(256) for an IP address
    InitialCells,       \* what the EEPROM may hold at first
    MaxPowerFailures    \* bound: power failures while the addresses are saved

Byte == 0 .. 255
ASSUME AddressesAssumption ==
    /\ kName \in Seq(Byte)
    /\ \A p \in OuiPrefixes : p \in [1 .. 3 -> Byte]
    /\ \A d \in Draws : d \in [mac : [1 .. 6 -> Byte], c : 0 .. 253, d : Byte]
    /\ \A c \in InitialCells : c \in [1 .. Len(kName) + 14 -> Byte]
    /\ MaxPowerFailures \in Nat

VARIABLES
    eeprom,             \* cell 1 is at address 0
    stage,              \* "off", "load", "save", "begin", "up", "no_hardware"
    oui_prefix,         \* what this sketch asks for: a set of at most one prefix
    addresses,          \* the Addresses of InitializeNetworking
    at,                 \* the next cell that save writes
    using_dhcp_, network,
    power_failures,
    \* for the properties:
    last,               \* the addresses used last, unless a prefix that they do not
                        \* have was asked for since
    begun               \* those that the EEPROM had at first or that were saved
                        \* last, and those that save began to write since then
ip_device == <<using_dhcp_, network>>
addressVars == <<eeprom, stage, oui_prefix, addresses, at, ip_device, power_failures, last, begun>>
-----------------------------------------------------------------------------
(* Crc32, whose value is a sequence of eight nibbles, the lowest first *)

Nibble == 0 .. 15
Bit(n, k) == (n \div 2 ^ k) % 2
Xor == [a \in Nibble, b \in Nibble |->
          LET X(k) == 2 ^ k * ((Bit(a, k) + Bit(b, k)) % 2) IN X(0) + X(1) + X(2) + X(3)]

kCrcTable ==
    <<<<0,0,0,0,0,0,0,0>>, <<4,6,0,1,7,11,13,1>>,
      <<8,12,0,2,14,6,11,3>>, <<12,10,0,3,9,13,6,2>>,
      <<0,9,1,4,12,13,6,7>>, <<4,15,1,5,11,6,11,6>>,
      <<8,5,1,6,2,11,13,4>>, <<12,3,1,7,5,0,0,5>>,
      <<0,2,3,8,8,11,13,14>>, <<4,4,3,9,15,0,0,15>>,
      <<8,14,3,10,6,13,6,13>>, <<12,8,3,11,1,6,11,12>>,
      <<0,11,2,12,4,6,11,9>>, <<4,13,2,13,3,13,6,8>>,
      <<8,7,2,14,10,0,0,10>>, <<12,1,2,15,13,11,13,11>>>>

GetCrcTableEntry(key) == kCrcTable[key + 1]

\* One of the two steps of appendByte: table[value ^ v] ^ (value >> 4).
AppendNibble(value, v) ==
    LET entry == GetCrcTableEntry(Xor[value[1], v])
    IN  [i \in 1 .. 8 |-> Xor[entry[i], IF i < 8 THEN value[i + 1] ELSE 0]]

appendByte(value, v) ==
    LET b == AppendNibble(AppendNibble(value, v % 16), v \div 16)
    IN  [i \in 1 .. 8 |-> 15 - b[i]]

Crc32(bytes) ==
    LET value[n \in 0 .. Len(bytes)] ==
            IF n = 0 THEN [i \in 1 .. 8 |-> 15] ELSE appendByte(value[n - 1], bytes[n])
    IN  value[Len(bytes)]

\* As EEPROM.put stores it.
CrcBytes(bytes) ==
    LET value == Crc32(bytes)
    IN  [i \in 1 .. 4 |-> value[2 * i - 1] + 16 * value[2 * i]]
-----------------------------------------------------------------------------
(* Generating *)

\* Locally administered, and not multicast.
toOuiUnicast(macByte1) == 4 * (macByte1 \div 4) + 2

OuiPrefix(abc) == [abc EXCEPT ![1] = toOuiUnicast(@)]

generateAddress(prefix, drawn) ==
    [i \in 1 .. 6 |->
        IF prefix # {} /\ i <= 3 THEN OuiPrefix(CHOOSE p \in prefix : TRUE)[i]
        ELSE IF i = 1 THEN toOuiUnicast(drawn[i]) ELSE drawn[i]]

pickIPAddress(c, d) == <<169, 254, c + 1, d>>

generateAddresses(prefix, draw) ==
    [mac |-> generateAddress(prefix, draw.mac), ip |-> pickIPAddress(draw.c, draw.d)]

\* For the properties: mac has the prefix.
StartsWith(mac, prefix) == \A p \in prefix : SubSeq(mac, 1, 3) = OuiPrefix(p)
-----------------------------------------------------------------------------
(* EEPROM *)

CrcOf(ip, mac) == CrcBytes(ip \o mac)

\* What save writes, in this order.
Image(a) == kName \o a.ip \o a.mac \o CrcOf(a.ip, a.mac)
Size == Len(kName) + 14

Cells(first, count) == [i \in 1 .. count |-> eeprom[first + i - 1]]
verifyName == Cells(1, Len(kName)) = kName
StoredIp   == Cells(Len(kName) + 1, 4)
StoredMac  == Cells(Len(kName) + 5, 6)
StoredCrc  == Cells(Len(kName) + 11, 4)

\* Mutant: the bytes are compared with the ones that were asked for.
hasRawOuiPrefix(mac, prefix) == \A p \in prefix : \A i \in 1 .. 3 : mac[i] = p[i]

hasOuiPrefix(mac, prefix) ==
    \A p \in prefix : \A i \in 1 .. 3 : mac[i] = OuiPrefix(p)[i]

\* Mutant: the CRC is not looked at.
LoadsUnchecked(prefix) == verifyName /\ hasOuiPrefix(StoredMac, prefix)

\* load is true.
Loads(prefix) ==
    /\ verifyName
    /\ StoredCrc = CrcOf(StoredIp, StoredMac)
    /\ hasOuiPrefix(StoredMac, prefix)

\* A sketch starts and asks for a prefix, or for none.
SetUp(prefix) ==
    /\ stage = "off"
    /\ stage' = "load"
    /\ oui_prefix' = prefix
    /\ last' = {used \in last : StartsWith(used.mac, prefix)}
    /\ UNCHANGED <<eeprom, addresses, at, ip_device, power_failures, begun>>

\* loadOrGenAndSave, up to save.
loadOrGenerate ==
    /\ stage = "load"
    /\ \/ /\ Loads(oui_prefix)
          /\ addresses' = [ip |-> StoredIp, mac |-> StoredMac]
          /\ stage' = "begin"
          /\ UNCHANGED <<at, begun>>
       \/ /\ ~Loads(oui_prefix)
          /\ \E draw \in Draws : addresses' = generateAddresses(oui_prefix, draw)
          /\ begun' = begun \union {addresses'}
          /\ at' = 1
          /\ stage' = "save"
    /\ UNCHANGED <<eeprom, oui_prefix, ip_device, power_failures, last>>

\* saveName, SaveableIPAddress::save, putBytes and Crc32::put, a cell at a time.
save ==
    /\ stage = "save" /\ at <= Size
    /\ eeprom' = [eeprom EXCEPT ![at] = Image(addresses)[at]]
    /\ at' = at + 1
    /\ UNCHANGED <<stage, oui_prefix, addresses, ip_device, power_failures, last, begun>>

Saved ==
    /\ stage = "save" /\ at > Size
    /\ stage' = "begin"
    /\ begun' = {addresses}
    /\ UNCHANGED <<eeprom, oui_prefix, addresses, at, ip_device, power_failures, last>>

\* A cell that is being written is erased first.
PowerFails ==
    /\ stage # "off"
    /\ stage' = "off"
    /\ IF stage = "save" /\ at <= Size
         THEN /\ power_failures < MaxPowerFailures
              /\ power_failures' = power_failures + 1
              /\ eeprom' \in {eeprom, [eeprom EXCEPT ![at] = 255]}
         ELSE UNCHANGED <<power_failures, eeprom>>
    /\ network' = << >>
    /\ addresses' = << >>
    /\ oui_prefix' = {}
    /\ at' = 0
    /\ using_dhcp_' = FALSE
    /\ UNCHANGED <<last, begun>>
-----------------------------------------------------------------------------
(* IpDevice::InitializeNetworking *)

\* Ethernet.begin(mac) gets a lease.
BeginDhcp ==
    /\ stage = "begin"
    /\ stage' = "up"
    /\ using_dhcp_' = TRUE
    /\ network' = [mac |-> addresses.mac]
    /\ last' = {addresses}
    /\ UNCHANGED <<eeprom, oui_prefix, addresses, at, power_failures, begun>>

\* It gets none, and the chip has the MAC address: there is hardware.
subnet == <<255, 255, 0, 0>>
And(a, mask) == IF mask = 255 THEN a ELSE 0
SetLowBit(n) == 2 * (n \div 2) + 1
Gateway(ip) ==
    [[i \in 1 .. 4 |-> And(ip[i], subnet[i])] EXCEPT ![4] = SetLowBit(@)]

BeginLinkLocal ==
    /\ stage = "begin"
    /\ stage' = "up"
    /\ using_dhcp_' = FALSE
    /\ network' = [mac |-> addresses.mac, ip |-> addresses.ip, subnet |-> subnet,
                   gateway |-> Gateway(addresses.ip)]
    /\ last' = {addresses}
    /\ UNCHANGED <<eeprom, oui_prefix, addresses, at, power_failures, begun>>

NoHardware ==
    /\ stage = "begin"
    /\ stage' = "no_hardware"
    /\ last' = {addresses}
    /\ UNCHANGED <<eeprom, oui_prefix, addresses, at, ip_device, power_failures, begun>>

AddressesInit ==
    /\ eeprom \in InitialCells
    /\ stage = "off"
    /\ oui_prefix = {}
    /\ addresses = << >>
    /\ at = 0
    /\ using_dhcp_ = FALSE
    /\ network = << >>
    /\ power_failures = 0
    /\ last = {}
    /\ begun = IF Loads({}) THEN {[ip |-> StoredIp, mac |-> StoredMac]} ELSE {}

AddressesNext ==
    \/ \E prefix \in {{}} \union {{p} : p \in OuiPrefixes} : SetUp(prefix)
    \/ loadOrGenerate \/ save \/ Saved
    \/ BeginDhcp \/ BeginLinkLocal \/ NoHardware
    \/ PowerFails

AddressesSpec == AddressesInit /\ [][AddressesNext]_addressVars
-----------------------------------------------------------------------------
(***************************************************************************)
(* Properties                                                                *)
(***************************************************************************)

\* Wherever power failed in earlier saves, the addresses that the network is
\* brought up with are a pair that was generated as one, with the prefix that
\* is asked for: load accepts no mixture of two saves and no cell lost.
NeverAMixture ==
    stage = "begin" => addresses \in begun /\ StartsWith(addresses.mac, oui_prefix)

\* Once used, the addresses are the same after every restart, until a sketch
\* asks for another prefix.
SameAfterRestart ==
    stage = "begin" => \A used \in last : addresses = used

\* The assertions after save, in loadOrGenAndSave and Crc32::put: what was saved
\* can be loaded.
SavedLoads ==
    stage = "save" /\ at > Size =>
        Loads(oui_prefix) /\ addresses = [ip |-> StoredIp, mac |-> StoredMac]

\* The EEPROM keeps the addresses whole: what save completed is found again, and
\* what it did not complete is not taken for addresses.
StoredWhole == NeverAMixture /\ SavedLoads
-----------------------------------------------------------------------------
(* What no checksum can exclude *)

\* The cells with the addresses and the CRC, 1 to 10 and 11 to 14, as they were at
\* first, and what the saves of some addresses may have put there: a byte of them or
\* their CRC, or 255, if power failed while the cell was written.
Originals == {[i \in 1 .. 14 |-> cells[Len(kName) + i]] : cells \in InitialCells}
Written(i, saved) == {255} \union {Image(a)[Len(kName) + i] : a \in saved}

\* A save writes from the first cell on, so what was there at first is left from
\* some cell on.
LeftBehind(k, first, saved) ==
    [i \in 1 .. 14 |-> IF i <= k THEN Written(i, saved) ELSE {first[i]}]

\* Addresses that were never generated as one can be pieced together from what is
\* left behind by these saves, and happen to have a CRC that can be too.
SomeMixtureMatches(saved) ==
    \E first \in Originals, k \in 0 .. 14 :
        LET cell == LeftBehind(k, first, saved)
        IN  \E ip \in cell[1] \X cell[2] \X cell[3] \X cell[4],
               mac \in cell[5] \X cell[6] \X cell[7] \X cell[8] \X cell[9] \X cell[10] :
                /\ \A i \in 1 .. 4 : CrcOf(ip, mac)[i] \in cell[10 + i]
                /\ [ip |-> ip, mac |-> mac] \notin saved
=============================================================================
