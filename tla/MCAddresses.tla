------------------------------- MODULE MCAddresses -------------------------------
(* Addresses for TLC: the name and the prefix are those of the sources;         *)
(* the EEPROM is new or has addresses that another program has put there.      *)
EXTENDS Addresses

MCName == <<97, 100, 100, 114, 115>>
MCPrefixes == {<<83, 117, 118>>}
MCDraws ==
    {[mac |-> <<0, 0, 0, 0, 0, 0>>, c |-> 0, d |-> 1],
     [mac |-> <<255, 18, 52, 86, 120, 154>>, c |-> 253, d |-> 255]}
MCOthersIp == <<10, 0, 0, 7>>
MCOthersMac == <<2, 0, 0, 0, 0, 1>>
MCInitialCells ==
    {[i \in 1 .. 19 |-> 255],
     MCName \o MCOthersIp \o MCOthersMac \o CrcOf(MCOthersIp, MCOthersMac)}
=============================================================================
