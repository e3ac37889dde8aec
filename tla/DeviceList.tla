------------------------------- MODULE DeviceList -------------------------------
(***************************************************************************)
(* AlpacaDevices::Initialize (alpaca_devices.cpp): the check of the list of  *)
(* devices a sketch hands to the server, over every short list.  A list      *)
(* holds pointers; two of them may be equal, and two devices may have the    *)
(* same type, number or unique id.                                           *)
(***************************************************************************)
EXTENDS Naturals, Sequences, Functions

CONSTANTS
    Pointers,           \* to the devices of the sketch
    NULL,
    EDeviceTypes, DeviceNumbers, UniqueIds,
    MaxDevices          \* bound: entries of a list

ASSUME DeviceListAssumption ==
    NULL \notin Pointers /\ MaxDevices \in Nat /\ DeviceNumbers \subseteq Nat

VARIABLES
    device,             \* the DeviceInfo behind each pointer
    devices_,
    result,             \* what Initialize returned, or "none"
    initialized         \* the devices whose Initialize was called, in order

deviceListVars == <<device, devices_, result, initialized>>

Lists == UNION {[1 .. n -> Pointers \cup {NULL}] : n \in 0 .. MaxDevices}

At(i) == device[devices_[i]]

\* The inner loop ends at the device itself and at a device of another type.
Breaks(i, j) == devices_[i] = devices_[j] \/ At(i).device_type # At(j).device_type

Compared(i, j) == i < j /\ \A k \in (i + 1) .. (j - 1) : ~Breaks(i, k)

\* Mutant: the numbers are compared before the types.
RejectedAnyType(i, j) ==
    \/ devices_[i] = devices_[j]
    \/ At(i).unique_id = At(j).unique_id
    \/ At(i).device_number = At(j).device_number

Rejected(i, j) ==
    \/ devices_[i] = devices_[j]
    \/ At(i).unique_id = At(j).unique_id
    \/ /\ At(i).device_type = At(j).device_type
       /\ At(i).device_number = At(j).device_number

Valid ==
    /\ NULL \notin Range(devices_)
    /\ \A i, j \in DOMAIN devices_ : Compared(i, j) => ~Rejected(i, j)

Initialize ==
    /\ result = "none"
    /\ result' = IF Valid THEN "true" ELSE "false"
    /\ initialized' = IF Valid THEN devices_ ELSE << >>
    /\ UNCHANGED <<device, devices_>>

\* The board is reset.
Restart ==
    /\ result # "none"
    /\ result' = "none" /\ initialized' = << >>
    /\ UNCHANGED <<device, devices_>>

DeviceListInit ==
    /\ device \in [Pointers -> [device_type : EDeviceTypes, device_number : DeviceNumbers,
                                unique_id : UniqueIds]]
    /\ devices_ \in Lists
    /\ result = "none" /\ initialized = << >>

DeviceListNext == Initialize \/ Restart

DeviceListSpec == DeviceListInit /\ [][DeviceListNext]_deviceListVars
-----------------------------------------------------------------------------
SameAddress(i, j) ==
    At(i).device_type = At(j).device_type /\ At(i).device_number = At(j).device_number

\* What the comparison of neighbours finds.  A list that is refused has a null
\* pointer or two entries that clash; in one that is accepted, two devices of a
\* type with none of another type between them have different addresses, although
\* the search from each of them stops early.
ListChecked ==
    /\ result = "false" =>
           \/ NULL \in Range(devices_)
           \/ \E i, j \in DOMAIN devices_ :
                  i # j /\ (SameAddress(i, j) \/ At(i).unique_id = At(j).unique_id)
    /\ result = "true" =>
           /\ NULL \notin Range(devices_)
           /\ \A i, j \in DOMAIN devices_ :
                  i < j /\ (\A k \in i .. j : At(k).device_type = At(i).device_type)
                      => ~SameAddress(i, j)

\* alpaca_devices.cpp:19: "we make sure they're valid": "None of the pointers are
\* nullptr.  No two devices of the same type have the same device_number".
AcceptedAreValid ==
    result = "true" =>
        /\ NULL \notin Range(devices_)
        /\ \A i, j \in DOMAIN devices_ : i # j => ~SameAddress(i, j)
=============================================================================
