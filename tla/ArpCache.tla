------------------------------- MODULE ArpCache -------------------------------
(***************************************************************************)
(* The cache of AddressResolutionProtocol: entries in the order in which   *)
(* they were learnt, the first that matches counts.  Nothing is ever       *)
(* removed, and a full cache learns nothing more.                          *)
(***************************************************************************)
EXTENDS Naturals, Sequences

CONSTANT CacheSize      \* entries there is room for (128)

ASSUME CacheAssumption == CacheSize \in Nat

NoMac == "none"         \* in the code the broadcast address

Entry(ip, mac) == [ip |-> ip, mac |-> mac]

Entries(cache, ip) == {i \in DOMAIN cache : cache[i].ip = ip}

(* Mutant: an address that is known already is added once more.            *)
AddMacAddressAgain(cache, ip, mac) ==
    IF Len(cache) >= CacheSize THEN cache ELSE Append(cache, Entry(ip, mac))

(* From a request: the entries of that address are renewed, or there is a  *)
(* new one; neither if the cache is full.                                  *)
AddMacAddress(cache, ip, mac) ==
    IF Len(cache) >= CacheSize THEN cache
    ELSE IF Entries(cache, ip) = {} THEN Append(cache, Entry(ip, mac))
    ELSE [i \in DOMAIN cache |->
             IF cache[i].ip = ip THEN Entry(ip, mac) ELSE cache[i]]

(* Mutant: only addresses that are known already are renewed.               *)
AddResponseRenews(cache, ip, mac) ==
    IF Entries(cache, ip) = {} THEN cache ELSE AddMacAddress(cache, ip, mac)

(* From a response: always a new entry, if there is room.                  *)
AddResponse(cache, ip, mac) ==
    IF Len(cache) >= CacheSize THEN cache ELSE Append(cache, Entry(ip, mac))

GetMACFromCache(cache, ip) ==
    IF Entries(cache, ip) = {} THEN NoMac
    ELSE cache[CHOOSE i \in Entries(cache, ip) :
                  \A j \in Entries(cache, ip) : i <= j].mac
=============================================================================
