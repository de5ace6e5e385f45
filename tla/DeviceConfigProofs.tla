------------------------- MODULE DeviceConfigProofs -------------------------
(***************************************************************************)
(* Proofs about DeviceConfig, for every set of addresses and MAC           *)
(* addresses, with and without failing IAP commands, and any number of     *)
(* crashes.                                                                *)
(***************************************************************************)
EXTENDS DeviceConfig, TLAPS

\* The locations at which local_net is on its way to flash.
Saving == {"erase", "copy", "compare"}

\* The types of the variables.
CfgTypes ==
  /\ flash \in {Erased, Garbled} \cup {Written(net) : net \in Configs}
  /\ local_net \in Configs /\ netif_addr \in Addrs
  /\ device \in [kind : Kinds, net : Configs]
  /\ spc \in {"boot", "recv", "handle", "serial"} \cup Saving
  /\ garbled \in BOOLEAN /\ failed \in BOOLEAN /\ crashes \in 0..Crashes

\* The MAC address of this device, with the digits of its serial number.
OwnMac == [base |-> DefBase, tail |-> "uid"]

\* Before local_net is written, its MAC address has the digits of the serial number:
\* without this, IdentityKept says nothing about what the next write puts into flash.
SavesOwnMac == ~garbled /\ spc \in Saving => local_net.mac = OwnMac

\* Without a crash no start reads a garbled sector.
BootsFromGood == crashes = 0 /\ spc = "boot" => flash # Garbled

IdentityInv == CfgTypes /\ IdentityKept /\ SavesOwnMac /\ BootsFromGood

-----------------------------------------------------------------------------
\* The constants are configurations, and the three states of the sector are different.
LEMMA ConfigFacts ==
  /\ Default \in Configs /\ Default.addr = DefAddr /\ Default.mac.base = DefBase
  /\ Erased # Garbled /\ Erased.state = "erased" /\ Garbled.state = "garbled"
  /\ \A net \in Configs : /\ Written(net) \notin {Erased, Garbled} /\ Written(net).net = net
                          /\ Written(net).state = "written"
BY CfgAssumption DEF Default, Configs, Macs, Erased, Garbled, Written

\* What a start reads from a sector that is not garbled.
LEMMA LoadedFacts ==
  ASSUME CfgTypes, flash # Garbled
  PROVE  /\ Loaded(flash) \in Configs
         /\ flash = Erased => Loaded(flash) = Default
         /\ flash # Erased => flash.state = "written" /\ Loaded(flash) = flash.net
BY ConfigFacts DEF CfgTypes, Loaded

\* The digits of the serial number replace the last two of the MAC address.
LEMMA SerialDigits ==
  ASSUME NEW net \in Configs
  PROVE  /\ [net EXCEPT !.mac.tail = "uid"] \in Configs
         /\ [net EXCEPT !.mac.tail = "uid"].mac = [base |-> net.mac.base, tail |-> "uid"]
BY DEF Configs, Macs

-----------------------------------------------------------------------------
\* Every step keeps the types.
LEMMA CfgTypeStep == CfgTypes /\ [Next]_vars => CfgTypes'
<1> SUFFICES ASSUME CfgTypes, [Next]_vars PROVE CfgTypes'
  OBVIOUS
<1> USE DEF CfgTypes, Saving
<1>1. CASE Boot
  <2>1. PICK net \in Configs : local_net' = net /\ netif_addr' = net.addr
    BY <1>1, LoadedFacts DEF Boot
  <2>2. netif_addr' \in Addrs /\ device' \in [kind : Kinds, net : Configs]
    BY <1>1, <2>1, ConfigFacts DEF Boot, Configs, Kinds
  <2> QED  BY <1>1, <2>1, <2>2 DEF Boot
<1>2. CASE RecvAny
  <2>1. PICK kind \in Kinds, net \in Configs \cup {device.net} : Recv(kind, net)
    BY <1>2 DEF RecvAny
  <2> QED  BY <2>1 DEF Recv
<1>3. CASE HandleInfo
  <2>1. device' \in [kind : Kinds, net : Configs]
    BY <1>3 DEF HandleInfo, get_dev_info, Kinds
  <2> QED  BY <1>3, <2>1 DEF HandleInfo
<1>4. CASE HandleSet
  BY <1>4 DEF HandleSet
<1>5. CASE SaveSerial
  BY <1>5, SerialDigits DEF SaveSerial, SaveFails
<1>6. CASE SaveErase
  BY <1>6 DEF SaveErase, SaveFails
<1>7. CASE SaveCopy
  <2>1. flash' \in {flash, Garbled, Written(local_net)}
    BY <1>7 DEF SaveCopy, SavedBuffer, Miswritten
  <2>2. /\ spc' \in {"compare", "recv"} /\ failed' \in {failed, TRUE}
        /\ UNCHANGED <<local_net, netif_addr, device, garbled, crashes>>
    BY <1>7 DEF SaveCopy, SaveFails
  <2> QED  BY <2>1, <2>2
<1>8. CASE SaveCompare
  BY <1>8 DEF SaveCompare, SaveFails, NVIC_SystemReset
<1>9. CASE Crash
  BY <1>9, CfgAssumption DEF Crash
<1>10. CASE UNCHANGED vars
  BY <1>10 DEF vars
<1> QED
  BY <1>1, <1>2, <1>3, <1>4, <1>5, <1>6, <1>7, <1>8, <1>9, <1>10 DEF Next, vDeviceInfo

\* The initial state has the types.
LEMMA CfgTypeInit == Init => CfgTypes
<1> SUFFICES ASSUME Init PROVE CfgTypes
  OBVIOUS
<1>1. device \in [kind : Kinds, net : Configs]
  BY ConfigFacts DEF Init, Kinds
<1>2. /\ flash \in {Erased, Garbled} /\ local_net \in Configs /\ netif_addr \in Addrs
      /\ spc = "boot" /\ crashes \in 0..Crashes
  BY ConfigFacts, CfgAssumption DEF Init
<1>3. garbled \in BOOLEAN /\ failed \in BOOLEAN
  BY Zenon DEF Init
<1> QED  BY <1>1, <1>2, <1>3 DEF CfgTypes

LEMMA CfgTyped == Spec => []CfgTypes
BY CfgTypeInit, CfgTypeStep, PTL DEF Spec

-----------------------------------------------------------------------------
\* While requests are served, RAM, the network interface and flash agree: what
\* get_dev_info reports is what the next start uses, through restarts and any number of
\* crashes and failing IAP commands, unless the sector is garbled or set_dev_net has failed
\* since the start.
THEOREM RamIsFlash == Spec => []RamAgrees
<1>1. Init => RamAgrees
  BY DEF Init, RamAgrees
<1>2. CfgTypes /\ RamAgrees /\ [Next]_vars => RamAgrees'
  <2> SUFFICES ASSUME CfgTypes, RamAgrees, [Next]_vars PROVE RamAgrees'
    OBVIOUS
  <2>1. CASE Boot
    BY <2>1 DEF Boot, RamAgrees
  <2>2. CASE RecvAny \/ HandleInfo
    BY <2>2 DEF RecvAny, Recv, HandleInfo, RamAgrees
  <2>3. CASE HandleSet
    BY <2>3 DEF HandleSet, RamAgrees
  <2>4. CASE SaveSerial \/ SaveErase \/ SaveCopy \/ SaveCompare
    BY <2>4 DEF SaveSerial, SaveErase, SaveCopy, SaveCompare, SaveFails, NVIC_SystemReset,
                RamAgrees
  <2>5. CASE Crash
    BY <2>5 DEF Crash, RamAgrees
  <2>6. CASE UNCHANGED vars
    BY <2>6 DEF vars, RamAgrees
  <2> QED  BY <2>1, <2>2, <2>3, <2>4, <2>5, <2>6 DEF Next, vDeviceInfo
<1> QED  BY <1>1, <1>2, CfgTyped, PTL DEF Spec

-----------------------------------------------------------------------------
\* The identity of the device survives every request and every crash: local_net keeps
\* the base of the device's MAC address and what flash holds has the digits of its
\* serial number, until a start has read a sector that an erase or a write has left
\* garbled, being cut short by a crash or failing.
THEOREM IdentitySurvives == Spec => []IdentityKept
<1>1. Init => IdentityInv
  BY CfgTypeInit, ConfigFacts DEF Init, IdentityInv, IdentityKept, SavesOwnMac, Saving, BootsFromGood
<1>2. IdentityInv /\ [Next]_vars => IdentityInv'
  <2> SUFFICES ASSUME IdentityInv, [Next]_vars PROVE IdentityInv'
    OBVIOUS
  <2>0. CfgTypes /\ garbled \in BOOLEAN /\ crashes \in Nat
    BY CfgAssumption DEF IdentityInv, CfgTypes
  <2>a. (garbled => crashes > 0)' /\ BootsFromGood'
    <3>1. CASE Boot
      BY <2>0, <3>1 DEF Boot, IdentityInv, IdentityKept, BootsFromGood
    <3>2. CASE RecvAny \/ HandleInfo \/ HandleSet \/ SaveSerial \/ SaveErase \/ SaveCopy \/ SaveCompare
      <4>1. garbled' = garbled /\ crashes' = crashes /\ (spc' = "boot" => SaveCompare /\ flash # Garbled /\ flash' = flash)
        BY <3>2 DEF RecvAny, Recv, HandleInfo, HandleSet, SaveSerial, SaveErase, SaveCopy, SaveCompare, SaveFails
      <4> QED
        BY <4>1 DEF IdentityInv, IdentityKept, BootsFromGood
    <3>3. CASE Crash
      BY <2>0, <3>3 DEF Crash, BootsFromGood
    <3>4. CASE UNCHANGED vars
      BY <3>4 DEF vars, IdentityInv, IdentityKept, BootsFromGood
    <3> QED
      BY <3>1, <3>2, <3>3, <3>4 DEF Next, vDeviceInfo
  <2> SUFFICES ASSUME ~garbled' PROVE IdentityKept' /\ SavesOwnMac'
    BY <2>a, CfgTypeStep DEF IdentityInv, IdentityKept, SavesOwnMac
  <2>1. CASE Boot
    <3>1. ~garbled /\ flash # Garbled /\ local_net' = Loaded(flash) /\ flash' = flash
          /\ spc' \notin Saving
      BY <2>0, <2>1 DEF Boot, Saving
    <3>2. local_net'.mac.base = DefBase
      <4>1. CASE flash = Erased
        BY <2>0, <3>1, <4>1, LoadedFacts, ConfigFacts
      <4>2. CASE flash # Erased
        <5>1. flash.net.mac = OwnMac /\ local_net' = flash.net
          BY <2>0, <3>1, <4>2, LoadedFacts DEF IdentityInv, IdentityKept, OwnMac
        <5> QED  BY <5>1 DEF OwnMac
      <4> QED  BY <4>1, <4>2
    <3> QED  BY <3>1, <3>2 DEF IdentityInv, IdentityKept, SavesOwnMac
  <2>2. CASE RecvAny \/ HandleInfo
    BY <2>2 DEF RecvAny, Recv, HandleInfo, IdentityInv, IdentityKept, SavesOwnMac, Saving
  <2>3. CASE HandleSet
    <3>1. local_net'.mac = local_net.mac
      BY <2>3 DEF HandleSet, MacMatches
    <3> QED  BY <2>3, <3>1 DEF HandleSet, IdentityInv, IdentityKept, SavesOwnMac, Saving
  <2>4. CASE SaveSerial
    <3>1. CASE local_net' = [local_net EXCEPT !.mac.tail = "uid"]
      <4>1. local_net'.mac = [base |-> local_net.mac.base, tail |-> "uid"] /\ ~garbled
            /\ flash' = flash
        BY <2>0, <2>4, <3>1, SerialDigits DEF CfgTypes, SaveSerial, SaveFails
      <4> QED
        BY <4>1 DEF IdentityInv, IdentityKept, SavesOwnMac, OwnMac
    <3>2. CASE local_net' = local_net /\ spc' = "recv"
      BY <2>4, <3>2 DEF SaveSerial, SaveFails, IdentityInv, IdentityKept, SavesOwnMac, Saving
    <3> QED  BY <2>4, <3>1, <3>2 DEF SaveSerial, SaveFails
  <2>5. CASE SaveErase
    BY <2>5, ConfigFacts
       DEF SaveErase, SaveFails, IdentityInv, IdentityKept, SavesOwnMac, Saving
  <2>6. CASE SaveCopy
    <3>1. ~garbled /\ local_net' = local_net /\ spc = "copy"
      BY <2>0, <2>6 DEF SaveCopy, SaveFails
    <3>2. local_net.mac = OwnMac
      BY <3>1 DEF IdentityInv, SavesOwnMac, Saving
    <3>3. flash' \in {flash, Garbled, Written(local_net)} /\ local_net \in Configs
      BY <2>0, <2>6 DEF SaveCopy, SavedBuffer, Miswritten, CfgTypes
    <3>4. flash' = flash \/ flash'.state # "written" \/ flash'.net = local_net
      BY <3>3, ConfigFacts
    <3> QED  BY <3>1, <3>2, <3>4 DEF IdentityInv, IdentityKept, SavesOwnMac, OwnMac
  <2>7. CASE SaveCompare
    BY <2>7 DEF SaveCompare, SaveFails, IdentityInv, IdentityKept, SavesOwnMac, Saving,
                NVIC_SystemReset
  <2>8. CASE Crash
    BY <2>8, ConfigFacts DEF Crash, IdentityInv, IdentityKept, SavesOwnMac, Saving
  <2>9. CASE UNCHANGED vars
    BY <2>9 DEF vars, IdentityInv, IdentityKept, SavesOwnMac
  <2> QED
    BY <2>1, <2>2, <2>3, <2>4, <2>5, <2>6, <2>7, <2>8, <2>9 DEF Next, vDeviceInfo
<1> QED  BY <1>1, <1>2, PTL DEF Spec, IdentityInv

=============================================================================
