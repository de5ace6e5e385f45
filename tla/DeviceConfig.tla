---------------------------- MODULE DeviceConfig ----------------------------
(***************************************************************************)
(* The network configuration: vDeviceInfo answers requests of a search tool *)
(* (app/src/net.c), set_dev_net and vDeviceInfoSave write a new             *)
(* configuration to flash (app/src/flash.c) and restart the processor,      *)
(* vDeviceInfoInit reads it at the next start.                              *)
(*                                                                         *)
(* A configuration is a set of addresses and a MAC address string, of which *)
(* the last two digits matter: they are the ones vDeviceInfoSave computes   *)
(* from the serial number ("uid").  The flash sector is erased and then     *)
(* written.  An IAP command that reports an error may have done nothing or a *)
(* part of its work, and a write that reports success may still have left   *)
(* something else than the buffer, which is what the Compare is for.  Power  *)
(* may fail between the steps and during each, and the IAP commands run with *)
(* interrupts enabled, which can end in a fault that the watchdog turns     *)
(* into a restart: both are Crash.                                          *)
(***************************************************************************)
EXTENDS Integers

CONSTANTS
  Addrs,     \* the sets of addresses (ip_addr, gateway, ..., dns2)
  DefAddr,   \* the one local_net is initialised with
  MacBases,  \* MAC addresses without the last two digits
  DefBase,   \* the one of MAC_ADDR
  IapFails,  \* can an IAP command fail?  subset of BOOLEAN
  Crashes    \* bound: crashes in a behaviour

ASSUME CfgAssumption == /\ DefAddr \in Addrs /\ DefBase \in MacBases
                        /\ FALSE \in IapFails /\ IapFails \subseteq BOOLEAN
                        /\ Crashes \in Nat

VARIABLES
  flash,      \* the sector: erased, garbled, or holding a configuration
  local_net,  \* the configuration in RAM
  netif_addr, \* the addresses the network interface was given at the start
  device,     \* the task's message buffer: kind of request and configuration
  spc,        \* the task: location
  garbled,    \* ghost: has a start read a garbled sector?
  failed,     \* ghost: has set_dev_net failed since the start?
  crashes     \* counter for the bound

vars == <<flash, local_net, netif_addr, device, spc, garbled, failed, crashes>>

Macs    == [base : MacBases, tail : {"def", "uid"}]
Configs == [addr : Addrs, mac : Macs]
Default == [addr |-> DefAddr, mac |-> [base |-> DefBase, tail |-> "def"]]
Erased  == [state |-> "erased", net |-> Default]
Garbled == [state |-> "garbled", net |-> Default]
Written(net) == [state |-> "written", net |-> net]
Kinds   == {"REQUEST_DEV_INFO", "REQUEST_DEV_SET", "other"}

-----------------------------------------------------------------------------
MutAnyMac(net, mine) == TRUE                  \* the comparison forgotten
MutNotSaved(net) == Default                   \* the wrong buffer is written
MutNoReset == "recv"                          \* no restart after the save

\* strcmp(net->mac_addr, local_net.mac_addr) == 0
MacMatches(net, mine) == net.mac = mine.mac

\* What vDeviceInfoInit leaves in local_net, which holds the defaults: flash is
\* taken unless the first byte of its MAC address is 0xFF.  A garbled sector may
\* have either.
Loaded(f) == IF f = Erased THEN Default ELSE f.net

\* The buffer that is written to flash.
SavedBuffer(net) == net

\* NVIC_SystemReset()
NVIC_SystemReset == "boot"

-----------------------------------------------------------------------------
\* A device that was never configured, at power on.
Init ==
  /\ flash = Erased /\ local_net = Default /\ netif_addr = DefAddr
  /\ device = [kind |-> "other", net |-> Default]
  /\ spc = "boot"
  /\ garbled = FALSE /\ failed = FALSE /\ crashes = 0

\* main: vDeviceInfoInit; vEthernetDaemon gives the addresses to netif_add;
\* vDeviceInfo clears its buffer and waits.
Boot ==
  /\ spc = "boot" /\ spc' = "recv"
  /\ \E net \in (IF flash = Garbled THEN Configs ELSE {Loaded(flash)}) :
       local_net' = net /\ netif_addr' = net.addr
  /\ device' = [kind |-> "other", net |-> Default]
  /\ failed' = FALSE /\ garbled' = (garbled \/ flash = Garbled)
  /\ UNCHANGED <<flash, crashes>>

\* recvfrom: a message; a short one leaves the rest of the buffer as it was.
Recv(kind, net) ==
  /\ spc = "recv" /\ spc' = "handle"
  /\ device' = [kind |-> kind, net |-> net]
  /\ UNCHANGED <<flash, local_net, netif_addr, garbled, failed, crashes>>

\* The buffer with local_net and the header of an answer, one of the other kinds.
get_dev_info == [kind |-> "other", net |-> local_net]

\* REQUEST_DEV_INFO: the answer is built and sent.  Another header: ignored.
HandleInfo ==
  /\ spc = "handle" /\ spc' = "recv"
  /\ device.kind # "REQUEST_DEV_SET"
  /\ device' = IF device.kind = "other" THEN device ELSE get_dev_info
  /\ UNCHANGED <<flash, local_net, netif_addr, garbled, failed, crashes>>

\* REQUEST_DEV_SET: set_dev_net compares the MAC address ...
HandleSet ==
  /\ spc = "handle" /\ device.kind = "REQUEST_DEV_SET"
  /\ IF MacMatches(device.net, local_net)
       THEN spc' = "serial" /\ local_net' = device.net
       ELSE spc' = "recv" /\ UNCHANGED local_net
  /\ UNCHANGED <<flash, netif_addr, device, garbled, failed, crashes>>

\* What a write that reports success can leave instead of the buffer.
Miswritten == IF TRUE \in IapFails THEN {Garbled} ELSE {}

\* A step of vDeviceInfoSave fails: -1, back to recvfrom.  local_net stays changed.
SaveFails ==
  /\ TRUE \in IapFails
  /\ spc' = "recv" /\ failed' = TRUE
  /\ UNCHANGED <<local_net, netif_addr, device, garbled, crashes>>

\* ... vDeviceInfoSave: ReadDeviceSerialNum, the digits of the MAC address
SaveSerial ==
  /\ spc = "serial"
  /\ \/ /\ spc' = "erase" /\ local_net' = [local_net EXCEPT !.mac.tail = "uid"]
        /\ UNCHANGED <<flash, netif_addr, device, garbled, failed, crashes>>
     \/ SaveFails /\ UNCHANGED flash

\* EraseSector: on an error the sector is as it was, erased, or erased in part.
SaveErase ==
  /\ spc = "erase"
  /\ \/ /\ spc' = "copy" /\ flash' = Erased
        /\ UNCHANGED <<local_net, netif_addr, device, garbled, failed, crashes>>
     \/ SaveFails /\ flash' \in {flash, Erased, Garbled}

\* CopyRAM2Flash: on an error nothing or a part is written.  On success too the
\* sector need not hold the buffer; Compare will tell.
SaveCopy ==
  /\ spc = "copy"
  /\ \/ /\ spc' = "compare" /\ flash' \in {Written(SavedBuffer(local_net))} \cup Miswritten
        /\ UNCHANGED <<local_net, netif_addr, device, garbled, failed, crashes>>
     \/ SaveFails /\ flash' \in {flash, Garbled}

\* Compare, which fails when the sector is not the buffer, or by itself; then
\* NVIC_SystemReset
SaveCompare ==
  /\ spc = "compare"
  /\ \/ /\ flash # Garbled /\ spc' = NVIC_SystemReset
        /\ UNCHANGED <<local_net, netif_addr, device, garbled, failed, crashes>>
     \/ SaveFails
  /\ UNCHANGED flash

\* Power fails or the processor faults.  An erase or a write may have begun.
Crash ==
  /\ crashes < Crashes /\ crashes' = crashes + 1
  /\ spc # "boot" /\ spc' = "boot"
  /\ \/ UNCHANGED flash
     \/ spc = "erase" /\ flash' \in {Erased, Garbled}
     \/ spc = "copy" /\ flash' = Garbled
  /\ UNCHANGED <<local_net, netif_addr, device, garbled, failed>>

-----------------------------------------------------------------------------
vDeviceInfo == \/ Boot \/ HandleInfo \/ HandleSet
               \/ SaveSerial \/ SaveErase \/ SaveCopy \/ SaveCompare

RecvAny == \E kind \in Kinds, net \in Configs \cup {device.net} : Recv(kind, net)

Next == vDeviceInfo \/ RecvAny \/ Crash

Spec == Init /\ [][Next]_vars

\* The task gets the processor; nobody has to send a request.
FairSpec == Spec /\ WF_vars(vDeviceInfo)

-----------------------------------------------------------------------------
(* Properties *)

\* While requests are served, RAM, the interface and flash agree on the
\* configuration, through restarts and crashes, unless the sector is garbled or
\* set_dev_net has failed since the start: what get_dev_info reports is what the next start uses.
RamAgrees ==
  spc \in {"recv", "handle"} /\ ~failed /\ flash # Garbled =>
    local_net = Loaded(flash) /\ netif_addr = local_net.addr

\* The identity of the device survives: whatever is requested of it or of others,
\* its MAC address keeps its base, and what is in flash has the digits of the
\* serial number.  Only a start that reads a sector which an erase or a write has left
\* garbled can break this, there being no checksum; and vDeviceInfoSave, which compares
\* what it has written, never restarts the device with such a sector by itself.
IdentityKept ==
  /\ ~garbled => /\ local_net.mac.base = DefBase
                 /\ flash.state = "written" => flash.net.mac = [base |-> DefBase, tail |-> "uid"]
  /\ garbled => crashes > 0

\* A set request that is accepted and not cut short by a crash takes effect, whatever
\* crashes, garbled sectors and failed saves came before it: the device restarts
\* with the new addresses, or set_dev_net reports a failure.
SetApplied == \A a \in Addrs :
  (spc = "serial" /\ local_net.addr = a /\ crashes = Crashes)
    ~> (spc = "recv" /\ (netif_addr = a \/ failed))

=============================================================================
