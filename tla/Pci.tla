--------------------------------- MODULE Pci ---------------------------------
(***************************************************************************)
(* The enumeration of the PCI bus (kernel/pci.c) and the look-up of the    *)
(* disk controller in its result (ahci_init).  A slot holds nothing, a     *)
(* device of one function, or one of several; a device of one function     *)
(* need not decode the function number and may answer at all of them.  Of  *)
(* a function's registers only class with subclass is kept, and the bit of *)
(* the header type that says there are more functions.                     *)
(***************************************************************************)
EXTENDS Naturals, Sequences

CONSTANTS PCI_MAX_BUS, PCI_MAX_DEVICE, PCI_MAX_FUNCTION,
          PCI_MAX_DEVICES        \* room of the table devices[]

VARIABLES
  slots,         \* slots[bus][dev]: what answers there, chosen with the instance
  scan,          \* the next << bus, dev, fn >>; bus = PCI_MAX_BUS when done
  devices,       \* devices[0 .. device_count-1]
  hba            \* what pci_find_device gave ahci_init, 0 or more of them

bvars == << slots, scan, devices, hba >>

Done == << PCI_MAX_BUS, 0, 0 >>
Sata == "sata"           \* class 1, subclass 6

(* The address written to the configuration port (its enable bit apart),   *)
(* and what the host bridge makes of it: all ones when nobody answers.     *)
Absent == [class |-> "none", multi |-> FALSE]
config_addr(bus, dev, fn, offset) ==
  bus * 65536 + dev * 2048 + fn * 256 + (offset \div 4) * 4

Answer(addr) ==
  LET s  == slots[(addr \div 65536) % 256][(addr \div 2048) % 32]
      fn == (addr \div 256) % 8
  IN  CASE fn \in DOMAIN s.functions -> s.functions[fn]
        [] fn \notin DOMAIN s.functions /\ s.aliased -> s.functions[0]
        [] OTHER -> Absent

pci_read(bus, dev, fn, offset) == Answer(config_addr(bus, dev, fn, offset))

-----------------------------------------------------------------------------
Init == scan = << 0, 0, 0 >> /\ devices = << >> /\ hba = << >>

(* Where the loops go on: with the next function, or the next device. *)
NextDevice(p) == IF p[2] + 1 < PCI_MAX_DEVICE THEN << p[1], p[2] + 1, 0 >>
                                              ELSE << p[1] + 1, 0, 0 >>
NextFunction(p) == IF p[3] + 1 < PCI_MAX_FUNCTION THEN << p[1], p[2], p[3] + 1 >>
                                                  ELSE NextDevice(p)

(* A device whose function 0 says it is the only one is left after it. *)
only_function(p, r) == p[3] = 0 /\ ~r.multi

(* One round of pci_enumerate's inner loop. *)
pci_enumerate ==
  /\ scan # Done
  /\ LET r == pci_read(scan[1], scan[2], scan[3], 0) IN
     \/ /\ r = Absent
        /\ scan' = NextFunction(scan) /\ UNCHANGED devices
     \/ /\ r # Absent /\ Len(devices) >= PCI_MAX_DEVICES
        /\ scan' = Done /\ UNCHANGED devices
     \/ /\ r # Absent /\ Len(devices) < PCI_MAX_DEVICES
        /\ devices' = Append(devices, [at |-> scan, class |-> r.class])
        /\ scan' = IF only_function(scan, r) THEN NextDevice(scan) ELSE NextFunction(scan)
  /\ UNCHANGED << slots, hba >>

(* ahci_init asks for the first SATA controller in the table. *)
pci_find_device ==
  /\ scan = Done /\ hba = << >>
  /\ \E i \in 1 .. Len(devices) :
       /\ devices[i].class = Sata
       /\ \A j \in 1 .. i - 1 : devices[j].class # Sata
       /\ hba' = << devices[i] >>
  /\ UNCHANGED << slots, scan, devices >>

Next == pci_enumerate \/ pci_find_device

-----------------------------------------------------------------------------
(* The functions there are: those a device really has. *)
Functions ==
  UNION { { << b, d, f >> : f \in DOMAIN slots[b][d].functions } :
          b \in 0 .. PCI_MAX_BUS - 1, d \in 0 .. PCI_MAX_DEVICE - 1 }

Below(p, q) == \/ p[1] < q[1]
               \/ p[1] = q[1] /\ p[2] < q[2]
               \/ p[1] = q[1] /\ p[2] = q[2] /\ p[3] < q[3]

(* The table lists real functions in bus order, none of them twice even if *)
(* a device answers at every function number, and leaves one out only when *)
(* the table is full: then it is the ones that come last, and a controller *)
(* among them is not found.                                                *)
BusListed ==
  /\ \A i, j \in 1 .. Len(devices) : i < j => Below(devices[i].at, devices[j].at)
  /\ \A i \in 1 .. Len(devices) : devices[i].at \in Functions
  /\ scan = Done =>
       \A p \in Functions :
         \/ \E i \in 1 .. Len(devices) :
              /\ devices[i].at = p
              /\ devices[i].class = slots[p[1]][p[2]].functions[p[3]].class
         \/ /\ Len(devices) = PCI_MAX_DEVICES
            /\ \A i \in 1 .. Len(devices) : Below(devices[i].at, p)
=============================================================================
