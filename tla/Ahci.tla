-------------------------------- MODULE Ahci ---------------------------------
(***************************************************************************)
(* A port of the AHCI driver of kernel/ahci.c and the controller it talks  *)
(* to.  The driver uses command slot 0 and one command table per port; it  *)
(* builds a command, sets PxCI and polls.  The controller (external) runs  *)
(* beside it: it fetches the table, moves the data by DMA and clears PxCI, *)
(* or reports an error and stops.  Every wait gives up after 500 ticks.    *)
(* After it returned, a caller uses its buffer for something else.         *)
(***************************************************************************)
EXTENDS Naturals

CONSTANTS
  Lba, Buffer, Value,
  MaxWrites    \* bound: values callers put into buffers

VARIABLES
  port_mask,  \* is the port's bit set?
  at,         \* where ahci_do_rw is
  call,       \* its arguments: lba, buf, write, and the value to be written
  table,      \* cmd_table: what it asks for, or Zeroed
  ci,         \* PxCI bit 0
  bsy, err,   \* PxTFD
  ctl,        \* the command the controller executes, or Zeroed
  working,    \* is it executing one?
  mem, disk,  \* the buffers' and the sectors' contents
  result,     \* of the last call: "ok", "failed" or "none"
  timed_out,  \* buffers whose call gave up on a command still with the controller
  fills

driver == << port_mask, at, call, table >>
device == << bsy, err, ctl, working >>
vars == << driver, device, ci, mem, disk, result, timed_out, fills >>

Nobody == [lba |-> 0, buf |-> 0, write |-> FALSE, value |-> 0]
Zeroed == Nobody
Command == [lba : Lba, buf : Buffer, write : BOOLEAN, value : Value]

Init ==
  /\ port_mask = FALSE /\ at = "idle" /\ call = Nobody /\ table = Zeroed
  /\ ci = FALSE /\ bsy = FALSE /\ err = FALSE /\ ctl = Zeroed /\ working = FALSE
  /\ mem \in [Buffer -> Value] /\ disk \in [Lba -> Value]
  /\ result = "none" /\ timed_out = {} /\ fills = 0

(* ahci_init: no controller or a reset that times out leaves the port      *)
(* without its bit; otherwise a SATA drive that is present is started.     *)
ahci_init ==
  /\ ~port_mask /\ at = "idle" /\ port_mask' = TRUE
  /\ UNCHANGED << at, call, table, device, ci, mem, disk, result, timed_out, fills >>

-----------------------------------------------------------------------------
(* ahci_read_sectors and ahci_write_sectors: refused without a drive, and  *)
(* for no or more than 128 sectors.                                        *)
ahci_do_rw(lba, buf, write) ==
  /\ at = "idle" /\ port_mask
  /\ call' = [lba |-> lba, buf |-> buf, write |-> write, value |-> mem[buf]]
  /\ at' = "wait_ready"
  /\ UNCHANGED << port_mask, table, device, ci, mem, disk, result, timed_out, fills >>

Returns(r) == at' = "idle" /\ result' = r

(* wait_clear(PxTFD, BSY | DRQ, 500) *)
port_ready == ~bsy
wait_ready ==
  /\ at = "wait_ready" /\ port_ready
  /\ at' = "zero"
  /\ UNCHANGED << port_mask, call, table, device, ci, mem, disk, result, timed_out, fills >>
busy_timeout ==
  /\ at = "wait_ready" /\ bsy
  /\ Returns("failed")
  /\ UNCHANGED << port_mask, call, table, device, ci, mem, disk, timed_out, fills >>

zero_table ==
  /\ at = "zero" /\ table' = Zeroed /\ at' = "fill"
  /\ UNCHANGED << port_mask, call, device, ci, mem, disk, result, timed_out, fills >>
fill_table ==
  /\ at = "fill" /\ table' = call /\ at' = "issue"
  /\ UNCHANGED << port_mask, call, device, ci, mem, disk, result, timed_out, fills >>
issue ==
  /\ at = "issue" /\ ci' = TRUE /\ at' = "poll"
  /\ UNCHANGED << port_mask, call, table, device, mem, disk, result, timed_out, fills >>

(* The polling loop: PxCI clear, then the deadline, then the error bit. *)
bsy_clear_bug == ~bsy
complete == ~ci
poll_done ==
  /\ at = "poll" /\ complete
  /\ Returns("ok")
  /\ UNCHANGED << port_mask, call, table, device, ci, mem, disk, timed_out, fills >>
never_bug == FALSE
deadline_passed == ci /\ bsy     \* a command is fetched long before 500 ticks
poll_timeout ==
  /\ at = "poll" /\ deadline_passed
  /\ Returns("failed")
  /\ timed_out' = timed_out \cup {call.buf}
  /\ UNCHANGED << port_mask, call, table, device, ci, mem, disk, fills >>
device_error == ci /\ err
poll_error ==
  /\ at = "poll" /\ device_error
  /\ Returns("failed")
  /\ UNCHANGED << port_mask, call, table, device, ci, mem, disk, timed_out, fills >>

(* The caller does what it likes with its buffer. *)
use_buffer(buf, v) ==
  /\ at = "idle" /\ fills < MaxWrites
  /\ mem' = [mem EXCEPT ![buf] = v] /\ fills' = fills + 1
  /\ UNCHANGED << driver, device, ci, disk, result, timed_out >>

-----------------------------------------------------------------------------
(* The controller (external).  After an error it executes nothing until    *)
(* the port is restarted, which the driver never does.                     *)
fetch ==
  /\ ci /\ ~working /\ ~err
  /\ ctl' = table /\ working' = TRUE /\ bsy' = TRUE
  /\ UNCHANGED << err, driver, ci, mem, disk, result, timed_out, fills >>
transfer ==
  /\ working /\ ctl # Zeroed
  /\ IF ctl.write THEN disk' = [disk EXCEPT ![ctl.lba] = mem[ctl.buf]] /\ UNCHANGED mem
                  ELSE mem' = [mem EXCEPT ![ctl.buf] = disk[ctl.lba]] /\ UNCHANGED disk
  /\ ci' = FALSE /\ bsy' = FALSE /\ working' = FALSE /\ ctl' = Zeroed
  /\ UNCHANGED << err, driver, result, timed_out, fills >>
refuse ==
  /\ working
  /\ err' = TRUE /\ bsy' = FALSE /\ working' = FALSE /\ ctl' = Zeroed
  /\ UNCHANGED << driver, ci, mem, disk, result, timed_out, fills >>

DriverStep == \/ wait_ready \/ busy_timeout \/ zero_table \/ fill_table \/ issue
              \/ poll_done \/ poll_timeout \/ poll_error
Controller == fetch \/ transfer \/ refuse
Next ==
  \/ ahci_init
  \/ \E l \in Lba, b \in Buffer, w \in BOOLEAN : ahci_do_rw(l, b, w)
  \/ DriverStep
  \/ \E b \in Buffer, v \in Value : use_buffer(b, v)
  \/ Controller

(* The tick goes on while the driver polls, so its loops end; a controller *)
(* that has a command fetches it, and nothing else is asked of it.         *)
Spec == Init /\ [][Next]_vars /\ WF_vars(DriverStep) /\ WF_vars(fetch)

-----------------------------------------------------------------------------
(* Types. *)
TypeOK ==
  /\ call \in Command \cup {Nobody} /\ table \in Command \cup {Zeroed}
  /\ at \in {"idle", "wait_ready", "zero", "fill", "issue", "poll"}
  /\ mem \in [Buffer -> Value] /\ disk \in [Lba -> Value]
  /\ timed_out \subseteq Buffer

(* A call that reports success had its own command executed: the buffer    *)
(* holds the sector, or the sector the bytes the caller gave, even when    *)
(* earlier commands timed out and completed late.                          *)
SuccessIsOwn ==
  [][at = "poll" /\ at' = "idle" /\ result' = "ok" =>
       IF call.write THEN call.buf \in timed_out \/ disk[call.lba] = call.value
                     ELSE mem[call.buf] = disk[call.lba]]_vars

(* Data moves only for the call in progress, from or to its own buffer;    *)
(* only a command that timed out may still be carried out later.           *)
DmaForTheCall ==
  [][mem' # mem \/ disk' # disk =>
       \/ fills' # fills
       \/ at = "poll" /\ ctl = call
       \/ ctl.buf \in timed_out]_vars

(* After a device error no call succeeds any more: the driver never        *)
(* restarts the port.                                                      *)
ErrorIsFinal == [][err => ~(at # "idle" /\ at' = "idle" /\ result' = "ok")]_vars

(* Every call returns, whatever the controller does. *)
CallReturns == at # "idle" ~> at = "idle"
=============================================================================
