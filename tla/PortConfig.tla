----------------------------- MODULE PortConfig -----------------------------
(***************************************************************************)
(* What urdmad makes of a port's entry in the configuration file on a given  *)
(* NIC, as operators: the parser's ranges and defaults (config_file.c), the  *)
(* checks of usiw_port_init, which end the daemon, and the sizes do_setup_qp *)
(* hands to a queue pair.  uint16_t fields are truncated as the code does.   *)
(*                                                                          *)
(* A file entry is a record of the five tunable fields, each a number or     *)
(* Absent.  A NIC is a record of its limits, of the filters it supports      *)
(* (ntuple, fdir) and of whether it really takes 5-tuple filters (five).     *)
(***************************************************************************)
EXTENDS Integers, FiniteSetsExt

CONSTANTS UINT_MAX, UINT16_MAX

\* UINT_MAX stands for a number whose low 16 bits are all set.
ASSUME PortConfigAssumption ==
    /\ UINT16_MAX \in Nat \ {0} /\ UINT_MAX \in Nat
    /\ UINT_MAX > UINT16_MAX
    /\ UINT_MAX % (UINT16_MAX + 1) = UINT16_MAX

Absent == -2
Invalid == -3
U16(n) == n % (UINT16_MAX + 1)

\* get_int_value and get_uint_value: a value out of range is an error.
GetValue(field, min, max, def) ==
    IF field = Absent THEN def
    ELSE IF field >= min /\ field <= max THEN field ELSE Invalid

\* urdma__config_file_get_ports: the ranges of the burst sizes depend on the
\* descriptor counts read before them.
GetPort(file) ==
    LET rxd == GetValue(file.rx_desc_count, 1, UINT_MAX, UINT_MAX)
        txd == GetValue(file.tx_desc_count, 1, UINT_MAX, UINT_MAX)
    IN  [max_qp |-> GetValue(file.max_qp, 1, UINT16_MAX, -1),
         rx_desc_count |-> rxd,
         rx_burst_size |-> GetValue(file.rx_burst_size, 1, rxd,
                                    IF rxd > 32 THEN rxd ELSE 32),
         tx_desc_count |-> txd,
         tx_burst_size |-> GetValue(file.tx_burst_size, 1, txd, 8)]
ParseFails(conf) == \E f \in DOMAIN conf : conf[f] = Invalid

\* The four filter modes: which of iface->flags usiw_port_init sets.
FilterMode(nic) == IF nic.ntuple THEN "5tuple"
                   ELSE IF nic.fdir THEN "fdir" ELSE "none"

\* Queues the NIC reserves for VMDq are not available.
MaxQueues(nic, n) == IF nic.vmdq > 0 THEN n - nic.vmdq ELSE n
MaxQp(conf, nic) == IF conf.max_qp > 0 THEN conf.max_qp
                    ELSE Min({MaxQueues(nic, nic.rx_queues),
                              MaxQueues(nic, nic.tx_queues)})

DescCount(n, lim) ==
    IF n = UINT_MAX THEN lim.min
    ELSE IF n > lim.max \/ n < lim.min \/ n % lim.align # 0 THEN Invalid
    ELSE n

TooManyQps(n, queues) == n >= queues
PortExits(conf, nic) ==
    \/ TooManyQps(MaxQp(conf, nic), MaxQueues(nic, nic.rx_queues))
    \/ TooManyQps(MaxQp(conf, nic), MaxQueues(nic, nic.tx_queues))
    \/ DescCount(conf.rx_desc_count, nic.desc) = Invalid
    \/ DescCount(conf.tx_desc_count, nic.desc) = Invalid

\* usiw_port_init when it does not exit: struct usiw_port.
PortInit(conf, nic) ==
    [max_qp        |-> MaxQp(conf, nic),
     rx_desc_count |-> DescCount(conf.rx_desc_count, nic.desc),
     tx_desc_count |-> DescCount(conf.tx_desc_count, nic.desc),
     rx_burst_size |-> U16(conf.rx_burst_size),
     tx_burst_size |-> U16(conf.tx_burst_size),
     mode          |-> FilterMode(nic),
     five          |-> nic.five]
RxMempool(port) == 2 * port.max_qp * port.rx_desc_count
TxMempool(port) == 2 * port.max_qp * port.tx_desc_count

\* do_setup_qp: the burst sizes of a queue pair of the port.
RxBurst(port) == IF port.rx_burst_size > port.rx_desc_count + 1
                 THEN U16(port.rx_desc_count + 1) ELSE port.rx_burst_size
TxBurst(port) == IF port.tx_burst_size > port.tx_desc_count
                 THEN port.tx_desc_count ELSE port.tx_burst_size

\* What the rest of the system takes for granted of a port that was set up:
\* every queue pair has a receive and a transmit queue besides queue 0, the
\* rings of all queues can be filled from the mempools, and a burst never
\* exceeds the ring it is read into by more than the one extra descriptor.
SoundPort(port, nic) ==
    /\ port.max_qp >= 1
    /\ port.max_qp + 1 <= MaxQueues(nic, nic.rx_queues)
    /\ port.max_qp + 1 <= MaxQueues(nic, nic.tx_queues)
    /\ (port.max_qp + 1) * port.rx_desc_count <= RxMempool(port)
    /\ (port.max_qp + 1) * port.tx_desc_count <= TxMempool(port)
    /\ port.rx_desc_count % nic.desc.align = 0
    /\ port.tx_desc_count % nic.desc.align = 0
    /\ RxBurst(port) <= port.rx_desc_count + 1
    /\ TxBurst(port) <= port.tx_desc_count
=============================================================================
