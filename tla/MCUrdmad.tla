------------------------------ MODULE MCUrdmad ------------------------------
(* Instances of Urdmad for TLC. *)
EXTENDS Urdmad

Entry(qps, rxd, rxb, txd, txb) ==
    [max_qp |-> qps, rx_desc_count |-> rxd, rx_burst_size |-> rxb,
     tx_desc_count |-> txd, tx_burst_size |-> txb]
\* One entry that starts; the others are refused or are on the edge of it.
SmallFiles == {Entry(1, Absent, Absent, 16, 16),
               Entry(Absent, Absent, Absent, Absent, Absent),
               Entry(1, 12, Absent, Absent, Absent),
               Entry(1, 8, 9, Absent, Absent),
               Entry(2, 8, Absent, 8, Absent)}
Limits == [min |-> 8, max |-> 32, align |-> 8]
Nic(ntuple, five, fdir, lcores) ==
    [rx_queues |-> 4, tx_queues |-> 3, vmdq |-> 1, desc |-> Limits,
     ntuple |-> ntuple, five |-> five, fdir |-> fdir, lcores |-> lcores]
SomeNics == {Nic(TRUE, FALSE, FALSE, {0, 1}), Nic(FALSE, FALSE, TRUE, {0})}
=============================================================================
