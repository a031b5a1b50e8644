----------------------------- MODULE MCClocks ------------------------------
(***************************************************************************)
(* The generators with some of their channels.  The channel of the slow    *)
(* interconnect is next to all domains; SPIOTP is not in the mask SBL-S1   *)
(* gives.                                                                  *)
(***************************************************************************)
EXTENDS Clocks

BootMC == {"LSP1", "CPU"}
ServiceMC == {"SDR", "MEDIA"}
ForeignMC == {"PCIE"}
ChannelsMC ==
  [LSP1  |-> {"AXI_SLOW_COMM"},
   CPU   |-> {"DDR_CPU", "AXI_SLOW_COMM"},
   SDR   |-> {"DDR_SDR_DSP", "AXI_SLOW_COMM"},
   MEDIA |-> {"DDR_VPU", "AXI_SLOW_COMM"}]

Ch(ch, d) == [ch |-> ch, div |-> d]
GensMC == {"SERV", "TOP", "LSP1", "CPU"}
TableMC ==
  [SERV |-> << Ch("APB", 6), Ch("RISC0", 1), Ch("SPIOTP", 6) >>,
   TOP  |-> << Ch("DDR_VPU", 4), Ch("DDR_CPU", 2), Ch("AXI_SLOW_COMM", 30), Ch("DDR_SDR_DSP", 2) >>,
   LSP1 |-> << Ch("CLK_SYS", 7), Ch("UART0", 23), Ch("TIMERS", 7) >>,
   CPU  |-> << Ch("CPU_CORE", 1), Ch("CPU_SYS", 4), Ch("CPU_DBUS", 2) >>]
MaskedMC == [g \in GensMC |-> ChannelsOf(g) \ {"SPIOTP"}]
=============================================================================
