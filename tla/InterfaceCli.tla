---------------------------- MODULE InterfaceCli ----------------------------
(***************************************************************************)
(* What "dabba interface <kind> modify <options>" puts into its request    *)
(* (dabba/interface-*.c, dabba/cli.c).                                     *)
(*                                                                         *)
(* An option is a record [opt, val], its val a number or Bad, a text that  *)
(* none of the str2 functions knows.  A request is a function from the     *)
(* message fields whose has_ flag is set to their values.  A field is a    *)
(* pair whose first component names the kernel structure it belongs to.    *)
(***************************************************************************)
EXTENDS Integers, Sequences, SequencesExt

Kinds == {"status", "settings", "pause", "coalesce", "offload", "capabilities"}
Bad == -1
EINVAL == 22
Usage == -1

LinkOptions == {"mtu", "tx_qlen"}
Ports == {"aui", "bnc", "fibre", "mii", "tp"}
Duplexes == {"half", "full"}
EthernetSpeeds == {10, 100, 1000, 10000}

(* The options whose argument is checked by str2bool(), str2speed() or     *)
(* str2duplex().                                                           *)
Checked ==
    [status       |-> {"promiscuous", "up"},
     settings     |-> {"speed", "duplex", "autoneg"},
     pause        |-> {"rx_pause", "tx_pause", "autoneg"},
     coalesce     |-> {"use_adaptive_rx_coalesce", "use_adaptive_tx_coalesce"},
     offload      |-> {"rx_csum", "tx_csum", "sg", "tso", "ufo", "gso", "gro",
                       "lro", "rxhash"},
     capabilities |-> Ports \cup Duplexes \cup {"speed", "autoneg", "pause"}]

(* Without stats_block_coalesce_usecs: its option is in the table, but no  *)
(* case of the loop takes it, and the command ends as for --help.          *)
CoalesceNumbers ==
    {"pkt_rate_high", "pkt_rate_low", "rate_sample_interval",
     "rx_coalesce_usecs", "rx_coalesce_usecs_irq", "rx_coalesce_usecs_high",
     "rx_coalesce_usecs_low", "rx_max_coalesced_frames",
     "rx_max_coalesced_frames_irq", "rx_max_coalesced_frames_high",
     "rx_max_coalesced_frames_low",
     "tx_coalesce_usecs", "tx_coalesce_usecs_irq", "tx_coalesce_usecs_high",
     "tx_coalesce_usecs_low", "tx_max_coalesced_frames",
     "tx_max_coalesced_frames_irq", "tx_max_coalesced_frames_high",
     "tx_max_coalesced_frames_low"}

(* The options that go through strtoul(), unchecked. *)
Numbers ==
    [status |-> {}, settings |-> LinkOptions, pause |-> {},
     coalesce |-> CoalesceNumbers, offload |-> {}, capabilities |-> {}]

(* strtoul() makes 0 of a text that is not a number. *)
Number(val) == IF val = Bad THEN 0 ELSE val

Options(kind) == Checked[kind] \cup Numbers[kind]

(* What one turn of the getopt loop ends the command with, 0 to go on. *)
ErrorOf(kind, arg) ==
    IF arg.opt \notin Options(kind) THEN Usage
    ELSE IF arg.opt \in Checked[kind] /\ arg.val = Bad THEN EINVAL
    ELSE 0

(* The last of several equal options counts. *)
Given(args) ==
    [o \in {args[n].opt : n \in DOMAIN args} |->
        Number(args[Max({n \in DOMAIN args : args[n].opt = o})].val)]

(* The message field that an option fills. *)
GroupOf(kind, opt) ==
    IF kind = "status" \/ opt \in LinkOptions THEN "link"
    ELSE IF kind = "settings" THEN "cmd"
    ELSE IF kind = "capabilities" THEN IF opt \in Ports THEN "port" ELSE "adv"
    ELSE kind

FieldOf(kind, opt, speed) ==
    IF kind = "capabilities" /\ opt \in Duplexes THEN <<opt, speed>>
    ELSE <<GroupOf(kind, opt), opt>>

(* The half and full options of capabilities go into the record of the     *)
(* speed given by --speed, and nowhere when there is no such record.       *)
CapabilitiesMessage(opts) ==
    LET speed == IF "speed" \in DOMAIN opts THEN opts["speed"] ELSE 0
        kept == DOMAIN opts \ ({"speed"} \cup
                    IF speed \in EthernetSpeeds THEN {} ELSE Duplexes)
    IN  [f \in {FieldOf("capabilities", o, speed) : o \in kept} |->
            opts[IF f[1] \in Duplexes THEN f[1] ELSE f[2]]]

Message(kind, opts) ==
    IF kind = "capabilities" THEN CapabilitiesMessage(opts)
    ELSE [f \in {FieldOf(kind, o, 0) : o \in DOMAIN opts} |-> opts[f[2]]]
=============================================================================
