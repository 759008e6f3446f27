------------------------- MODULE MCInterfaceModify -------------------------
(* InterfaceModify with a few options of each kind: for every kind that    *)
(* has them one that is checked and one that is not, features before and   *)
(* after each other, ports that share a bit.                               *)
EXTENDS InterfaceModify

MCUsed ==
    [status       |-> {"promiscuous", "up"},
     settings     |-> {"speed", "autoneg", "mtu"},
     pause        |-> {"rx_pause", "autoneg"},
     coalesce     |-> {"use_adaptive_rx_coalesce", "rx_coalesce_usecs"},
     offload      |-> {"rx_csum", "tso", "gro", "lro"},
     capabilities |-> {"aui", "fibre", "speed", "half", "autoneg"}]
=============================================================================
