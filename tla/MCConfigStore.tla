--------------------------- MODULE MCConfigStore ---------------------------
(* An instance of ConfigStore and HotConfig for TLC, over an address space of 5 bits. *)
EXTENDS HotConfig, TLC

MCRule(en, lport, tip) ==
    [enabled |-> en, listen_port |-> lport, target_ip |-> tip, target_port |-> 22]

\* Default networks 8/2 (8..15) and 16/2 (16..23).
MCDefaults ==
    [usb_subnet |-> 8, usb_prefix_len |-> 2, wifi_subnet |-> 16, wifi_prefix_len |-> 2,
     wifi_tx_power |-> 44, port_forwards |-> [i \in Rules |-> NoRule]]

\* 8/2, 16/2 and 0/1 (0..15), which contains the first: a new address under an
\* old prefix can have host bits, or overlap the other network.
MCPostNets == {<<8, 2>>, <<17, 2>>, <<0, 1>>}
\* A power beyond the range, which config_sanitize turns into the default of 44.
MCPostTx == {90}
\* Among them two tables that swap the ports (half of each is a duplicate), one
\* with a duplicate and one with a rule that is off.
MCPostRules ==
    {[i \in Rules |-> NoRule],
     [i \in Rules |-> MCRule(1, i + 1, 10)],
     [i \in Rules |-> MCRule(1, NRules - i, 10 + i)],
     [i \in Rules |-> MCRule(1, 1, 10 + i)],
     [i \in Rules |-> IF i = 0 THEN MCRule(0, 1, 10) ELSE MCRule(1, 1, 18)]}

\* Fresh flash, and flash written by a firmware that knew only the older names.
MCLegacy == [key \in Keys |-> IF key = <<"dhcp_ip", 0>> THEN 24
                              ELSE IF key = <<"dhcp_pfx", 0>> THEN 2 ELSE Absent]
MCFirstNvs == {Erased, MCLegacy}

\* An erase may leave nothing, everything, or the address of the USB network alone,
\* which may be that of the default Wi-Fi network.
MCEraseKeeps == {{}, Keys, {<<"usb_ip", 0>>}}
=============================================================================
