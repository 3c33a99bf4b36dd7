----------------------------- MODULE ConfigStore -----------------------------
(***************************************************************************)
(* The persistent configuration (nvs_config.c) with the two web handlers   *)
(* that change it (config_post_handler, port_forward_post_handler) and the *)
(* button task that erases it (app_main.c).                                *)
(*                                                                         *)
(* config_save writes one NVS key after another; each write is atomic and  *)
(* durable, the sequence is not, so a power loss or a failing write leaves *)
(* new values next to old ones.  config_load must make a usable            *)
(* configuration of whatever it finds.  The SSID, the passwords, the       *)
(* channel and the two DHCP switches are independent of each other and of  *)
(* the rest and are left out; the transmit power stands for the fields     *)
(* whose range only config_sanitize checks.                                *)
(***************************************************************************)
EXTENDS Addressing, Integers

CONSTANTS
    NRules,          \* TAPLINK_MAX_PORT_FORWARDS
    Defaults,        \* config_get_defaults
    MinTx, MaxTx,    \* accepted transmit power: 8 and 80
    PostNets,        \* <<address, prefix>> pairs a form may carry
    PostTx,          \* transmit powers a form may carry
    PostRules,       \* rule tables a form may carry
    FirstNvs,        \* what flash may hold at the first boot of this firmware
    EraseKeeps,      \* sets of keys that an erase may leave behind
    MaxSaves,        \* bound: saves started
    Absent, NoCfg

Rules == 0 .. NRules - 1

VARIABLES
    nvs,        \* the "taplink" namespace: key -> value or Absent
    mounted,    \* NVS is initialised: handles are valid
    ram,        \* s_config, shared with every component
    form,       \* the new_cfg a handler is saving
    pos,        \* where the save is: 0 when none runs, the index of the next
                \* nvs_set, then nvs_commit, then the copy to s_config
    saves,      \* saves started, up to MaxSaves
    accepted    \* the last configuration config_save stored in full, until
                \* another write begins

vars == <<nvs, mounted, ram, form, pos, saves, accepted>>

(* The keys, in the order config_save writes them. *)
GlobalKeys == <<"usb_ip", "usb_pfx", "wifi_ip", "wifi_pfx", "dhcp_ip", "dhcp_pfx", "wifi_txp">>
RuleKeys == <<"enabled", "lport", "tip", "tport">>
NKeys == 7 + 4 * NRules
SaveKey(n) ==
    IF n <= 7 THEN <<GlobalKeys[n], 0>>
    ELSE <<RuleKeys[((n - 8) % 4) + 1], (n - 8) \div 4>>
Keys == {SaveKey(n) : n \in 1 .. NKeys}

NoRule == [enabled |-> 0, listen_port |-> 0, target_ip |-> 0, target_port |-> 0]

Rule == [enabled : Nat, listen_port : Nat, target_ip : Nat, target_port : Nat]
Config == [usb_subnet : Nat, usb_prefix_len : Nat, wifi_subnet : Nat,
           wifi_prefix_len : Nat, wifi_tx_power : Int, port_forwards : [Rules -> Rule]]

\* Flash holds numbers where it must, and transmit powers, which are signed.
NvsType(store) ==
    /\ store \in [Keys -> Int \cup {Absent}]
    /\ \A key \in Keys : key[1] # "wifi_txp" => store[key] \in Nat \cup {Absent}

\* The value config_save stores under a key: the Wi-Fi network goes under its
\* own name and under the name older firmware reads.
Saved(cfg, key) ==
    CASE key[1] = "usb_ip"               -> cfg.usb_subnet
      [] key[1] = "usb_pfx"              -> cfg.usb_prefix_len
      [] key[1] \in {"wifi_ip", "dhcp_ip"}   -> cfg.wifi_subnet
      [] key[1] \in {"wifi_pfx", "dhcp_pfx"} -> cfg.wifi_prefix_len
      [] key[1] = "wifi_txp"             -> cfg.wifi_tx_power
      [] key[1] = "enabled"              -> cfg.port_forwards[key[2]].enabled
      [] key[1] = "lport"                -> cfg.port_forwards[key[2]].listen_port
      [] key[1] = "tip"                  -> cfg.port_forwards[key[2]].target_ip
      [] key[1] = "tport"                -> cfg.port_forwards[key[2]].target_port
-----------------------------------------------------------------------------
(* config_sanitize *)

nets_valid(cfg) ==
    /\ network_is_valid(cfg.usb_subnet, cfg.usb_prefix_len)
    /\ network_is_valid(cfg.wifi_subnet, cfg.wifi_prefix_len)
    /\ ~subnets_overlap(cfg.usb_subnet, cfg.usb_prefix_len,
                        cfg.wifi_subnet, cfg.wifi_prefix_len)

\* What a rule needs of its own to be kept, given the USB network.
rule_usable(rule, subnet, p) ==
    /\ rule.enabled # 0
    /\ rule.listen_port \notin {0, 80} /\ rule.target_port # 0 /\ rule.target_ip # 0
    /\ ip_in_subnet(rule.target_ip, subnet, p)
    /\ rule.target_ip \notin {NetworkOf(subnet, p), GatewayOf(subnet, p),
                              BroadcastOf(subnet, p)}

\* Faulty variant: two rules may share a listen port.
sanitize_rules_KeepsDuplicates(rules, subnet, p) ==
    [i \in Rules |-> IF rule_usable(rules[i], subnet, p)
                     THEN [rules[i] EXCEPT !.enabled = 1] ELSE NoRule]

\* Faulty variant: the port of a rule that is off counts as used.
sanitize_rules_CountsDisabled(rules, subnet, p) ==
    [i \in Rules |-> IF /\ rule_usable(rules[i], subnet, p)
                       /\ \A j \in 0 .. i - 1 : rules[j].listen_port # rules[i].listen_port
                     THEN [rules[i] EXCEPT !.enabled = 1] ELSE NoRule]

\* The loop keeps the first usable rule of each listen port and clears every
\* other entry, disabled ones included.  (A usable rule that is a duplicate has
\* the port of one kept before it, so comparing with the usable ones before it
\* is comparing with the used_listen_ports.)
sanitize_rules(rules, subnet, p) ==
    LET usable(i) == rule_usable(rules[i], subnet, p)
        duplicate(i) == \E j \in 0 .. i - 1 :
                           usable(j) /\ rules[j].listen_port = rules[i].listen_port
    IN  [i \in Rules |-> IF usable(i) /\ ~duplicate(i)
                         THEN [rules[i] EXCEPT !.enabled = 1] ELSE NoRule]

config_sanitize(cfg) ==
    LET nets == IF nets_valid(cfg) THEN cfg ELSE Defaults
        usb == Masked(nets.usb_subnet, nets.usb_prefix_len)
    IN  [usb_subnet |-> usb,
         usb_prefix_len |-> nets.usb_prefix_len,
         wifi_subnet |-> Masked(nets.wifi_subnet, nets.wifi_prefix_len),
         wifi_prefix_len |-> nets.wifi_prefix_len,
         wifi_tx_power |-> IF cfg.wifi_tx_power < MinTx \/ cfg.wifi_tx_power > MaxTx
                           THEN Defaults.wifi_tx_power ELSE cfg.wifi_tx_power,
         port_forwards |-> sanitize_rules(cfg.port_forwards, usb, nets.usb_prefix_len)]
\* The defaults need no repair, and what the forms and the flash may hold has
\* the types the parsers and NVS enforce.
ASSUME ConfigStoreAssumption ==
    /\ NRules \in Nat /\ MinTx \in Int /\ MaxTx \in Int
    /\ Defaults \in Config /\ nets_valid(Defaults)
    /\ Defaults.wifi_tx_power \in MinTx .. MaxTx
    /\ \A i \in Rules : Defaults.port_forwards[i].enabled = 0
    /\ PostNets \subseteq Nat \X Nat /\ PostTx \subseteq Int
    /\ PostRules \subseteq [Rules -> Rule]
    /\ \A store \in FirstNvs : NvsType(store)
    /\ EraseKeeps \subseteq SUBSET Keys
    /\ MaxSaves \in Nat
    /\ Absent \notin Int /\ NoCfg \notin Config
-----------------------------------------------------------------------------
(* config_load *)

Get(store, key, otherwise) == IF store[key] = Absent THEN otherwise ELSE store[key]

\* Every key that is there replaces its default; the Wi-Fi network is looked for
\* under its present name first, then under the older one.
read_config(store) ==
    LET G(name, otherwise) == Get(store, <<name, 0>>, otherwise)
        R(i, name, otherwise) == Get(store, <<name, i>>, otherwise)
    IN  [usb_subnet |-> G("usb_ip", Defaults.usb_subnet),
         usb_prefix_len |-> G("usb_pfx", Defaults.usb_prefix_len),
         wifi_subnet |-> G("wifi_ip", G("dhcp_ip", Defaults.wifi_subnet)),
         wifi_prefix_len |-> G("wifi_pfx", G("dhcp_pfx", Defaults.wifi_prefix_len)),
         wifi_tx_power |-> G("wifi_txp", Defaults.wifi_tx_power),
         port_forwards |->
            [i \in Rules |->
                [enabled |-> R(i, "enabled", 0), listen_port |-> R(i, "lport", 0),
                 target_ip |-> R(i, "tip", 0), target_port |-> R(i, "tport", 0)]]]

\* Faulty variant: the loaded values are used as they are.
config_load_Trusting(store) == read_config(store)

\* Without the namespace the defaults are used as they are.
config_load(store) ==
    IF \A key \in Keys : store[key] = Absent THEN Defaults
    ELSE config_sanitize(read_config(store))

Erased == [key \in Keys |-> Absent]

Init ==
    /\ nvs \in FirstNvs
    /\ mounted = TRUE
    /\ ram = config_load(nvs)
    /\ form = NoCfg /\ pos = 0 /\ saves = 0
    /\ accepted = NoCfg
-----------------------------------------------------------------------------
(* The handlers.  httpd is one task, so one save at a time. *)

\* Faulty variant: the handler edits the live configuration itself.
BeginSave_InPlace(cfg) ==
    /\ pos = 0 /\ saves < MaxSaves
    /\ ram' = cfg
    /\ form' = cfg /\ pos' = 1 /\ saves' = saves + 1
    /\ UNCHANGED <<nvs, mounted, accepted>>

BeginSave(cfg) ==
    /\ pos = 0 /\ saves < MaxSaves
    /\ form' = cfg /\ pos' = 1 /\ saves' = saves + 1
    /\ UNCHANGED <<nvs, mounted, ram, accepted>>

\* Faulty variant: the overlap is not checked.
PostConfig_Overlapping(usb, wifi, txp) ==
    /\ usb[2] \in MinPrefix .. MaxPrefix /\ wifi[2] \in MinPrefix .. MaxPrefix
    /\ BeginSave([ram EXCEPT !.usb_subnet = Masked(usb[1], usb[2]),
                             !.usb_prefix_len = usb[2],
                             !.wifi_subnet = Masked(wifi[1], wifi[2]),
                             !.wifi_prefix_len = wifi[2],
                             !.wifi_tx_power = txp])

\* config_post_handler: a copy of the live configuration with the form's networks
\* and transmit power.  parse_subnet_text has cleared the host bits and checked
\* the prefix; the port-forward rules are not looked at, nor is the power's range.
PostConfig(usb, wifi, txp) ==
    /\ usb[2] \in MinPrefix .. MaxPrefix /\ wifi[2] \in MinPrefix .. MaxPrefix
    /\ LET cfg == [ram EXCEPT !.usb_subnet = Masked(usb[1], usb[2]),
                              !.usb_prefix_len = usb[2],
                              !.wifi_subnet = Masked(wifi[1], wifi[2]),
                              !.wifi_prefix_len = wifi[2],
                              !.wifi_tx_power = txp]
       IN  /\ ~subnets_overlap(cfg.usb_subnet, cfg.usb_prefix_len,
                               cfg.wifi_subnet, cfg.wifi_prefix_len)
           /\ BeginSave(cfg)

\* validate_port_forwards: every enabled rule must be usable on the live USB
\* network and no two may share a port.
rules_valid(cfg) ==
    \A i \in Rules : cfg.port_forwards[i].enabled # 0 =>
        /\ rule_usable(cfg.port_forwards[i], cfg.usb_subnet, cfg.usb_prefix_len)
        /\ \A j \in 0 .. i - 1 :
              cfg.port_forwards[j].enabled # 0 =>
                  cfg.port_forwards[j].listen_port # cfg.port_forwards[i].listen_port

\* port_forward_post_handler
PostForward(rules) ==
    LET cfg == [ram EXCEPT !.port_forwards = rules] IN
    rules_valid(cfg) /\ BeginSave(cfg)
-----------------------------------------------------------------------------
(* config_save *)

\* Faulty variant: an erase does not invalidate the handle of a running save.
WriteKey_AfterErase ==
    /\ pos \in 1 .. NKeys
    /\ nvs' = [nvs EXCEPT ![SaveKey(pos)] = Saved(form, SaveKey(pos))]
    /\ pos' = pos + 1
    /\ accepted' = NoCfg
    /\ UNCHANGED <<mounted, ram, form, saves>>

WriteKey ==
    /\ pos \in 1 .. NKeys /\ mounted
    /\ nvs' = [nvs EXCEPT ![SaveKey(pos)] = Saved(form, SaveKey(pos))]
    /\ pos' = pos + 1
    /\ accepted' = NoCfg
    /\ UNCHANGED <<mounted, ram, form, saves>>

\* Faulty variant: the handler keeps the copy it could not save.
SaveFails_KeepsForm ==
    /\ pos # 0
    /\ pos' = 0
    /\ UNCHANGED <<nvs, mounted, ram, form, saves, accepted>>

\* Opening, a write or the commit fails: the rest is not written, the handler
\* answers "Failed to save" and keeps the live configuration.
SaveFails ==
    /\ pos \in 1 .. NKeys + 1
    /\ pos' = 0 /\ form' = NoCfg
    /\ UNCHANGED <<nvs, mounted, ram, saves, accepted>>

\* Faulty variant: success is reported although the last write did not happen.
Commit_Early ==
    /\ pos \in NKeys .. NKeys + 1 /\ mounted
    /\ accepted' = form /\ pos' = NKeys + 2
    /\ UNCHANGED <<nvs, mounted, ram, form, saves>>

\* nvs_commit: config_save returns ESP_OK.
Commit ==
    /\ pos = NKeys + 1 /\ mounted
    /\ accepted' = form /\ pos' = NKeys + 2
    /\ UNCHANGED <<nvs, mounted, ram, form, saves>>

\* *s_cfg = new_cfg, and the page says so.
SaveDone ==
    /\ pos = NKeys + 2
    /\ ram' = form
    /\ pos' = 0 /\ form' = NoCfg
    /\ UNCHANGED <<nvs, mounted, saves, accepted>>
-----------------------------------------------------------------------------
(* Power, the reset button and booting. *)

\* The device restarts, for whatever reason and wherever a save is: app_main
\* initialises NVS and loads the configuration.  (A boot that cannot open NVS, or
\* cannot erase it when it must, aborts before anything is written or started, and
\* the device boots again: it is left out.)
Restart ==
    /\ mounted' = TRUE
    /\ ram' = config_load(nvs)
    /\ form' = NoCfg /\ pos' = 0
    /\ UNCHANGED <<nvs, saves, accepted>>

\* ... or finds the partition unusable and erases it first.
RestartErasing ==
    /\ nvs' = Erased /\ mounted' = TRUE
    /\ ram' = config_load(Erased)
    /\ form' = NoCfg /\ pos' = 0
    /\ accepted' = NoCfg
    /\ UNCHANGED saves

\* led_button_task after RESET_HOLD_MS: nvs_flash_erase unmounts the partition,
\* which invalidates the handle of a save in progress; the restart is 500 ms away.
\* Then it erases one sector after another.  Nobody looks at its result: when it
\* fails, or power is lost on the way, some keys are still there.
FactoryErase ==
    /\ mounted
    /\ \E kept \in EraseKeeps :
          nvs' = [key \in Keys |-> IF key \in kept THEN nvs[key] ELSE Absent]
    /\ mounted' = FALSE
    /\ accepted' = NoCfg
    /\ UNCHANGED <<ram, form, pos, saves>>

Next ==
    \/ \E usb, wifi \in PostNets, txp \in PostTx : PostConfig(usb, wifi, txp)
    \/ \E rules \in PostRules : PostForward(rules)
    \/ WriteKey \/ SaveFails \/ Commit \/ SaveDone
    \/ Restart \/ RestartErasing \/ FactoryErase

Spec == Init /\ [][Next]_vars
-----------------------------------------------------------------------------
(* Properties *)

\* Every variable has its type.
TypeOK ==
    /\ NvsType(nvs)
    /\ mounted \in BOOLEAN
    /\ ram \in Config
    /\ pos \in 0 .. NKeys + 2
    /\ form \in IF pos = 0 THEN {NoCfg} ELSE Config
    /\ saves \in 0 .. MaxSaves
    /\ accepted \in Config \cup {NoCfg}

\* What every component started by app_main relies on: two networks with room
\* for a DHCP pool (router_configure_dhcps aborts the boot otherwise) that do not
\* overlap (router_start only warns, but then no reply carries a route), a transmit
\* power the driver takes, and rules that port_forward_start starts without passing
\* one over.
ValidConfig(cfg) ==
    /\ nets_valid(cfg)
    /\ cfg.wifi_tx_power \in MinTx .. MaxTx
    /\ rules_valid(cfg)

\* Wherever a save or an erase was cut off or failed, and whatever older firmware
\* left, the next boot that can read flash finds a usable configuration: the device
\* cannot be locked out by a mixture of old and new keys.
NextBootWorks == ValidConfig(config_load(nvs))

\* The live networks stay usable across every save the handlers accept.
LiveNetworksUsable == nets_valid(ram)

\* A configuration that was saved in full is what the next boot loads, as far as
\* config_sanitize lets it, whatever torn saves went before.
AcceptedSurvives ==
    accepted # NoCfg => config_load(nvs) = config_sanitize(accepted)

\* Port-forward rules the page accepted come back enabled after a restart while
\* the USB network is the one they were accepted for.
AcceptedRulesComeBack ==
    accepted # NoCfg /\ rules_valid(accepted) =>
        \A i \in Rules : accepted.port_forwards[i].enabled = 1 =>
            config_load(nvs).port_forwards[i] = accepted.port_forwards[i]

\* "NVS persistence -- all config survives reboot" (README.md:39): an enabled
\* rule whose save was reported as done does.
EnabledRulesSurvive ==
    accepted # NoCfg =>
        \A i \in Rules : accepted.port_forwards[i].enabled # 0 =>
            config_load(nvs).port_forwards[i] = accepted.port_forwards[i]
-----------------------------------------------------------------------------
(* The store as its owner sees it *)

Service == INSTANCE ConfigService WITH
    Loaded <- config_load, Repaired <- config_sanitize,
    Usable <- ValidConfig, NetsUsable <- nets_valid,
    Default <- Defaults, Nothing <- NoCfg,
    live <- ram, flash <- nvs, saving <- form,
    stored <- (pos = NKeys + 2), reset <- ~mounted

\* The keyed, torn and interrupted saves implement the store of ConfigService: the
\* live configuration changes only by a restart or by a save that is complete; what
\* the next boot loads changes only while a save runs, is usable throughout and is
\* what was saved once the page says so; and to what a factory reset leaves, be it
\* nothing or a part, the save that it interrupts adds nothing.
ImplementsConfigService == Service!Spec
=============================================================================
