------------------------- MODULE ConfigStore_proofs -------------------------
(***************************************************************************)
(* What config_sanitize and config_load guarantee for every address width, *)
(* every table of rules and every content of flash; and, with the readers  *)
(* of HotConfig, that a save shows in no DHCP reply before it is complete. *)
(***************************************************************************)
EXTENDS HotConfig, TLAPS

\* A block of addresses is never empty.
LEMMA BlockPositive == ASSUME NEW p \in Nat PROVE BlockSize(p) \in Nat \ {0}
<1>1. CASE p >= AddrBits
  BY <1>1 DEF BlockSize
<1>2. CASE ~(p >= AddrBits)
  <2>1. AddrBits - p \in 0 .. AddrBits
    BY <1>2, AddressingAssumption
  <2>2. 2 ^ (AddrBits - p) \in Nat \ {0}
    BY <2>1, PowersOfTwo
  <2> QED
    BY <1>2, <2>2 DEF BlockSize
<1> QED
  BY <1>1, <1>2

\* Clearing the host bits of an address gives an address.
LEMMA MaskedType == ASSUME NEW ip \in Nat, NEW p \in Nat PROVE Masked(ip, p) \in Nat
<1>1. PICK b \in Nat \ {0} : b = BlockSize(p)
  BY BlockPositive
<1>2. ip % b \in 0 .. ip
  BY SMT
<1> QED
  BY <1>1, <1>2 DEF Masked

\* A network that is valid has no host bits to clear.
LEMMA ValidIsMasked ==
    ASSUME NEW subnet \in Nat, NEW p \in Nat, network_is_valid(subnet, p)
    PROVE  Masked(subnet, p) = subnet
  BY DEF network_is_valid, Masked

\* Whatever rules it is given, the loop of config_sanitize leaves a table of rules.
LEMMA SanitizedTable ==
    ASSUME NEW rules \in [Rules -> Rule], NEW subnet \in Nat, NEW p \in Nat
    PROVE  sanitize_rules(rules, subnet, p) \in [Rules -> Rule]
<1> DEFINE out == sanitize_rules(rules, subnet, p)
<1>1. ASSUME NEW i \in Rules PROVE out[i] \in Rule
  <2>1. rules[i] \in Rule
    OBVIOUS
  <2>2. [rules[i] EXCEPT !.enabled = 1] \in Rule
    BY <2>1 DEF Rule
  <2>3. NoRule \in Rule
    BY DEF NoRule, Rule
  <2>4. out[i] \in {[rules[i] EXCEPT !.enabled = 1], NoRule}
    BY DEF sanitize_rules
  <2> QED
    BY <2>2, <2>3, <2>4
<1> QED
  BY <1>1 DEF sanitize_rules

\* parse_subnet_text leaves a network that config_sanitize keeps.
LEMMA MaskedIsValid ==
    ASSUME NEW ip \in Nat, NEW p \in MinPrefix .. MaxPrefix
    PROVE  network_is_valid(Masked(ip, p), p)
<1>1. p \in Nat
  BY AddressingAssumption
<1>2. PICK b \in Nat \ {0} : b = BlockSize(p)
  BY <1>1, BlockPositive
<1>3. (ip - (ip % b)) % b = 0
  BY SMT
<1> QED
  BY <1>2, <1>3 DEF network_is_valid, Masked

\* The loop of config_sanitize leaves rules that validate_port_forwards would
\* accept on the network they were checked for.
LEMMA SanitizedRules ==
    ASSUME NEW rules \in [Rules -> Rule], NEW subnet \in Nat, NEW p \in Nat,
           NEW cfg \in Config, cfg.usb_subnet = subnet, cfg.usb_prefix_len = p,
           cfg.port_forwards = sanitize_rules(rules, subnet, p)
    PROVE  rules_valid(cfg)
<1> DEFINE out == sanitize_rules(rules, subnet, p)
           usable(i) == rule_usable(rules[i], subnet, p)
           duplicate(i) == \E j \in 0 .. i - 1 :
                              usable(j) /\ rules[j].listen_port = rules[i].listen_port
<1>1. \A i \in Rules : out[i] = IF usable(i) /\ ~duplicate(i)
                                THEN [rules[i] EXCEPT !.enabled = 1] ELSE NoRule
  BY DEF sanitize_rules
<1>2. ASSUME NEW i \in Rules, out[i].enabled # 0
      PROVE  /\ usable(i) /\ ~duplicate(i) /\ out[i].listen_port = rules[i].listen_port
             /\ out[i].target_ip = rules[i].target_ip
             /\ out[i].target_port = rules[i].target_port
  <2>1. usable(i) /\ ~duplicate(i) /\ out[i] = [rules[i] EXCEPT !.enabled = 1]
    BY <1>1, <1>2 DEF NoRule
  <2>2. rules[i] \in Rule
    OBVIOUS
  <2> QED
    BY <2>1, <2>2 DEF Rule
<1>3. ASSUME NEW i \in Rules, out[i].enabled # 0
      PROVE  rule_usable(out[i], subnet, p)
  BY <1>2, <1>3 DEF rule_usable
<1>4. ASSUME NEW i \in Rules, out[i].enabled # 0,
             NEW j \in 0 .. i - 1, out[j].enabled # 0
      PROVE  out[j].listen_port # out[i].listen_port
  <2>1. j \in Rules
    BY ConfigStoreAssumption DEF Rules
  <2>2. usable(j) /\ out[j].listen_port = rules[j].listen_port
    BY ONLY <1>2, <1>4, <2>1
  <2>3. ~duplicate(i) /\ out[i].listen_port = rules[i].listen_port
    BY <1>2, <1>4
  <2> QED
    BY <2>2, <2>3
<1> QED
  BY <1>3, <1>4 DEF rules_valid

\* config_sanitize turns any configuration into one that every component accepts.
LEMMA SanitizedConfig ==
    ASSUME NEW cfg \in Config
    PROVE  config_sanitize(cfg) \in Config /\ ValidConfig(config_sanitize(cfg))
<1> DEFINE nets == IF nets_valid(cfg) THEN cfg ELSE Defaults
           out == config_sanitize(cfg)
<1>1. nets \in Config /\ nets_valid(nets)
  BY ConfigStoreAssumption
<1>2. /\ nets.usb_subnet \in Nat /\ nets.usb_prefix_len \in Nat
      /\ nets.wifi_subnet \in Nat /\ nets.wifi_prefix_len \in Nat
  BY <1>1 DEF Config
<1>3. /\ Masked(nets.usb_subnet, nets.usb_prefix_len) = nets.usb_subnet
      /\ Masked(nets.wifi_subnet, nets.wifi_prefix_len) = nets.wifi_subnet
  BY <1>1, <1>2, ValidIsMasked DEF nets_valid
<1>4. PICK rules \in [Rules -> Rule] : rules = cfg.port_forwards
  BY DEF Config
<1>5. out = [usb_subnet |-> nets.usb_subnet, usb_prefix_len |-> nets.usb_prefix_len,
             wifi_subnet |-> nets.wifi_subnet, wifi_prefix_len |-> nets.wifi_prefix_len,
             wifi_tx_power |-> IF cfg.wifi_tx_power < MinTx \/ cfg.wifi_tx_power > MaxTx
                               THEN Defaults.wifi_tx_power ELSE cfg.wifi_tx_power,
             port_forwards |-> sanitize_rules(rules, nets.usb_subnet, nets.usb_prefix_len)]
  BY <1>3, <1>4 DEF config_sanitize
<1>6. out.wifi_tx_power \in MinTx .. MaxTx
  <2>1. cfg.wifi_tx_power \in Int
    BY DEF Config
  <2> QED
    BY <1>5, <2>1, ConfigStoreAssumption
<1>7. sanitize_rules(rules, nets.usb_subnet, nets.usb_prefix_len) \in [Rules -> Rule]
  BY <1>2, SanitizedTable
<1>8. out \in Config
  BY <1>2, <1>5, <1>6, <1>7, ConfigStoreAssumption DEF Config
<1>9. rules_valid(out)
  BY <1>2, <1>5, <1>8, SanitizedRules
<1>10. nets_valid(out)
  BY <1>1, <1>5 DEF nets_valid
<1> QED
  BY <1>6, <1>8, <1>9, <1>10 DEF ValidConfig
-----------------------------------------------------------------------------
\* The keys a rule is stored under are among those config_save writes.
LEMMA RuleKeysStored ==
    ASSUME NEW i \in Rules, NEW name \in {"enabled", "lport", "tip", "tport"}
    PROVE  <<name, i>> \in Keys
<1>1. i \in Nat /\ i < NRules /\ NRules \in Nat
  BY ConfigStoreAssumption DEF Rules
<1>2. PICK k \in 0 .. 3 : RuleKeys[k + 1] = name
  <2>1. /\ RuleKeys[0 + 1] = "enabled" /\ RuleKeys[1 + 1] = "lport"
        /\ RuleKeys[2 + 1] = "tip" /\ RuleKeys[3 + 1] = "tport"
    BY DEF RuleKeys
  <2> QED
    BY <2>1
<1> DEFINE n == 8 + 4 * i + k
<1>3. n \in 1 .. NKeys /\ ~(n <= 7)
  BY <1>1 DEF NKeys
<1>4. (n - 8) % 4 = k /\ (n - 8) \div 4 = i
  BY <1>1
<1>5. SaveKey(n) = <<name, i>>
  BY <1>2, <1>3, <1>4 DEF SaveKey
<1> QED
  BY <1>3, <1>5 DEF Keys

\* The keys of the other fields, likewise.
LEMMA GlobalKeysStored ==
    ASSUME NEW name \in {"usb_ip", "usb_pfx", "wifi_ip", "wifi_pfx",
                         "dhcp_ip", "dhcp_pfx", "wifi_txp"}
    PROVE  <<name, 0>> \in Keys
<1>1. PICK n \in 1 .. 7 : GlobalKeys[n] = name
  <2>1. /\ GlobalKeys[1] = "usb_ip" /\ GlobalKeys[2] = "usb_pfx"
        /\ GlobalKeys[3] = "wifi_ip" /\ GlobalKeys[4] = "wifi_pfx"
        /\ GlobalKeys[5] = "dhcp_ip" /\ GlobalKeys[6] = "dhcp_pfx"
        /\ GlobalKeys[7] = "wifi_txp"
    BY DEF GlobalKeys
  <2> QED
    BY <2>1
<1>2. n \in 1 .. NKeys /\ SaveKey(n) = <<name, 0>>
  BY <1>1, ConfigStoreAssumption DEF NKeys, SaveKey
<1> QED
  BY <1>2 DEF Keys

\* Whatever keys are missing, what config_load reads is a configuration.
LEMMA ReadType == ASSUME NEW store, NvsType(store) PROVE read_config(store) \in Config
<1> DEFINE R(i, name, otherwise) == Get(store, <<name, i>>, otherwise)
           G(name, otherwise) == Get(store, <<name, 0>>, otherwise)
<1>1. ASSUME NEW key \in Keys, key[1] # "wifi_txp", NEW d \in Nat
      PROVE  Get(store, key, d) \in Nat
  BY <1>1 DEF Get, NvsType
<1>2. /\ Defaults.usb_subnet \in Nat /\ Defaults.usb_prefix_len \in Nat
      /\ Defaults.wifi_subnet \in Nat /\ Defaults.wifi_prefix_len \in Nat
      /\ Defaults.wifi_tx_power \in Int
  BY ConfigStoreAssumption DEF Config
<1>3. ASSUME NEW i \in Rules, NEW name \in {"enabled", "lport", "tip", "tport"}
      PROVE  R(i, name, 0) \in Nat
  <2>1. <<name, i>> \in Keys /\ <<name, i>>[1] # "wifi_txp"
    BY RuleKeysStored
  <2> QED
    BY <1>1, <2>1
<1>4. ASSUME NEW name \in {"usb_ip", "usb_pfx", "wifi_ip", "wifi_pfx", "dhcp_ip", "dhcp_pfx"},
             NEW d \in Nat
      PROVE  G(name, d) \in Nat
  <2>1. <<name, 0>> \in Keys /\ <<name, 0>>[1] # "wifi_txp"
    BY GlobalKeysStored
  <2> QED
    BY <1>1, <2>1
<1>5. G("wifi_txp", Defaults.wifi_tx_power) \in Int
  <2>1. <<"wifi_txp", 0>> \in Keys
    BY GlobalKeysStored
  <2> QED
    BY <1>2, <2>1 DEF Get, NvsType
<1>6. /\ G("usb_ip", Defaults.usb_subnet) \in Nat
      /\ G("usb_pfx", Defaults.usb_prefix_len) \in Nat
      /\ G("wifi_ip", G("dhcp_ip", Defaults.wifi_subnet)) \in Nat
      /\ G("wifi_pfx", G("dhcp_pfx", Defaults.wifi_prefix_len)) \in Nat
  <2>1. G("dhcp_ip", Defaults.wifi_subnet) \in Nat
    BY <1>2, <1>4
  <2>2. G("dhcp_pfx", Defaults.wifi_prefix_len) \in Nat
    BY <1>2, <1>4
  <2>3. PICK d, e \in Nat : /\ d = G("dhcp_ip", Defaults.wifi_subnet)
                            /\ e = G("dhcp_pfx", Defaults.wifi_prefix_len)
    BY <2>1, <2>2
  <2>4. G("wifi_ip", d) \in Nat /\ G("wifi_pfx", e) \in Nat
    BY <1>4
  <2> QED
    BY <1>2, <1>4, <2>3, <2>4
<1>7. [i \in Rules |->
         [enabled |-> R(i, "enabled", 0), listen_port |-> R(i, "lport", 0),
          target_ip |-> R(i, "tip", 0), target_port |-> R(i, "tport", 0)]]
        \in [Rules -> Rule]
  BY <1>3 DEF Rule
<1> HIDE DEF R, G
<1> QED
  BY <1>5, <1>6, <1>7 DEF read_config, Config, R, G

\* Whatever is in flash, config_load yields a configuration that every component
\* accepts.
LEMMA LoadedConfig ==
    ASSUME NEW store, NvsType(store)
    PROVE  config_load(store) \in Config /\ ValidConfig(config_load(store))
<1>1. CASE \A key \in Keys : store[key] = Absent
  <2>1. rules_valid(Defaults)
    BY ConfigStoreAssumption DEF rules_valid
  <2> QED
    BY <1>1, <2>1, ConfigStoreAssumption DEF config_load, ValidConfig
<1>2. CASE ~ \A key \in Keys : store[key] = Absent
  <2>1. read_config(store) \in Config
    BY ReadType
  <2> QED
    BY <1>2, <2>1, SanitizedConfig DEF config_load
<1> QED
  BY <1>1, <1>2
-----------------------------------------------------------------------------
\* What config_save writes under a key has the type config_load expects there.
LEMMA SavedType ==
    ASSUME NEW cfg \in Config, NEW key \in Keys
    PROVE  /\ Saved(cfg, key) \in Int
           /\ key[1] # "wifi_txp" => Saved(cfg, key) \in Nat
<1>1. PICK n \in 1 .. NKeys : key = SaveKey(n)
  BY DEF Keys
<1>2. /\ cfg.usb_subnet \in Nat /\ cfg.usb_prefix_len \in Nat
      /\ cfg.wifi_subnet \in Nat /\ cfg.wifi_prefix_len \in Nat
      /\ cfg.wifi_tx_power \in Int
  BY DEF Config
<1>3. CASE n <= 7
  <2>1. key[1] = GlobalKeys[n]
    BY <1>1, <1>3 DEF SaveKey
  <2>2. n \in 1 .. 7
    BY <1>3
  <2>3. key[1] \in {"usb_ip", "usb_pfx", "wifi_ip", "wifi_pfx", "dhcp_ip", "dhcp_pfx", "wifi_txp"}
    BY <2>1, <2>2 DEF GlobalKeys
  <2> QED
    BY <1>2, <2>3 DEF Saved
<1>4. CASE ~(n <= 7)
  <2>1. NRules \in Nat /\ n \in 8 .. 7 + 4 * NRules
    BY <1>4, ConfigStoreAssumption DEF NKeys
  <2>2. (n - 8) \div 4 \in 0 .. NRules - 1 /\ (n - 8) % 4 \in 0 .. 3
    BY <2>1
  <2>3. key[1] = RuleKeys[((n - 8) % 4) + 1] /\ key[2] \in Rules
    BY <1>1, <1>4, <2>2 DEF SaveKey, Rules
  <2>4. key[1] \in {"enabled", "lport", "tip", "tport"}
    BY <2>2, <2>3 DEF RuleKeys
  <2>5. cfg.port_forwards[key[2]] \in Rule
    BY <2>3 DEF Config
  <2>6. /\ cfg.port_forwards[key[2]].enabled \in Nat
        /\ cfg.port_forwards[key[2]].listen_port \in Nat
        /\ cfg.port_forwards[key[2]].target_ip \in Nat
        /\ cfg.port_forwards[key[2]].target_port \in Nat
    BY <2>5 DEF Rule
  <2> QED
    BY <2>4, <2>6 DEF Saved
<1> QED
  BY <1>3, <1>4

\* Empty flash has the type of flash.
LEMMA ErasedType == NvsType(Erased)
  BY DEF NvsType, Erased

\* A form that carries networks and a transmit power yields a configuration.
LEMMA PostedType ==
    ASSUME NEW cfg \in Config, NEW usb \in Nat, NEW up \in Nat,
           NEW wifi \in Nat, NEW wp \in Nat, NEW txp \in Int
    PROVE  [cfg EXCEPT !.usb_subnet = usb, !.usb_prefix_len = up, !.wifi_subnet = wifi,
                       !.wifi_prefix_len = wp, !.wifi_tx_power = txp] \in Config
  BY DEF Config

\* The configurations the handlers save: typed, and with usable networks when
\* the live ones are.
LEMMA PostConfigForm ==
    ASSUME TypeOK, NEW usb \in PostNets, NEW wifi \in PostNets, NEW txp \in PostTx,
           PostConfig(usb, wifi, txp)
    PROVE  /\ form' \in Config /\ nets_valid(form') /\ pos = 0 /\ pos' = 1
           /\ saves' \in 0 .. MaxSaves
           /\ UNCHANGED <<nvs, mounted, ram, accepted>>
<1> DEFINE cfg == [ram EXCEPT !.usb_subnet = Masked(usb[1], usb[2]),
                              !.usb_prefix_len = usb[2],
                              !.wifi_subnet = Masked(wifi[1], wifi[2]),
                              !.wifi_prefix_len = wifi[2],
                              !.wifi_tx_power = txp]
<1>1. /\ usb[1] \in Nat /\ usb[2] \in Nat /\ wifi[1] \in Nat /\ wifi[2] \in Nat
      /\ txp \in Int
  BY ConfigStoreAssumption
<1>2. PICK u, w \in Nat : u = Masked(usb[1], usb[2]) /\ w = Masked(wifi[1], wifi[2])
  BY <1>1, MaskedType
<1>3. ram \in Config
  BY DEF TypeOK
<1>4. cfg \in Config
  BY <1>1, <1>2, <1>3, PostedType
<1>5. /\ cfg.usb_subnet = u /\ cfg.usb_prefix_len = usb[2]
      /\ cfg.wifi_subnet = w /\ cfg.wifi_prefix_len = wifi[2]
  BY <1>2, <1>3 DEF Config
<1>6. /\ usb[2] \in MinPrefix .. MaxPrefix /\ wifi[2] \in MinPrefix .. MaxPrefix
      /\ ~subnets_overlap(cfg.usb_subnet, cfg.usb_prefix_len,
                          cfg.wifi_subnet, cfg.wifi_prefix_len)
      /\ BeginSave(cfg)
  BY DEF PostConfig
<1>7. network_is_valid(u, usb[2]) /\ network_is_valid(w, wifi[2])
  BY <1>1, <1>2, <1>6, MaskedIsValid
<1>8. nets_valid(cfg)
  BY <1>5, <1>6, <1>7 DEF nets_valid
<1>9. saves \in 0 .. MaxSaves /\ MaxSaves \in Nat
  BY ConfigStoreAssumption DEF TypeOK
<1> QED
  BY <1>4, <1>6, <1>8, <1>9 DEF BeginSave

\* ... and with the networks of the live configuration, for the rules page.
LEMMA PostForwardForm ==
    ASSUME TypeOK, NEW rules \in PostRules, PostForward(rules)
    PROVE  /\ form' \in Config /\ (nets_valid(ram) => nets_valid(form'))
           /\ pos = 0 /\ pos' = 1 /\ saves' \in 0 .. MaxSaves
           /\ UNCHANGED <<nvs, mounted, ram, accepted>>
<1> DEFINE cfg == [ram EXCEPT !.port_forwards = rules]
<1>1. ram \in Config /\ rules \in [Rules -> Rule]
  BY ConfigStoreAssumption DEF TypeOK
<1>2. cfg \in Config
  BY <1>1 DEF Config
<1>3. /\ cfg.usb_subnet = ram.usb_subnet /\ cfg.usb_prefix_len = ram.usb_prefix_len
      /\ cfg.wifi_subnet = ram.wifi_subnet /\ cfg.wifi_prefix_len = ram.wifi_prefix_len
  BY <1>1 DEF Config
<1>4. nets_valid(ram) => nets_valid(cfg)
  BY <1>3 DEF nets_valid
<1>5. saves \in 0 .. MaxSaves /\ MaxSaves \in Nat
  BY ConfigStoreAssumption DEF TypeOK
<1>6. BeginSave(cfg)
  BY DEF PostForward
<1> QED
  BY <1>2, <1>4, <1>5, <1>6 DEF BeginSave
-----------------------------------------------------------------------------
(* The invariant: besides the types, the networks of the live configuration  *)
(* are usable and so are those of the copy a handler is saving, which is     *)
(* what SaveDone makes live.                                                 *)
NetsInv == nets_valid(ram) /\ (pos # 0 => nets_valid(form))
ConfigInv == TypeOK /\ NetsInv

\* Every first boot, fresh or after an update, establishes the invariant.
LEMMA InitConfig == ASSUME Init PROVE ConfigInv
<1>1. NvsType(nvs)
  BY ConfigStoreAssumption DEF Init
<1>2. ram \in Config /\ nets_valid(ram)
  BY <1>1, LoadedConfig DEF Init, ValidConfig
<1> QED
  BY <1>1, <1>2, ConfigStoreAssumption DEF Init, ConfigInv, NetsInv, TypeOK, NKeys

\* Every step preserves it.
LEMMA StepConfig == ASSUME ConfigInv, [Next]_vars PROVE ConfigInv'
<1> USE DEF ConfigInv
<1>1. NKeys \in Nat /\ 1 <= NKeys
  BY ConfigStoreAssumption DEF NKeys
<1>2. ASSUME NEW usb \in PostNets, NEW wifi \in PostNets, NEW txp \in PostTx,
             PostConfig(usb, wifi, txp)
      PROVE  ConfigInv'
  <2>1. /\ form' \in Config /\ nets_valid(form') /\ pos' = 1 /\ saves' \in 0 .. MaxSaves
        /\ UNCHANGED <<nvs, mounted, ram, accepted>>
    BY <1>2, PostConfigForm
  <2> QED
    BY <1>1, <2>1 DEF TypeOK, NetsInv, NvsType, nets_valid
<1>3. ASSUME NEW rules \in PostRules, PostForward(rules) PROVE ConfigInv'
  <2>1. /\ form' \in Config /\ nets_valid(form') /\ pos' = 1 /\ saves' \in 0 .. MaxSaves
        /\ UNCHANGED <<nvs, mounted, ram, accepted>>
    BY <1>3, PostForwardForm DEF NetsInv
  <2> QED
    BY <1>1, <2>1 DEF TypeOK, NetsInv, NvsType, nets_valid
<1>4. CASE WriteKey
  <2>1. PICK key \in Keys : key = SaveKey(pos)
    BY <1>4 DEF WriteKey, Keys
  <2>2. pos \in 1 .. NKeys /\ form \in Config /\ nvs' = [nvs EXCEPT ![key] = Saved(form, key)]
    BY <1>4, <2>1 DEF WriteKey, TypeOK
  <2>3. Saved(form, key) \in Int /\ (key[1] # "wifi_txp" => Saved(form, key) \in Nat)
    BY <2>2, SavedType
  <2>4. NvsType(nvs')
    BY <2>2, <2>3 DEF TypeOK, NvsType
  <2> QED
    BY <1>1, <1>4, <2>2, <2>4 DEF WriteKey, TypeOK, NetsInv, NvsType, nets_valid
<1>5. CASE SaveFails
  BY <1>1, <1>5 DEF SaveFails, TypeOK, NetsInv, NvsType, nets_valid
<1>6. CASE SaveDone
  <2>1. pos # 0 /\ form \in Config /\ nets_valid(form)
    BY <1>1, <1>6 DEF SaveDone, TypeOK, NetsInv
  <2> QED
    BY <1>1, <1>6, <2>1 DEF SaveDone, TypeOK, NetsInv, NvsType, nets_valid
<1>11. CASE Commit
  <2>1. pos # 0 /\ form \in Config /\ nets_valid(form)
    BY <1>1, <1>11 DEF Commit, TypeOK, NetsInv
  <2> QED
    BY <1>1, <1>11, <2>1 DEF Commit, TypeOK, NetsInv, NvsType, nets_valid
<1>7. CASE Restart
  <2>1. config_load(nvs) \in Config /\ nets_valid(config_load(nvs))
    BY LoadedConfig DEF TypeOK, ValidConfig
  <2> QED
    BY <1>1, <1>7, <2>1 DEF Restart, TypeOK, NetsInv, NvsType, nets_valid
<1>8. CASE RestartErasing
  <2>1. config_load(Erased) \in Config /\ nets_valid(config_load(Erased))
    BY ErasedType, LoadedConfig DEF ValidConfig
  <2>2. NvsType(nvs')
    BY <1>8, ErasedType DEF RestartErasing
  <2> QED
    BY <1>1, <1>8, <2>1, <2>2 DEF RestartErasing, TypeOK, NetsInv, nets_valid, NvsType
<1>9. CASE FactoryErase
  <2>1. NvsType(nvs')
    BY <1>9 DEF FactoryErase, TypeOK, NvsType
  <2> QED
    BY <1>9, <2>1 DEF FactoryErase, TypeOK, NetsInv, nets_valid, NvsType
<1>10. CASE UNCHANGED vars
  BY <1>10 DEF vars, TypeOK, NetsInv, NvsType, nets_valid
<1> QED
  BY <1>2, <1>3, <1>4, <1>5, <1>6, <1>7, <1>8, <1>9, <1>10, <1>11 DEF Next

\* The invariant holds in every state.
LEMMA ConfigInvariant == Spec => []ConfigInv
<1>1. Init => ConfigInv
  BY InitConfig
<1>2. ConfigInv /\ [Next]_vars => ConfigInv'
  BY StepConfig
<1> QED
  BY <1>1, <1>2, PTL DEF Spec

\* Every variable of the store keeps its type, flash included, through power
\* losses, failing writes and erasures.
THEOREM TypeCorrect == Spec => []TypeOK
<1>1. ConfigInv => TypeOK
  BY DEF ConfigInv
<1> QED
  BY <1>1, ConfigInvariant, PTL

\* Wherever power is lost, whichever write fails and whatever older firmware
\* left, the next boot finds a configuration every component accepts: the
\* device cannot lock its owner out.
THEOREM NextBootAlwaysWorks == Spec => []NextBootWorks
<1>1. ConfigInv => NextBootWorks
  BY LoadedConfig DEF ConfigInv, TypeOK, NextBootWorks
<1> QED
  BY <1>1, ConfigInvariant, PTL

\* The live configuration has two usable networks that do not overlap, whatever
\* the forms carried.
THEOREM LiveNetworksAlwaysUsable == Spec => []LiveNetworksUsable
<1>1. ConfigInv => LiveNetworksUsable
  BY DEF ConfigInv, NetsInv, LiveNetworksUsable
<1> QED
  BY <1>1, ConfigInvariant, PTL
-----------------------------------------------------------------------------
\* Flash holds the whole of a configuration.
Holds(store, cfg) == \A key \in Keys : store[key] = Saved(cfg, key)

\* Flash that holds a configuration is read back as that configuration.
LEMMA ReadsBack ==
    ASSUME NEW store, NEW cfg \in Config, Holds(store, cfg)
    PROVE  read_config(store) = cfg
<1> DEFINE R(i, name, otherwise) == Get(store, <<name, i>>, otherwise)
           G(name, otherwise) == Get(store, <<name, 0>>, otherwise)
<1>1. ASSUME NEW key \in Keys, NEW d PROVE Get(store, key, d) = Saved(cfg, key)
  <2>1. store[key] = Saved(cfg, key) /\ Saved(cfg, key) \in Int
    BY SavedType DEF Holds
  <2> QED
    BY <2>1, ConfigStoreAssumption DEF Get
<1>2. ASSUME NEW i \in Rules
      PROVE  /\ R(i, "enabled", 0) = cfg.port_forwards[i].enabled
             /\ R(i, "lport", 0) = cfg.port_forwards[i].listen_port
             /\ R(i, "tip", 0) = cfg.port_forwards[i].target_ip
             /\ R(i, "tport", 0) = cfg.port_forwards[i].target_port
  <2>1. /\ <<"enabled", i>> \in Keys /\ <<"lport", i>> \in Keys
        /\ <<"tip", i>> \in Keys /\ <<"tport", i>> \in Keys
    BY RuleKeysStored
  <2> QED
    BY <1>1, <2>1 DEF Saved
<1>3. [i \in Rules |->
         [enabled |-> R(i, "enabled", 0), listen_port |-> R(i, "lport", 0),
          target_ip |-> R(i, "tip", 0), target_port |-> R(i, "tport", 0)]]
        = cfg.port_forwards
  <2>1. PICK rules \in [Rules -> Rule] : rules = cfg.port_forwards
    BY DEF Config
  <2>2. ASSUME NEW i \in Rules
        PROVE  rules[i] = [enabled |-> R(i, "enabled", 0), listen_port |-> R(i, "lport", 0),
                           target_ip |-> R(i, "tip", 0), target_port |-> R(i, "tport", 0)]
    <3>1. rules[i] \in Rule
      BY <2>1
    <3> QED
      BY <1>2, <2>1, <3>1 DEF Rule
  <2> HIDE DEF R
  <2> QED
    BY <2>1, <2>2
<1>4. /\ <<"usb_ip", 0>> \in Keys /\ <<"usb_pfx", 0>> \in Keys
      /\ <<"wifi_ip", 0>> \in Keys /\ <<"wifi_pfx", 0>> \in Keys
      /\ <<"wifi_txp", 0>> \in Keys
  BY GlobalKeysStored
<1>5. ASSUME NEW d
      PROVE  /\ G("usb_ip", d) = cfg.usb_subnet /\ G("usb_pfx", d) = cfg.usb_prefix_len
             /\ G("wifi_ip", d) = cfg.wifi_subnet /\ G("wifi_pfx", d) = cfg.wifi_prefix_len
             /\ G("wifi_txp", d) = cfg.wifi_tx_power
  BY <1>1, <1>4 DEF Saved
<1> HIDE DEF R, G
<1>6. read_config(store)
        = [usb_subnet |-> cfg.usb_subnet, usb_prefix_len |-> cfg.usb_prefix_len,
           wifi_subnet |-> cfg.wifi_subnet, wifi_prefix_len |-> cfg.wifi_prefix_len,
           wifi_tx_power |-> cfg.wifi_tx_power, port_forwards |-> cfg.port_forwards]
  BY <1>3, <1>5 DEF read_config, R, G
<1> QED
  BY <1>6 DEF Config

\* ... which a boot then repairs and uses.
LEMMA HeldIsLoaded ==
    ASSUME NEW store, NEW cfg \in Config, Holds(store, cfg)
    PROVE  config_load(store) = config_sanitize(cfg)
<1>1. <<"usb_ip", 0>> \in Keys
  BY GlobalKeysStored
<1>2. store[<<"usb_ip", 0>>] # Absent
  BY <1>1, SavedType, ConfigStoreAssumption DEF Holds
<1> QED
  BY <1>1, <1>2, ReadsBack DEF config_load

(* What a save has written so far, and what an accepted one left behind.     *)
WrittenInv ==
    /\ mounted /\ pos # 0 =>
          \A n \in 1 .. NKeys : n < pos => nvs[SaveKey(n)] = Saved(form, SaveKey(n))
    /\ accepted # NoCfg => Holds(nvs, accepted)

\* Every step keeps account of what has been written.
LEMMA StepWritten == ASSUME TypeOK, WrittenInv, [Next]_vars PROVE WrittenInv'
<1>1. NKeys \in Nat /\ pos \in 0 .. NKeys + 2 /\ nvs \in [Keys -> Int \cup {Absent}]
  BY ConfigStoreAssumption DEF NKeys, TypeOK, NvsType
<1>2. ASSUME NEW usb \in PostNets, NEW wifi \in PostNets, NEW txp \in PostTx,
             PostConfig(usb, wifi, txp)
      PROVE  WrittenInv'
  BY <1>2, PostConfigForm DEF WrittenInv, Holds
<1>3. ASSUME NEW rules \in PostRules, PostForward(rules) PROVE WrittenInv'
  BY <1>3, PostForwardForm DEF WrittenInv, Holds
<1>4. CASE WriteKey
  <2>1. /\ pos \in 1 .. NKeys /\ mounted /\ pos' = pos + 1 /\ form' = form
        /\ nvs' = [nvs EXCEPT ![SaveKey(pos)] = Saved(form, SaveKey(pos))]
        /\ accepted' = NoCfg
    BY <1>4 DEF WriteKey
  <2>2. ASSUME NEW n \in 1 .. NKeys, n < pos' PROVE nvs'[SaveKey(n)] = Saved(form, SaveKey(n))
    <3>1. SaveKey(n) \in Keys /\ SaveKey(pos) \in Keys
      BY <1>1, <2>1 DEF Keys
    <3>2. CASE SaveKey(n) = SaveKey(pos)
      BY <1>1, <2>1, <3>1, <3>2
    <3>3. CASE SaveKey(n) # SaveKey(pos)
      <4>1. n < pos
        BY <1>1, <2>1, <2>2, <3>3
      <4>2. nvs[SaveKey(n)] = Saved(form, SaveKey(n))
        BY <2>1, <4>1 DEF WrittenInv
      <4> QED
        BY <1>1, <2>1, <3>1, <3>3, <4>2
    <3> QED
      BY <3>2, <3>3
  <2> QED
    BY <2>1, <2>2 DEF WrittenInv
<1>5. CASE SaveFails
  BY <1>5 DEF SaveFails, WrittenInv, Holds
<1>6. CASE SaveDone
  BY <1>6 DEF SaveDone, WrittenInv, Holds
<1>11. CASE Commit
  <2>1. /\ pos = NKeys + 1 /\ mounted /\ pos' = NKeys + 2 /\ accepted' = form
        /\ nvs' = nvs /\ form' = form
    BY <1>11 DEF Commit
  <2>2. \A n \in 1 .. NKeys : nvs[SaveKey(n)] = Saved(form, SaveKey(n))
    BY <1>1, <2>1 DEF WrittenInv
  <2>3. Holds(nvs, form)
    BY <2>2 DEF Holds, Keys
  <2> QED
    BY <2>1, <2>2, <2>3 DEF WrittenInv, Holds
<1>7. CASE Restart
  BY <1>7 DEF Restart, WrittenInv, Holds
<1>8. CASE RestartErasing
  BY <1>8 DEF RestartErasing, WrittenInv
<1>9. CASE FactoryErase
  BY <1>9 DEF FactoryErase, WrittenInv
<1>10. CASE UNCHANGED vars
  BY <1>10 DEF vars, WrittenInv, Holds
<1> QED
  BY <1>2, <1>3, <1>4, <1>5, <1>6, <1>7, <1>8, <1>9, <1>10, <1>11 DEF Next

\* Flash that has been accounted for loads as what was accepted.
LEMMA WrittenSurvives == ASSUME TypeOK, WrittenInv PROVE AcceptedSurvives
  BY HeldIsLoaded DEF TypeOK, WrittenInv, AcceptedSurvives

LEMMA WrittenInvariant == Spec => []WrittenInv
<1>1. Init => WrittenInv
  BY DEF Init, WrittenInv
<1>2. TypeOK /\ WrittenInv /\ [Next]_vars => WrittenInv'
  BY StepWritten
<1> QED
  BY <1>1, <1>2, TypeCorrect, PTL DEF Spec

\* A configuration whose save was reported as done is the one the next boot
\* loads, whatever torn or failed saves and power losses went before.
THEOREM AcceptedAlwaysSurvives == Spec => []AcceptedSurvives
<1>1. TypeOK /\ WrittenInv => AcceptedSurvives
  BY WrittenSurvives
<1> QED
  BY <1>1, WrittenInvariant, TypeCorrect, PTL
-----------------------------------------------------------------------------
(* What was accepted has valid networks, and rules that were usable on them   *)
(* come back.                                                                *)

LEMMA KeysPositive == NKeys \in Nat /\ 1 <= NKeys
  BY ConfigStoreAssumption DEF NKeys

AcceptedNets == accepted # NoCfg => nets_valid(accepted)

LEMMA StepAcceptedNets == ASSUME ConfigInv, AcceptedNets, [Next]_vars PROVE AcceptedNets'
<1> USE DEF AcceptedNets
<1>1. CASE Commit
  <2>1. pos # 0 /\ accepted' = form
    BY <1>1, KeysPositive DEF Commit
  <2> QED BY <2>1 DEF ConfigInv, NetsInv
<1>2. CASE UNCHANGED accepted
  BY <1>2
<1>3. CASE accepted' = NoCfg
  BY <1>3
<1> QED
  BY <1>1, <1>2, <1>3
  DEF Next, vars, PostConfig, PostForward, BeginSave, WriteKey, SaveFails, SaveDone,
      Restart, RestartErasing, FactoryErase

LEMMA AcceptedNetsInvariant == Spec => []AcceptedNets
<1>1. Init => AcceptedNets
  BY DEF Init, AcceptedNets
<1>2. ConfigInv /\ AcceptedNets /\ [Next]_vars => AcceptedNets'
  BY StepAcceptedNets
<1> QED
  BY <1>1, <1>2, ConfigInvariant, PTL DEF Spec

\* The loop of config_sanitize leaves an enabled rule as it is when the page would
\* accept the table it is in.
LEMMA SanitizeKeepsValidRules ==
    ASSUME NEW cfg \in Config, rules_valid(cfg), NEW i \in Rules,
           cfg.port_forwards[i].enabled = 1
    PROVE  sanitize_rules(cfg.port_forwards, cfg.usb_subnet, cfg.usb_prefix_len)[i]
             = cfg.port_forwards[i]
<1> DEFINE usable(k) == rule_usable(cfg.port_forwards[k], cfg.usb_subnet, cfg.usb_prefix_len)
           duplicate(k) == \E j \in 0 .. k - 1 :
              usable(j) /\ cfg.port_forwards[j].listen_port = cfg.port_forwards[k].listen_port
<1>1. usable(i)
  BY DEF rules_valid
<1>2. ~ duplicate(i)
  <2>1. \A j \in 0 .. i - 1 : usable(j) => cfg.port_forwards[j].enabled # 0
    BY DEF rule_usable
  <2> QED BY <2>1 DEF rules_valid
<1>3. sanitize_rules(cfg.port_forwards, cfg.usb_subnet, cfg.usb_prefix_len)[i]
        = [cfg.port_forwards[i] EXCEPT !.enabled = 1]
  BY <1>1, <1>2 DEF sanitize_rules
<1>4. cfg.port_forwards[i] \in Rule
  BY DEF Config
<1> QED BY <1>3, <1>4 DEF Rule

\* Rules that the page accepted are enabled after any restart, as they were, as
\* long as the network they were accepted for is saved with them.
THEOREM AcceptedRulesAlwaysComeBack == Spec => []AcceptedRulesComeBack
<1>1. ASSUME TypeOK, AcceptedNets, AcceptedSurvives, accepted # NoCfg, rules_valid(accepted),
             NEW i \in Rules, accepted.port_forwards[i].enabled = 1
      PROVE  config_load(nvs).port_forwards[i] = accepted.port_forwards[i]
  <2>1. accepted \in Config /\ nets_valid(accepted)
    BY <1>1 DEF TypeOK, AcceptedNets
  <2>2. accepted.usb_subnet \in Nat /\ accepted.usb_prefix_len \in Nat
    BY <2>1 DEF Config
  <2>3. Masked(accepted.usb_subnet, accepted.usb_prefix_len) = accepted.usb_subnet
    BY <2>1, <2>2, ValidIsMasked DEF nets_valid
  <2>4. config_sanitize(accepted).port_forwards
          = sanitize_rules(accepted.port_forwards, accepted.usb_subnet, accepted.usb_prefix_len)
    BY <2>1, <2>3 DEF config_sanitize
  <2>5. config_load(nvs) = config_sanitize(accepted)
    BY <1>1 DEF AcceptedSurvives
  <2> QED BY <1>1, <2>1, <2>4, <2>5, SanitizeKeepsValidRules
<1>2. TypeOK /\ AcceptedNets /\ AcceptedSurvives => AcceptedRulesComeBack
  BY <1>1 DEF AcceptedRulesComeBack
<1> QED
  BY <1>2, TypeCorrect, AcceptedNetsInvariant, AcceptedAlwaysSurvives, PTL
-----------------------------------------------------------------------------
(* The store implements ConfigService.  The invariants say what its steps      *)
(* need: the types give the usable configuration of every content of flash,    *)
(* WrittenInv the one a complete save left, NetsInv the networks of a form.    *)

LEMMA StoreInit == ASSUME Init PROVE Service!Init
<1>1. NvsType(nvs) /\ ram = config_load(nvs)
  BY ConfigStoreAssumption DEF Init
<1>2. ValidConfig(ram)
  BY <1>1, LoadedConfig
<1>3. pos # NKeys + 2
  BY KeysPositive DEF Init
<1> QED BY <1>1, <1>2, <1>3 DEF Init, Service!Init

LEMMA LoadedErased == config_load(Erased) = Defaults
BY DEF config_load, Erased

\* What a step of the store is to its owner.
LEMMA StoreStepMaps ==
    ASSUME ConfigInv, ConfigInv', WrittenInv, [Next]_vars
    PROVE  [Service!Next]_(Service!svars)
<1> USE DEF ConfigInv
<1>0. /\ NKeys \in Nat /\ 1 <= NKeys
      /\ pos \in 0 .. NKeys + 2 /\ pos' \in 0 .. NKeys + 2
  BY KeysPositive DEF TypeOK
<1>a. (pos = 0 => form = NoCfg) /\ (pos # 0 => form \in Config /\ form # NoCfg)
  BY ConfigStoreAssumption DEF TypeOK
<1>b. mounted \in BOOLEAN
  BY DEF TypeOK
<1>1. ASSUME pos = 0, pos' = 1, form' \in Config, nets_valid(form'),
             UNCHANGED <<nvs, mounted, ram>>
      PROVE  Service!Begin
  <2>1. form' # NoCfg
    BY <1>1, ConfigStoreAssumption
  <2> QED BY <1>0, <1>a, <1>1, <2>1 DEF Service!Begin
<1>2. ASSUME NEW usb \in PostNets, NEW wifi \in PostNets, NEW txp \in PostTx,
             PostConfig(usb, wifi, txp)
      PROVE  Service!Begin
  BY <1>1, <1>2, PostConfigForm
<1>3. ASSUME NEW rules \in PostRules, PostForward(rules) PROVE Service!Begin
  BY <1>1, <1>3, PostForwardForm DEF NetsInv
<1>4. ASSUME WriteKey PROVE [Service!Write]_(Service!svars)
  <2>1. /\ pos \in 1 .. NKeys /\ mounted /\ pos' = pos + 1
        /\ UNCHANGED <<mounted, ram, form>>
    BY <1>4 DEF WriteKey
  <2>2. pos # NKeys + 2 /\ pos' # NKeys + 2 /\ form # NoCfg
    BY <1>0, <1>a, <2>1
  <2>3. ValidConfig(config_load(nvs'))
    BY LoadedConfig DEF TypeOK, NvsType
  <2>4. CASE nvs' # nvs
    BY <2>1, <2>2, <2>3, <2>4 DEF Service!Write
  <2>5. CASE nvs' = nvs
    BY <2>1, <2>2, <2>5 DEF Service!svars
  <2> QED BY <2>4, <2>5
<1>5. ASSUME SaveFails PROVE Service!Fail
  <2>1. pos # 0 /\ pos # NKeys + 2 /\ pos' # NKeys + 2
    BY <1>0, <1>5 DEF SaveFails
  <2> QED BY <1>5, <1>a, <2>1 DEF SaveFails, Service!Fail
<1>6. ASSUME Commit PROVE Service!Complete
  <2>1. /\ pos = NKeys + 1 /\ mounted /\ pos' = NKeys + 2
        /\ UNCHANGED <<nvs, mounted, ram, form>>
    BY <1>6 DEF Commit
  <2>2. pos # 0 /\ pos # NKeys + 2 /\ form \in Config /\ form # NoCfg
    BY <1>0, <1>a, <2>1
  <2>3. \A n \in 1 .. NKeys : nvs[SaveKey(n)] = Saved(form, SaveKey(n))
    BY <1>0, <2>1, <2>2 DEF WrittenInv
  <2>4. Holds(nvs, form)
    BY <2>3 DEF Holds, Keys
  <2>5. config_load(nvs) = config_sanitize(form)
    BY <2>2, <2>4, HeldIsLoaded
  <2> QED BY <2>1, <2>2, <2>5 DEF Service!Complete
<1>7. ASSUME SaveDone PROVE Service!Adopt
  BY <1>0, <1>7 DEF SaveDone, Service!Adopt
<1>8. ASSUME Restart PROVE Service!Boot
  BY <1>0, <1>8 DEF Restart, Service!Boot
<1>9. ASSUME RestartErasing PROVE Service!Boot
  BY <1>0, <1>9, LoadedErased DEF RestartErasing, Service!Boot
<1>10. ASSUME FactoryErase PROVE Service!Reset
  <2>1. ValidConfig(config_load(nvs'))
    BY LoadedConfig DEF TypeOK
  <2> QED BY <1>0, <1>10, <2>1 DEF FactoryErase, Service!Reset
<1>11. CASE UNCHANGED vars
  BY <1>11 DEF vars, Service!svars
<1> QED
  BY <1>2, <1>3, <1>4, <1>5, <1>6, <1>7, <1>8, <1>9, <1>10, <1>11 DEF Next, Service!Next

\* For every address width, table of rules and content of flash, the store is to
\* its owner what ConfigService promises: every step of a save, a failure, a loss
\* of power or a reset is one of its steps or changes nothing it sees.
THEOREM StoreImplementsService == Spec => ImplementsConfigService
<1>1. Init => Service!Init
  BY StoreInit
<1>2. ConfigInv /\ ConfigInv' /\ WrittenInv /\ [Next]_vars
        => [Service!Next]_(Service!svars)
  BY StoreStepMaps
<1> QED
  BY <1>1, <1>2, ConfigInvariant, WrittenInvariant, PTL
  DEF Spec, ImplementsConfigService, Service!Spec
-----------------------------------------------------------------------------
(* The structure in use: HotConfig *)

\* Whatever the readers do, the store takes its own steps.
LEMMA HotStepIsStoreStep == ASSUME [HotNext]_hvars PROVE [Next]_vars
  BY DEF HotNext, Boot, StoreStep, HookStep, HookChecks, HookGateway, HookRoute,
         HookReturns, Next, hvars, vars

LEMMA HotSpecIsSpec == HotSpec => Spec
<1>1. HotInit => Init
  BY DEF HotInit
<1>2. [HotNext]_hvars => [Next]_vars
  BY HotStepIsStoreStep
<1> QED
  BY <1>1, <1>2, PTL DEF HotSpec, Spec
-----------------------------------------------------------------------------
(* Before a save is complete *)

\* Until other networks have been saved in full, the live structure and the one
\* about to be copied over it have the networks of the interfaces.
LiveInv ==
    /\ ~saved => NetsOf(ram) = started
    /\ ~saved /\ pos = NKeys + 2 => NetsOf(form) = started

\* ... and what the hook has read so far fits them.
HookInv ==
    hook # NoCall =>
        /\ hook.side \in Sides
        /\ ~saved /\ hook.at = "route" =>
              hook.router = GatewayOf(started[hook.side][1], started[hook.side][2])
        /\ ~saved /\ hook.at = "sent" => RouteFits

HotInv == LiveInv /\ HookInv

LEMMA ReadsStarted ==
    ASSUME LiveInv, ~saved, NEW side \in Sides, NEW net \in Readable(side)
    PROVE  net = started[side]
<1>1. NetOf(ram, side) = started[side]
  BY DEF LiveInv, NetsOf
<1>2. pos = NKeys + 2 => NetOf(form, side) = started[side]
  BY DEF LiveInv, NetsOf
<1>3. started[side] = <<started[side][1], started[side][2]>>
  <2>1. \E a, b : NetOf(ram, side) = <<a, b>>
    BY DEF NetOf
  <2> QED BY <1>1, <2>1
<1>4. PICK m, n \in {started[side]} : net = <<m[1], n[2]>>
  BY <1>1, <1>2 DEF Readable
<1> QED BY <1>3, <1>4

\* A step of the store changes the live networks only by copying saved ones.
LEMMA StoreKeepsLive == ASSUME LiveInv, StoreStep PROVE LiveInv'
<1> USE KeysPositive DEF LiveInv, NetsOf, NetOf
<1>1. ASSUME NEW cfg, BeginSave(cfg), UNCHANGED <<started, saved>> PROVE LiveInv'
  BY <1>1 DEF BeginSave
<1>2. ASSUME NEW usb \in PostNets, NEW wifi \in PostNets, NEW txp \in PostTx,
             PostConfig(usb, wifi, txp), UNCHANGED <<started, saved>>
      PROVE  LiveInv'
  BY <1>1, <1>2 DEF PostConfig
<1>3. ASSUME NEW rules \in PostRules, PostForward(rules), UNCHANGED <<started, saved>>
      PROVE  LiveInv'
  BY <1>1, <1>3 DEF PostForward
<1>4. CASE WriteKey /\ UNCHANGED <<started, saved>>
  BY <1>4 DEF WriteKey
<1>5. CASE SaveFails /\ UNCHANGED <<started, saved>>
  BY <1>5 DEF SaveFails
<1>6. CASE SaveDone /\ UNCHANGED <<started, saved>>
  BY <1>6 DEF SaveDone
<1>7. CASE FactoryErase /\ UNCHANGED <<started, saved>>
  BY <1>7 DEF FactoryErase
<1>8. CASE Commit /\ started' = started /\ saved' = (saved \/ NetsOf(form) # started)
  BY <1>8 DEF Commit
<1> QED BY <1>2, <1>3, <1>4, <1>5, <1>6, <1>7, <1>8 DEF StoreStep

LEMMA HotStep == ASSUME HotInv, [HotNext]_hvars PROVE HotInv'
<1> USE DEF HotInv
<1>1. CASE Boot
  <2>1. pos' = 0 /\ NetsOf(ram)' = started' /\ hook' = NoCall
    BY <1>1 DEF Boot, Restart, RestartErasing, NetsOf, NetOf
  <2> QED BY <2>1, KeysPositive DEF LiveInv, HookInv
<1>2. CASE StoreStep
  <2>1. started' = started /\ hook' = hook
    BY <1>2 DEF StoreStep
  <2>2. ~saved' => ~saved
    BY <1>2, Zenon DEF StoreStep
  <2> QED BY <1>2, <2>1, <2>2, StoreKeepsLive DEF HookInv, RouteFits
<1>3. ASSUME UNCHANGED <<vars, started, saved>> PROVE LiveInv'
  BY <1>3 DEF vars, LiveInv, NetsOf, NetOf
<1>4. ASSUME NEW side \in Sides, HookChecks(side) PROVE HookInv'
  BY <1>4 DEF HookChecks, HookInv
<1>5. ASSUME HookGateway PROVE HookInv'
  <2>1. PICK net \in Readable(hook.side) :
           hook' = [at |-> "route", side |-> hook.side,
                    router |-> GatewayOf(net[1], net[2])]
    BY <1>5 DEF HookGateway
  <2>2. hook.side \in Sides /\ started' = started /\ saved' = saved
    BY <1>5 DEF HookGateway, HookInv
  <2>3. ~saved => net = started[hook.side]
    BY <2>1, <2>2, ReadsStarted
  <2> QED BY <2>1, <2>2, <2>3 DEF HookInv
<1>6. ASSUME HookRoute PROVE HookInv'
  <2>1. PICK net \in Readable(Other(hook.side)) :
           hook' = [at |-> "sent", side |-> hook.side,
                    router |-> hook.router, destination |-> net]
    BY <1>6 DEF HookRoute
  <2>2. /\ hook # NoCall /\ hook.at = "route" /\ hook.side \in Sides
        /\ started' = started /\ saved' = saved
    BY <1>6 DEF HookRoute, HookInv
  <2>3. ~saved => net = started[Other(hook.side)]
    BY <2>1, <2>2, ReadsStarted DEF Other, Sides
  <2>4. ~saved => hook.router = GatewayOf(started[hook.side][1], started[hook.side][2])
    BY <2>2 DEF HookInv
  <2> QED BY <2>1, <2>2, <2>3, <2>4 DEF HookInv, RouteFits
<1>7. ASSUME HookReturns PROVE HookInv'
  BY <1>7 DEF HookReturns, HookInv
<1>8. CASE HookStep
  <2>1. UNCHANGED <<vars, started, saved>>
    BY <1>8 DEF HookStep, HookChecks, HookGateway, HookRoute, HookReturns
  <2> QED BY <1>3, <1>4, <1>5, <1>6, <1>7, <1>8, <2>1 DEF HookStep
<1>9. CASE UNCHANGED hvars
  BY <1>3, <1>9 DEF hvars, HookInv, RouteFits
<1> QED BY <1>1, <1>2, <1>8, <1>9 DEF HotNext

\* Every DHCP reply fits the interfaces until other networks have been saved in
\* full, whatever a handler is writing, has failed to write or has been cut off at.
THEOREM NothingIsHotBeforeSaved == HotSpec => []NothingHotBeforeSaved
<1>1. HotInit => HotInv
  BY KeysPositive DEF HotInit, Init, HotInv, LiveInv, HookInv
<1>2. HotInv /\ [HotNext]_hvars => HotInv'
  BY HotStep
<1>3. HotInv => NothingHotBeforeSaved
  BY DEF HotInv, HookInv, NothingHotBeforeSaved
<1> QED
  BY <1>1, <1>2, <1>3, PTL DEF HotSpec
-----------------------------------------------------------------------------
(* After a reboot *)

\* config_sanitize leaves valid networks as they are.
LEMMA SanitizedNets ==
    ASSUME NEW cfg \in Config, nets_valid(cfg)
    PROVE  NetsOf(config_sanitize(cfg)) = NetsOf(cfg)
<1>1. /\ cfg.usb_subnet \in Nat /\ cfg.usb_prefix_len \in Nat
      /\ cfg.wifi_subnet \in Nat /\ cfg.wifi_prefix_len \in Nat
  BY DEF Config
<1>2. /\ Masked(cfg.usb_subnet, cfg.usb_prefix_len) = cfg.usb_subnet
      /\ Masked(cfg.wifi_subnet, cfg.wifi_prefix_len) = cfg.wifi_subnet
  BY <1>1, ValidIsMasked DEF nets_valid
<1>3. \A side \in Sides : NetOf(config_sanitize(cfg), side) = NetOf(cfg, side)
  BY <1>2 DEF config_sanitize, NetOf
<1> QED BY <1>3 DEF NetsOf

\* The interfaces of the next boot have the networks of the configuration that
\* was last saved in full.
THEOREM RebootAlwaysAppliesSaved == HotSpec => RebootAppliesSaved
<1>1. ASSUME TypeOK, WrittenInv, AcceptedNets,
             Boot, accepted # NoCfg, accepted' = accepted
      PROVE  started' = NetsOf(accepted)
  <2>1. config_load(nvs) = config_sanitize(accepted) /\ accepted \in Config
    BY <1>1, WrittenSurvives DEF AcceptedSurvives, TypeOK
  <2>2. ram' = config_load(nvs) /\ started' = NetsOf(ram')
    BY <1>1 DEF Boot, Restart, RestartErasing
  <2> QED BY <1>1, <2>1, <2>2, SanitizedNets DEF AcceptedNets
<1>2. TypeOK /\ WrittenInv /\ AcceptedNets /\ [HotNext]_hvars
        => [Boot /\ accepted # NoCfg /\ accepted' = accepted
              => started' = NetsOf(accepted)]_hvars
  BY <1>1
<1> QED
  BY <1>2, HotSpecIsSpec, TypeCorrect, WrittenInvariant, AcceptedNetsInvariant, PTL
  DEF HotSpec, RebootAppliesSaved
=============================================================================
