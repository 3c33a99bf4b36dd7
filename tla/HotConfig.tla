----------------------------- MODULE HotConfig -----------------------------
(***************************************************************************)
(* The one configuration structure, while it is in use: app_main starts    *)
(* the interfaces and their DHCP servers from it, the web handlers of      *)
(* ConfigStore replace it, and lwIP's task reads it, field by field and    *)
(* without a lock, for the routes every DHCP reply carries                 *)
(* (router_append_dhcps_routes).                                           *)
(***************************************************************************)
EXTENDS ConfigStore

CONSTANT NoCall

VARIABLES
    started,    \* the networks the interfaces and DHCP servers were started with
    saved,      \* history: other networks have been saved in full since then
    hook        \* router_append_dhcps_routes: NoCall, or what it has read so far

hvars == <<vars, started, saved, hook>>

Sides == {"usb", "wifi"}
Other(side) == IF side = "usb" THEN "wifi" ELSE "usb"

\* A network is a pair <<subnet, prefix>>.
NetOf(cfg, side) == IF side = "usb" THEN <<cfg.usb_subnet, cfg.usb_prefix_len>>
                                    ELSE <<cfg.wifi_subnet, cfg.wifi_prefix_len>>
NetsOf(cfg) == [side \in Sides |-> NetOf(cfg, side)]

\* What another task may read of a network: while the structure is being copied
\* each field may be the old one or the new one.
Readable(side) ==
    LET nets == {NetOf(ram, side)}
                  \cup (IF pos = NKeys + 2 THEN {NetOf(form, side)} ELSE {})
    IN  {<<m[1], n[2]>> : m, n \in nets}

HotInit == Init /\ started = NetsOf(ram) /\ saved = FALSE /\ hook = NoCall
-----------------------------------------------------------------------------
(* app_main: usb_ncm_netif_create, wifi_ap_create (each with its              *)
(* router_configure_dhcps) and router_start, from what config_load returned.  *)

\* Faulty variant: the interfaces are created before the configuration is loaded.
Boot_BeforeLoad ==
    /\ Restart \/ RestartErasing
    /\ started' = NetsOf(ram)
    /\ saved' = FALSE /\ hook' = NoCall

Boot ==
    /\ Restart \/ RestartErasing
    /\ started' = NetsOf(ram')
    /\ saved' = FALSE /\ hook' = NoCall

\* The save and the button's erase go on while a reply is put together.
StoreStep ==
    /\ \/ /\ \/ \E usb, wifi \in PostNets, txp \in PostTx : PostConfig(usb, wifi, txp)
             \/ \E rules \in PostRules : PostForward(rules)
             \/ WriteKey \/ SaveFails \/ SaveDone \/ FactoryErase
          /\ UNCHANGED saved
       \/ Commit /\ saved' = (saved \/ NetsOf(form) # started)
    /\ UNCHANGED <<started, hook>>
-----------------------------------------------------------------------------
(* router_append_dhcps_routes, for an OFFER or an ACK to a client on a side *)

\* No route is added when the two networks overlap.
HookChecks(side) ==
    /\ hook = NoCall
    /\ \E usb \in Readable("usb"), wifi \in Readable("wifi") :
          /\ ~subnets_overlap(usb[1], usb[2], wifi[1], wifi[2])
          /\ hook' = [at |-> "gateway", side |-> side]
    /\ UNCHANGED <<vars, started, saved>>

\* router_make_ip_info: the router of the route, on the client's own network.
HookGateway ==
    /\ hook # NoCall /\ hook.at = "gateway"
    /\ \E net \in Readable(hook.side) :
          hook' = [at |-> "route", side |-> hook.side,
                   router |-> GatewayOf(net[1], net[2])]
    /\ UNCHANGED <<vars, started, saved>>

\* append_route_options: the destination, the other side's network.
HookRoute ==
    /\ hook # NoCall /\ hook.at = "route"
    /\ \E net \in Readable(Other(hook.side)) :
          hook' = [at |-> "sent", side |-> hook.side,
                   router |-> hook.router, destination |-> net]
    /\ UNCHANGED <<vars, started, saved>>

HookReturns ==
    /\ hook # NoCall /\ hook.at = "sent"
    /\ hook' = NoCall
    /\ UNCHANGED <<vars, started, saved>>

HookStep ==
    (\E side \in Sides : HookChecks(side)) \/ HookGateway \/ HookRoute \/ HookReturns

HotNext == Boot \/ StoreStep \/ HookStep

HotSpec == HotInit /\ [][HotNext]_hvars
-----------------------------------------------------------------------------
(* Properties *)

\* The route in a reply leads to the network the other interface has, through
\* the address the client's own interface has.
RouteFits ==
    /\ hook.destination = started[Other(hook.side)]
    /\ hook.router = GatewayOf(started[hook.side][1], started[hook.side][2])

\* Until a configuration with other networks has been saved in full, every DHCP
\* reply carries a route that fits the interfaces: a save that is still writing,
\* that fails, or that is cut off by a factory reset, does not show.
NothingHotBeforeSaved ==
    hook # NoCall /\ hook.at = "sent" /\ ~saved => RouteFits

\* "Press the Reboot button to restart the device and apply the changes"
\* (README.md:104): the interfaces of the next boot have the networks of the
\* last configuration that was saved in full.
RebootAppliesSaved ==
    [][Boot /\ accepted # NoCfg /\ accepted' = accepted
         => started' = NetsOf(accepted)]_hvars

\* "All configuration changes require a reboot to take effect. There is no
\* runtime reload path." (docs/docs/limitations.md:45)
ChangesNeedReboot ==
    hook # NoCall /\ hook.at = "sent" => RouteFits
=============================================================================
