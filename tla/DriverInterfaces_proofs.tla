----------------------- MODULE DriverInterfaces_proofs -----------------------
(*************************************************************************)
(* What the drivers' headers promise, for every number of pipes, unread  *)
(* events, flags of a word and elements of a message.  The tables of the *)
(* header are finite: what is needed of them is computed, name by name,  *)
(* in the first lemmas of each part, and the rest argues from those.     *)
(*************************************************************************)
EXTENDS DriverInterfaces, FiniteSetTheorems, TLAPS

-----------------------------------------------------------------------------
(* The IPA driver: clients.                                              *)

Clients == DOMAIN Ipa!ipa_client_type
N(c) == Ipa!ipa_client_type[c]

\* The producers with two names.
WanNames == {"APPS_WAN_PROD", "APPS_LAN_WAN_PROD"}
WlanNames == {"A5_WLAN_AMPDU_PROD", "WLAN2_PROD"}

\* The numbers of the producers are even ...
LEMMA ProducersEven ==
  \A c \in DOMAIN Ipa!Producers : Ipa!Producers[c] \in 0..128 /\ Ipa!Producers[c] % 2 = 0
BY DEF Ipa!Producers

\* ... those of the consumers odd ...
LEMMA ConsumersOdd ==
  \A c \in DOMAIN Ipa!Consumers : Ipa!Consumers[c] \in 0..128 /\ Ipa!Consumers[c] % 2 = 1
BY DEF Ipa!Consumers

\* ... and each has its own, but for the two producers with a second name.
LEMMA ConsumersApart ==
  \A c, e \in DOMAIN Ipa!Consumers : Ipa!Consumers[c] = Ipa!Consumers[e] => c = e
BY DEF Ipa!Consumers

\* The same of the producers.
LEMMA ProducersApart ==
  \A c, e \in DOMAIN Ipa!Producers :
    Ipa!Producers[c] = Ipa!Producers[e] =>
      c = e \/ (c \in WanNames /\ e \in WanNames) \/ (c \in WlanNames /\ e \in WlanNames)
BY DEF Ipa!Producers, WanNames, WlanNames

\* The two tables together.
LEMMA ClientNumbers ==
  /\ \A c \in Clients : N(c) \in 0..128
  /\ \A c \in Clients : N(c) % 2 = 0 <=> c \in DOMAIN Ipa!Producers
  /\ \A c, e \in Clients : N(c) = N(e) => c = e \/ {c, e} \in {WanNames, WlanNames}
<1>1. Clients = DOMAIN Ipa!Producers \cup DOMAIN Ipa!Consumers
  BY DEF Clients, Ipa!ipa_client_type
<1>2. \A c \in Clients : N(c) = IF c \in DOMAIN Ipa!Producers THEN Ipa!Producers[c] ELSE Ipa!Consumers[c]
  BY DEF N, Clients, Ipa!ipa_client_type
<1>3. \A c \in Clients : N(c) \in 0..128 /\ (N(c) % 2 = 0 <=> c \in DOMAIN Ipa!Producers)
  BY <1>1, <1>2, ProducersEven, ConsumersOdd
<1>4. ASSUME NEW c \in Clients, NEW e \in Clients, N(c) = N(e), c # e
      PROVE  {c, e} \in {WanNames, WlanNames}
  <2>1. (c \in WanNames /\ e \in WanNames) \/ (c \in WlanNames /\ e \in WlanNames)
    BY <1>1, <1>2, <1>3, <1>4, ProducersApart, ConsumersApart
  <2> QED
    BY <2>1, <1>4 DEF WanNames, WlanNames
<1> QED
  BY <1>3, <1>4

Q6Numbers == Ipa!IPA_CLIENT_IS_Q6_CONS \cup Ipa!IPA_CLIENT_IS_Q6_PROD

\* The six lists of the modem's clients: what is closed has been silenced before, it
\* belongs to the modem, and of the modem's clients it leaves out only one.
LEMMA ModemLists ==
  /\ Q6Numbers \subseteq Ipa!Uncompressed \cup Ipa!Compressed
  /\ \A n \in Q6Numbers : \E c \in Ipa!ModemClients : N(c) = n
  /\ Ipa!ModemClients \subseteq Clients /\ (WanNames \cup WlanNames) \cap Ipa!ModemClients = {}
  /\ \A c \in Ipa!ModemClients : N(c) \in Q6Numbers \/ c = "Q6_DL_NLO_ETH_DATA_PROD"
<1>1. Q6Numbers \subseteq Ipa!Uncompressed \cup Ipa!Compressed
  BY DEF Q6Numbers, Ipa!IPA_CLIENT_IS_Q6_CONS, Ipa!IPA_CLIENT_IS_Q6_PROD, Ipa!Uncompressed, Ipa!Compressed,
         Ipa!IPA_CLIENT_IS_Q6_NON_ZIP_CONS, Ipa!IPA_CLIENT_IS_Q6_NON_ZIP_PROD,
         Ipa!IPA_CLIENT_IS_Q6_ZIP_CONS, Ipa!IPA_CLIENT_IS_Q6_ZIP_PROD, Ipa!ClientNumbers
<1>2. \A n \in Q6Numbers : \E c \in Ipa!ModemClients : N(c) = n
  BY DEF Q6Numbers, Ipa!IPA_CLIENT_IS_Q6_CONS, Ipa!IPA_CLIENT_IS_Q6_PROD, Ipa!ClientNumbers,
         Ipa!ModemClients, N
<1>3. Ipa!ModemClients \subseteq DOMAIN Ipa!Producers \cup DOMAIN Ipa!Consumers
  BY DEF Ipa!ModemClients, Ipa!Producers, Ipa!Consumers
<1>4. Ipa!ModemClients \subseteq Clients
  BY <1>3 DEF Clients, Ipa!ipa_client_type
<1>5. (WanNames \cup WlanNames) \cap Ipa!ModemClients = {}
  BY DEF WanNames, WlanNames, Ipa!ModemClients
<1>6. \A c \in Ipa!ModemClients : N(c) \in Q6Numbers \/ c = "Q6_DL_NLO_ETH_DATA_PROD"
  BY DEF Q6Numbers, Ipa!IPA_CLIENT_IS_Q6_CONS, Ipa!IPA_CLIENT_IS_Q6_PROD, Ipa!ClientNumbers,
         Ipa!ModemClients, N
<1> QED
  BY <1>1, <1>2, <1>4, <1>5, <1>6

\* The driver's loop reaches every client.
LEMMA LoopReachesAll == \A c \in Clients : N(c) \in Ipa!AllNumbers
<1>1. "APPS_WAN_ETH_PROD" \in DOMAIN Ipa!Producers /\ Ipa!Producers["APPS_WAN_ETH_PROD"] = 128
  BY DEF Ipa!Producers
<1>2. Ipa!IPA_CLIENT_MAX = 129
  BY <1>1 DEF Ipa!IPA_CLIENT_MAX, Ipa!ipa_client_type
<1> QED
  BY <1>2, ClientNumbers DEF Ipa!AllNumbers

-----------------------------------------------------------------------------
(* The IPA driver: events.                                               *)

\* All events, in the order of their numbers.
EventAt ==
  <<"WLAN_CLIENT_CONNECT", "WLAN_CLIENT_DISCONNECT", "WLAN_CLIENT_POWER_SAVE_MODE",
    "WLAN_CLIENT_NORMAL_MODE", "SW_ROUTING_ENABLE", "SW_ROUTING_DISABLE",
    "WLAN_AP_CONNECT", "WLAN_AP_DISCONNECT", "WLAN_STA_CONNECT", "WLAN_STA_DISCONNECT",
    "WLAN_CLIENT_CONNECT_EX", "WLAN_SWITCH_TO_SCC", "WLAN_SWITCH_TO_MCC",
    "WLAN_WDI_ENABLE", "WLAN_WDI_DISABLE", "WAN_UPSTREAM_ROUTE_ADD",
    "WAN_UPSTREAM_ROUTE_DEL", "WAN_EMBMS_CONNECT", "WAN_XLAT_CONNECT", "ECM_CONNECT",
    "ECM_DISCONNECT", "IPA_TETHERING_STATS_UPDATE_STATS",
    "IPA_TETHERING_STATS_UPDATE_NETWORK_STATS", "IPA_QUOTA_REACH",
    "IPA_SSR_BEFORE_SHUTDOWN", "IPA_SSR_AFTER_POWERUP", "ADD_VLAN_IFACE",
    "DEL_VLAN_IFACE", "ADD_L2TP_VLAN_MAPPING", "DEL_L2TP_VLAN_MAPPING",
    "IPA_PER_CLIENT_STATS_CONNECT_EVENT", "IPA_PER_CLIENT_STATS_DISCONNECT_EVENT",
    "ADD_BRIDGE_VLAN_MAPPING", "DEL_BRIDGE_VLAN_MAPPING", "WLAN_FWR_SSR_BEFORE_SHUTDOWN",
    "IPA_GSB_CONNECT", "IPA_GSB_DISCONNECT", "IPA_COALESCE_ENABLE",
    "IPA_COALESCE_DISABLE", "IPA_SET_MTU", "WIGIG_CLIENT_CONNECT", "WIGIG_FST_SWITCH",
    "IPA_PDN_DEFAULT_MODE_CONFIG", "IPA_PDN_IP_COLLISION_MODE_CONFIG",
    "IPA_PDN_IP_PASSTHROUGH_MODE_CONFIG", "IPA_MAC_FLT_EVENT", "IPA_SOCKV5_ADD",
    "IPA_SOCKV5_DEL", "IPA_WARNING_LIMIT_REACHED", "IPA_SW_FLT_EVENT",
    "IPA_PKT_THRESHOLD_EVENT", "IPA_MOVE_NAT_TABLE", "IPA_EoGRE_UP_EVENT",
    "IPA_EoGRE_DOWN_EVENT", "IPA_IPPT_SW_FLT_EVENT", "IPA_MACSEC_ADD_EVENT",
    "IPA_MACSEC_DEL_EVENT", "IPA_DONE_RESTORE_EVENT", "IPA_SET_EXT_ROUTER_MODE_EVENT",
    "IPA_ENABLE_ETH_PDU_MODE_EVENT">>

\* No name occurs twice in the list.
LEMMA EventAtApart == \A i, j \in 1..60 : EventAt[i] = EventAt[j] => i = j
BY DEF EventAt

\* Every enum begins where the one before it ends.
LEMMA EnumFirsts ==
  /\ Ipa!ipa_wlan_event.first = 0 /\ Ipa!ipa_wlan_event.max = 15
  /\ Ipa!ipa_wan_event.first = 15 /\ Ipa!ipa_wan_event.max = 19
  /\ Ipa!ipa_ecm_event.first = 19 /\ Ipa!ipa_ecm_event.max = 21
  /\ Ipa!ipa_tethering_stats_event.first = 21 /\ Ipa!ipa_tethering_stats_event.max = 23
  /\ Ipa!ipa_quota_event.first = 23 /\ Ipa!ipa_quota_event.max = 24
  /\ Ipa!ipa_ssr_event.first = 24 /\ Ipa!ipa_ssr_event.max = 26
  /\ Ipa!ipa_vlan_l2tp_event.first = 26 /\ Ipa!ipa_vlan_l2tp_event.max = 30
  /\ Ipa!ipa_per_client_stats_event.first = 30 /\ Ipa!ipa_per_client_stats_event.max = 32
  /\ Ipa!ipa_vlan_bridge_event.first = 32 /\ Ipa!ipa_vlan_bridge_event.max = 34
  /\ Ipa!ipa_wlan_fw_ssr_event.first = 34 /\ Ipa!ipa_wlan_fw_ssr_event.max = 35
  /\ Ipa!ipa_gsb_event.first = 35 /\ Ipa!ipa_gsb_event.max = 37
  /\ Ipa!ipa_coalesce_event.first = 37 /\ Ipa!ipa_coalesce_event.max = 39
  /\ Ipa!ipa_mtu_event.first = 39 /\ Ipa!ipa_mtu_event.max = 40
  /\ Ipa!wigig_event.first = 40 /\ Ipa!wigig_event.max = 42
  /\ Ipa!ipa_pdn_config_event.first = 42 /\ Ipa!ipa_pdn_config_event.max = 45
  /\ Ipa!ipa_mac_flt_event.first = 45 /\ Ipa!ipa_mac_flt_event.max = 46
  /\ Ipa!ipa_sockv5_event.first = 46 /\ Ipa!ipa_sockv5_event.max = 48
  /\ Ipa!ipa_warning_limit_event.first = 48 /\ Ipa!ipa_warning_limit_event.max = 49
  /\ Ipa!ipa_sw_flt_event.first = 49 /\ Ipa!ipa_sw_flt_event.max = 50
  /\ Ipa!ipa_pkt_threshold_event.first = 50 /\ Ipa!ipa_pkt_threshold_event.max = 51
  /\ Ipa!ipa_move_nat_table_event.first = 51 /\ Ipa!ipa_move_nat_table_event.max = 52
  /\ Ipa!ipa_eogre_event.first = 52 /\ Ipa!ipa_eogre_event.max = 54
  /\ Ipa!ipa_ippt_sw_flt_event.first = 54 /\ Ipa!ipa_ippt_sw_flt_event.max = 55
  /\ Ipa!ipa_macsec_event.first = 55 /\ Ipa!ipa_macsec_event.max = 57
  /\ Ipa!ipa_done_restore_event.first = 57 /\ Ipa!ipa_done_restore_event.max = 58
  /\ Ipa!ipa_ext_route_evt.first = 58 /\ Ipa!ipa_ext_route_evt.max = 59
  /\ Ipa!ipa_eth_pdu_evt.first = 59 /\ Ipa!ipa_eth_pdu_evt.max = 60
<1>1. Ipa!ipa_wlan_event.first = 0 /\ Ipa!ipa_wlan_event.max = 15
  BY DEF Ipa!ipa_wlan_event, Ipa!From
<1>2. Ipa!ipa_wan_event.first = 15 /\ Ipa!ipa_wan_event.max = 19
  BY <1>1 DEF Ipa!ipa_wan_event, Ipa!From
<1>3. Ipa!ipa_ecm_event.first = 19 /\ Ipa!ipa_ecm_event.max = 21
  BY <1>2 DEF Ipa!ipa_ecm_event, Ipa!From
<1>4. Ipa!ipa_tethering_stats_event.first = 21 /\ Ipa!ipa_tethering_stats_event.max = 23
  BY <1>3 DEF Ipa!ipa_tethering_stats_event, Ipa!From
<1>5. Ipa!ipa_quota_event.first = 23 /\ Ipa!ipa_quota_event.max = 24
  BY <1>4 DEF Ipa!ipa_quota_event, Ipa!From
<1>6. Ipa!ipa_ssr_event.first = 24 /\ Ipa!ipa_ssr_event.max = 26
  BY <1>5 DEF Ipa!ipa_ssr_event, Ipa!From
<1>7. Ipa!ipa_vlan_l2tp_event.first = 26 /\ Ipa!ipa_vlan_l2tp_event.max = 30
  BY <1>6 DEF Ipa!ipa_vlan_l2tp_event, Ipa!From
<1>8. Ipa!ipa_per_client_stats_event.first = 30 /\ Ipa!ipa_per_client_stats_event.max = 32
  BY <1>7 DEF Ipa!ipa_per_client_stats_event, Ipa!From
<1>9. Ipa!ipa_vlan_bridge_event.first = 32 /\ Ipa!ipa_vlan_bridge_event.max = 34
  BY <1>8 DEF Ipa!ipa_vlan_bridge_event, Ipa!From
<1>10. Ipa!ipa_wlan_fw_ssr_event.first = 34 /\ Ipa!ipa_wlan_fw_ssr_event.max = 35
  BY <1>9 DEF Ipa!ipa_wlan_fw_ssr_event, Ipa!From
<1>11. Ipa!ipa_gsb_event.first = 35 /\ Ipa!ipa_gsb_event.max = 37
  BY <1>10 DEF Ipa!ipa_gsb_event, Ipa!From
<1>12. Ipa!ipa_coalesce_event.first = 37 /\ Ipa!ipa_coalesce_event.max = 39
  BY <1>11 DEF Ipa!ipa_coalesce_event, Ipa!From
<1>13. Ipa!ipa_mtu_event.first = 39 /\ Ipa!ipa_mtu_event.max = 40
  BY <1>12 DEF Ipa!ipa_mtu_event, Ipa!From
<1>14. Ipa!wigig_event.first = 40 /\ Ipa!wigig_event.max = 42
  BY <1>13 DEF Ipa!wigig_event, Ipa!From
<1>15. Ipa!ipa_pdn_config_event.first = 42 /\ Ipa!ipa_pdn_config_event.max = 45
  BY <1>14 DEF Ipa!ipa_pdn_config_event, Ipa!From
<1>16. Ipa!ipa_mac_flt_event.first = 45 /\ Ipa!ipa_mac_flt_event.max = 46
  BY <1>15 DEF Ipa!ipa_mac_flt_event, Ipa!From
<1>17. Ipa!ipa_sockv5_event.first = 46 /\ Ipa!ipa_sockv5_event.max = 48
  BY <1>16 DEF Ipa!ipa_sockv5_event, Ipa!From
<1>18. Ipa!ipa_warning_limit_event.first = 48 /\ Ipa!ipa_warning_limit_event.max = 49
  BY <1>17 DEF Ipa!ipa_warning_limit_event, Ipa!From
<1>19. Ipa!ipa_sw_flt_event.first = 49 /\ Ipa!ipa_sw_flt_event.max = 50
  BY <1>18 DEF Ipa!ipa_sw_flt_event, Ipa!From
<1>20. Ipa!ipa_pkt_threshold_event.first = 50 /\ Ipa!ipa_pkt_threshold_event.max = 51
  BY <1>19 DEF Ipa!ipa_pkt_threshold_event, Ipa!From
<1>21. Ipa!ipa_move_nat_table_event.first = 51 /\ Ipa!ipa_move_nat_table_event.max = 52
  BY <1>20 DEF Ipa!ipa_move_nat_table_event, Ipa!From
<1>22. Ipa!ipa_eogre_event.first = 52 /\ Ipa!ipa_eogre_event.max = 54
  BY <1>21 DEF Ipa!ipa_eogre_event, Ipa!From
<1>23. Ipa!ipa_ippt_sw_flt_event.first = 54 /\ Ipa!ipa_ippt_sw_flt_event.max = 55
  BY <1>22 DEF Ipa!ipa_ippt_sw_flt_event, Ipa!From
<1>24. Ipa!ipa_macsec_event.first = 55 /\ Ipa!ipa_macsec_event.max = 57
  BY <1>23 DEF Ipa!ipa_macsec_event, Ipa!From
<1>25. Ipa!ipa_done_restore_event.first = 57 /\ Ipa!ipa_done_restore_event.max = 58
  BY <1>24 DEF Ipa!ipa_done_restore_event, Ipa!From
<1>26. Ipa!ipa_ext_route_evt.first = 58 /\ Ipa!ipa_ext_route_evt.max = 59
  BY <1>25 DEF Ipa!ipa_ext_route_evt, Ipa!From
<1>27. Ipa!ipa_eth_pdu_evt.first = 59 /\ Ipa!ipa_eth_pdu_evt.max = 60
  BY <1>26 DEF Ipa!ipa_eth_pdu_evt, Ipa!From
<1> QED
  BY <1>1, <1>2, <1>3, <1>4, <1>5, <1>6, <1>7, <1>8, <1>9, <1>10, <1>11, <1>12, <1>13,
     <1>14, <1>15, <1>16, <1>17, <1>18, <1>19, <1>20, <1>21, <1>22, <1>23, <1>24, <1>25,
     <1>26, <1>27

Placed(x) ==
  /\ x.first \in Nat /\ DOMAIN x.names \subseteq Nat
  /\ \A k \in DOMAIN x.names : x.first + k \in 1..60 /\ EventAt[x.first + k] = x.names[k]

\* Every enum is a piece of the list.
LEMMA EnumsPlaced == \A x \in Ipa!EventEnums : Placed(x)
<1>1. Placed(Ipa!ipa_wlan_event)
  BY EnumFirsts DEF Placed, EventAt, Ipa!ipa_wlan_event, Ipa!From
<1>2. Placed(Ipa!ipa_wan_event)
  BY EnumFirsts DEF Placed, EventAt, Ipa!ipa_wan_event, Ipa!From
<1>3. Placed(Ipa!ipa_ecm_event)
  BY EnumFirsts DEF Placed, EventAt, Ipa!ipa_ecm_event, Ipa!From
<1>4. Placed(Ipa!ipa_tethering_stats_event)
  BY EnumFirsts DEF Placed, EventAt, Ipa!ipa_tethering_stats_event, Ipa!From
<1>5. Placed(Ipa!ipa_quota_event)
  BY EnumFirsts DEF Placed, EventAt, Ipa!ipa_quota_event, Ipa!From
<1>6. Placed(Ipa!ipa_ssr_event)
  BY EnumFirsts DEF Placed, EventAt, Ipa!ipa_ssr_event, Ipa!From
<1>7. Placed(Ipa!ipa_vlan_l2tp_event)
  BY EnumFirsts DEF Placed, EventAt, Ipa!ipa_vlan_l2tp_event, Ipa!From
<1>8. Placed(Ipa!ipa_per_client_stats_event)
  BY EnumFirsts DEF Placed, EventAt, Ipa!ipa_per_client_stats_event, Ipa!From
<1>9. Placed(Ipa!ipa_vlan_bridge_event)
  BY EnumFirsts DEF Placed, EventAt, Ipa!ipa_vlan_bridge_event, Ipa!From
<1>10. Placed(Ipa!ipa_wlan_fw_ssr_event)
  BY EnumFirsts DEF Placed, EventAt, Ipa!ipa_wlan_fw_ssr_event, Ipa!From
<1>11. Placed(Ipa!ipa_gsb_event)
  BY EnumFirsts DEF Placed, EventAt, Ipa!ipa_gsb_event, Ipa!From
<1>12. Placed(Ipa!ipa_coalesce_event)
  BY EnumFirsts DEF Placed, EventAt, Ipa!ipa_coalesce_event, Ipa!From
<1>13. Placed(Ipa!ipa_mtu_event)
  BY EnumFirsts DEF Placed, EventAt, Ipa!ipa_mtu_event, Ipa!From
<1>14. Placed(Ipa!wigig_event)
  BY EnumFirsts DEF Placed, EventAt, Ipa!wigig_event, Ipa!From
<1>15. Placed(Ipa!ipa_pdn_config_event)
  BY EnumFirsts DEF Placed, EventAt, Ipa!ipa_pdn_config_event, Ipa!From
<1>16. Placed(Ipa!ipa_mac_flt_event)
  BY EnumFirsts DEF Placed, EventAt, Ipa!ipa_mac_flt_event, Ipa!From
<1>17. Placed(Ipa!ipa_sockv5_event)
  BY EnumFirsts DEF Placed, EventAt, Ipa!ipa_sockv5_event, Ipa!From
<1>18. Placed(Ipa!ipa_warning_limit_event)
  BY EnumFirsts DEF Placed, EventAt, Ipa!ipa_warning_limit_event, Ipa!From
<1>19. Placed(Ipa!ipa_sw_flt_event)
  BY EnumFirsts DEF Placed, EventAt, Ipa!ipa_sw_flt_event, Ipa!From
<1>20. Placed(Ipa!ipa_pkt_threshold_event)
  BY EnumFirsts DEF Placed, EventAt, Ipa!ipa_pkt_threshold_event, Ipa!From
<1>21. Placed(Ipa!ipa_move_nat_table_event)
  BY EnumFirsts DEF Placed, EventAt, Ipa!ipa_move_nat_table_event, Ipa!From
<1>22. Placed(Ipa!ipa_eogre_event)
  BY EnumFirsts DEF Placed, EventAt, Ipa!ipa_eogre_event, Ipa!From
<1>23. Placed(Ipa!ipa_ippt_sw_flt_event)
  BY EnumFirsts DEF Placed, EventAt, Ipa!ipa_ippt_sw_flt_event, Ipa!From
<1>24. Placed(Ipa!ipa_macsec_event)
  BY EnumFirsts DEF Placed, EventAt, Ipa!ipa_macsec_event, Ipa!From
<1>25. Placed(Ipa!ipa_done_restore_event)
  BY EnumFirsts DEF Placed, EventAt, Ipa!ipa_done_restore_event, Ipa!From
<1>26. Placed(Ipa!ipa_ext_route_evt)
  BY EnumFirsts DEF Placed, EventAt, Ipa!ipa_ext_route_evt, Ipa!From
<1>27. Placed(Ipa!ipa_eth_pdu_evt)
  BY EnumFirsts DEF Placed, EventAt, Ipa!ipa_eth_pdu_evt, Ipa!From
<1> QED
  BY <1>1, <1>2, <1>3, <1>4, <1>5, <1>6, <1>7, <1>8, <1>9, <1>10, <1>11, <1>12, <1>13,
     <1>14, <1>15, <1>16, <1>17, <1>18, <1>19, <1>20, <1>21, <1>22, <1>23, <1>24, <1>25,
     <1>26, <1>27 DEF Ipa!EventEnums

\* The number of an event is its place in the list, whichever enum it is looked up in.
LEMMA NumberOf ==
  ASSUME NEW e \in Ipa!Events
  PROVE  Ipa!Number(e) \in 0..59 /\ EventAt[Ipa!Number(e) + 1] = e
<1> DEFINE In(x) == \E k \in DOMAIN x.names : x.names[k] = e
           enum == CHOOSE x \in Ipa!EventEnums : In(x)
           place == CHOOSE k \in DOMAIN enum.names : enum.names[k] = e
<1>1. \E x \in Ipa!EventEnums : In(x)
  BY DEF Ipa!Events, Ipa!Range
<1>2. enum \in Ipa!EventEnums /\ In(enum)
  BY <1>1
<1>3. place \in DOMAIN enum.names /\ enum.names[place] = e
  BY <1>2
<1>4. Ipa!Number(e) = enum.first + place - 1
  BY DEF Ipa!Number
<1> HIDE DEF enum, place
<1>5. /\ enum.first \in Nat /\ place \in Nat
      /\ enum.first + place \in 1..60 /\ EventAt[enum.first + place] = e
  BY <1>2, <1>3, EnumsPlaced DEF Placed
<1> QED
  BY <1>4, <1>5

Meant(e) == CASE e = "IPA_PERIPHERAL_CONNECT" -> "ECM_CONNECT"
              [] e = "IPA_PERIPHERAL_DISCONNECT" -> "ECM_DISCONNECT"
              [] OTHER -> e

\* The number that is posted for an event is that of one event alone.
LEMMA PostedNumber ==
  ASSUME NEW e \in Ipa!Posts
  PROVE  /\ Ipa!msg_type(Ipa!EventNumber(e)) < Ipa!IPA_EVENT_MAX
         /\ {x \in Ipa!Events : Ipa!Number(x) = Ipa!msg_type(Ipa!EventNumber(e))} = {Meant(e)}
<1>1. DOMAIN Ipa!ipa_peripheral_event = {"IPA_PERIPHERAL_CONNECT", "IPA_PERIPHERAL_DISCONNECT"}
  BY DEF Ipa!ipa_peripheral_event
<1>2. {"ECM_CONNECT", "ECM_DISCONNECT"} \subseteq Ipa!Events
  BY DEF Ipa!Events, Ipa!EventEnums, Ipa!Range, Ipa!ipa_ecm_event, Ipa!From
<1>3. \A x \in Ipa!Events : Ipa!Number(x) \in 0..59 /\ EventAt[Ipa!Number(x) + 1] = x
  BY NumberOf
<1>4. "IPA_PERIPHERAL_CONNECT" \notin Ipa!Events /\ "IPA_PERIPHERAL_DISCONNECT" \notin Ipa!Events
  BY <1>3 DEF EventAt
<1>5. Meant(e) \in Ipa!Events /\ Ipa!EventNumber(e) = Ipa!Number(Meant(e))
  <2>1. CASE e \in DOMAIN Ipa!ipa_peripheral_event
    BY <1>1, <1>2, <2>1 DEF Meant, Ipa!EventNumber, Ipa!ipa_peripheral_event
  <2>2. CASE e \notin DOMAIN Ipa!ipa_peripheral_event
    BY <1>1, <2>2 DEF Meant, Ipa!EventNumber, Ipa!Posts
  <2> QED
    BY <2>1, <2>2
<1>6. Ipa!msg_type(Ipa!EventNumber(e)) = Ipa!Number(Meant(e))
  BY <1>3, <1>5 DEF Ipa!msg_type
<1>7. Ipa!IPA_EVENT_MAX = 60
  BY EnumFirsts DEF Ipa!IPA_EVENT_MAX
<1>8. \A x \in Ipa!Events : Ipa!Number(x) = Ipa!Number(Meant(e)) => x = Meant(e)
  BY <1>3, <1>5
<1> QED
  BY <1>3, <1>5, <1>6, <1>7, <1>8

-----------------------------------------------------------------------------
(* The IPA driver: its steps.                                            *)

\* Of the clients with open pipes: each pipe has one client, and a client that was
\* refused has none.
PipesInv ==
  /\ opened \subseteq Clients
  /\ pipes = {N(c) : c \in opened}
  /\ \A c, e \in opened : N(c) = N(e) => c = e
  /\ refused \in Clients \cup {"none"} /\ refused \notin opened

\* While the modem stops, all that will be closed is silent: nothing opens a pipe on
\* the modem any more.
SilencedInv ==
  modem = "stopping" => pipes \cap Q6Numbers \subseteq paused

\* An unread message is some event and its number.
QueueInv ==
  /\ queue \in Seq([msg_type : Nat, event : Ipa!Posts])
  /\ \A i \in 1..Len(queue) : queue[i].msg_type = Ipa!msg_type(Ipa!EventNumber(queue[i].event))

IpaInv == PipesInv /\ SilencedInv /\ QueueInv

\* Numbers of clients that are not on the modem are not closed with it.
LEMMA OthersStay ==
  ASSUME NEW c \in Clients, c \notin Ipa!ModemClients
  PROVE  N(c) \notin Q6Numbers
<1> SUFFICES ASSUME N(c) \in Q6Numbers PROVE FALSE
  OBVIOUS
<1>1. PICK e \in Ipa!ModemClients : N(e) = N(c)
  BY ModemLists
<1>2. e \in Clients /\ e # c /\ {e, c} \notin {WanNames, WlanNames}
  BY <1>1, ModemLists
<1> QED
  BY <1>1, <1>2, ClientNumbers

\* Reading and posting keep the queue.
LEMMA EnqueueStep ==
  ASSUME QueueInv, NEW e \in Ipa!Posts, Ipa!Enqueue(e)
  PROVE  QueueInv'
<1> DEFINE m == [msg_type |-> Ipa!msg_type(Ipa!EventNumber(e)), event |-> e]
<1>1. Ipa!msg_type(Ipa!EventNumber(e)) \in Nat
  <2>1. {x \in Ipa!Events : Ipa!Number(x) = Ipa!msg_type(Ipa!EventNumber(e))} = {Meant(e)}
    BY PostedNumber
  <2>2. Meant(e) \in Ipa!Events /\ Ipa!Number(Meant(e)) = Ipa!msg_type(Ipa!EventNumber(e))
    BY <2>1
  <2> QED
    BY <2>2, NumberOf
<1>2. m \in [msg_type : Nat, event : Ipa!Posts] /\ queue' = Append(queue, m)
  BY <1>1 DEF Ipa!Enqueue
<1>3. m.msg_type = Ipa!msg_type(Ipa!EventNumber(m.event))
  OBVIOUS
<1> HIDE DEF m
<1> QED
  BY <1>2, <1>3 DEF QueueInv

\* The two events of a restart are events.
LEMMA RestartEvents == {"IPA_SSR_BEFORE_SHUTDOWN", "IPA_SSR_AFTER_POWERUP"} \subseteq Ipa!Posts
BY DEF Ipa!Posts, Ipa!Events, Ipa!EventEnums, Ipa!Range, Ipa!ipa_ssr_event, Ipa!From

\* The driver begins with no pipe and no message.
LEMMA IpaStart == Ipa!Init => IpaInv
<1> SUFFICES ASSUME Ipa!Init PROVE IpaInv
  OBVIOUS
<1> QED
  BY DEF Ipa!Init, IpaInv, PipesInv, SilencedInv, QueueInv

Swept ==
  modem = "stopping" /\ modem' = "down" =>
    /\ pipes \ pipes' \subseteq paused
    /\ opened' \cap Ipa!ModemClients \subseteq {"Q6_DL_NLO_ETH_DATA_PROD"}

\* Every step keeps the invariant, and the one that ends a stop sweeps.
LEMMA IpaStep == IpaInv /\ [Ipa!Next]_ipaVars => IpaInv' /\ Swept
<1> SUFFICES ASSUME IpaInv, [Ipa!Next]_ipaVars PROVE IpaInv' /\ Swept
  OBVIOUS
<1> USE DEF IpaInv
<1>1. ASSUME NEW c \in Clients, Ipa!Connect(c) PROVE IpaInv' /\ Swept
  <2>1. /\ opened' = opened \cup {c} /\ pipes' = pipes \cup {N(c)} /\ refused' = "none"
        /\ N(c) \notin pipes /\ UNCHANGED <<modem, paused, queue>>
        /\ modem = "stopping" => c \notin Ipa!ModemClients
    BY <1>1 DEF Ipa!Connect, Ipa!CanConnect, N
  <2>2. "none" \notin Clients
    BY DEF Clients, Ipa!ipa_client_type, Ipa!Producers, Ipa!Consumers
  <2>3. PipesInv'
    BY <2>1, <2>2 DEF PipesInv
  <2>4. SilencedInv'
    BY <2>1, OthersStay DEF SilencedInv
  <2> QED
    BY <2>1, <2>3, <2>4 DEF QueueInv, Swept
<1>2. ASSUME NEW c \in Clients, Ipa!ConnectRefused(c) PROVE IpaInv' /\ Swept
  BY <1>2 DEF Ipa!ConnectRefused, PipesInv, SilencedInv, QueueInv, Swept
<1>3. ASSUME NEW c \in Clients, Ipa!Disconnect(c) PROVE IpaInv' /\ Swept
  <2>1. /\ c \in opened /\ modem # "stopping"
        /\ opened' = opened \ {c} /\ pipes' = pipes \ {N(c)} /\ refused' = "none"
        /\ UNCHANGED <<modem, paused, queue>>
    BY <1>3 DEF Ipa!Disconnect, N
  <2>2. "none" \notin Clients
    BY DEF Clients, Ipa!ipa_client_type, Ipa!Producers, Ipa!Consumers
  <2>3. PipesInv'
    BY <2>1, <2>2 DEF PipesInv
  <2> QED
    BY <2>1, <2>3 DEF QueueInv, SilencedInv, Swept
<1>4. ASSUME NEW e \in Ipa!Posts, Ipa!Post(e) PROVE IpaInv' /\ Swept
  <2>1. Ipa!Enqueue(e) /\ UNCHANGED <<opened, pipes, refused, modem, paused>>
    BY <1>4 DEF Ipa!Post
  <2> QED
    BY <2>1, EnqueueStep DEF PipesInv, SilencedInv, Swept
<1>5. CASE Ipa!ReadMessage
  <2>1. queue # <<>> /\ queue' = Tail(queue) /\ UNCHANGED <<opened, pipes, refused, modem, paused>>
    BY <1>5 DEF Ipa!ReadMessage
  <2>2. QueueInv'
    BY <2>1 DEF QueueInv
  <2> QED
    BY <2>1, <2>2 DEF PipesInv, SilencedInv, Swept
<1>6. CASE Ipa!BeforeShutdown
  <2>1. /\ modem = "up" /\ Ipa!Enqueue("IPA_SSR_BEFORE_SHUTDOWN")
        /\ paused' = {n \in pipes \cap Ipa!AllNumbers : n \in Ipa!Uncompressed \/ n \in Ipa!Compressed}
        /\ UNCHANGED <<opened, pipes, refused>>
    BY <1>6 DEF Ipa!BeforeShutdown
  <2>2. pipes \subseteq Ipa!AllNumbers
    BY LoopReachesAll DEF PipesInv
  <2>3. SilencedInv'
    BY <2>1, <2>2, ModemLists DEF SilencedInv
  <2> QED
    BY <2>1, <2>3, EnqueueStep, RestartEvents DEF PipesInv, Swept
<1>7. CASE Ipa!AfterShutdown
  <2> DEFINE gone == {n \in pipes \cap Ipa!AllNumbers : n \in Q6Numbers}
  <2>1. /\ modem = "stopping" /\ modem' = "down" /\ UNCHANGED <<refused, queue>>
        /\ pipes' = pipes \ gone /\ opened' = {c \in opened : N(c) \notin gone}
    BY <1>7 DEF Ipa!AfterShutdown, Q6Numbers, N
  <2>2. PipesInv'
    BY <2>1 DEF PipesInv
  <2>3. pipes \ pipes' \subseteq paused
    BY <2>1 DEF SilencedInv
  <2>4. ASSUME NEW c \in opened' \cap Ipa!ModemClients PROVE c = "Q6_DL_NLO_ETH_DATA_PROD"
    <3>1. c \in opened /\ N(c) \notin gone /\ c \in Clients
      BY <2>1 DEF PipesInv
    <3>2. N(c) \in pipes \cap Ipa!AllNumbers
      BY <3>1, LoopReachesAll DEF PipesInv
    <3> QED
      BY <3>1, <3>2, ModemLists
  <2> QED
    BY <2>1, <2>2, <2>3, <2>4 DEF SilencedInv, QueueInv, Swept
<1>8. CASE Ipa!AfterPowerup
  <2>1. /\ modem = "down" /\ modem' = "up" /\ Ipa!Enqueue("IPA_SSR_AFTER_POWERUP")
        /\ UNCHANGED <<opened, pipes, refused, paused>>
    BY <1>8 DEF Ipa!AfterPowerup
  <2> QED
    BY <2>1, EnqueueStep, RestartEvents DEF PipesInv, SilencedInv, Swept
<1>9. CASE UNCHANGED ipaVars
  BY <1>9 DEF ipaVars, PipesInv, SilencedInv, QueueInv, Swept
<1> QED
  BY <1>1, <1>2, <1>3, <1>4, <1>5, <1>6, <1>7, <1>8, <1>9 DEF Ipa!Next, Clients

-----------------------------------------------------------------------------
(* The IPA driver inside the whole.                                      *)

\* A step of the whole is a step of each of its parts, or leaves it alone.
LEMMA PartSteps ==
  [Next]_vars => [Ipa!Next]_ipaVars /\ [Gpu!Next]_gpuVars /\ [Modem!Next]_qmiVars
BY DEF Next, vars

\* The invariant of the IPA driver, for any number of pipes and messages.
THEOREM IpaInductive == Spec => []IpaInv
<1>1. Init => IpaInv
  BY IpaStart DEF Init
<1>2. IpaInv /\ [Next]_vars => IpaInv'
  BY IpaStep, PartSteps
<1> QED
  BY <1>1, <1>2, PTL DEF Spec

\* However many pipes are open, a client's number tells its direction, and no client is
\* refused because of another one's pipe, but for the two producers with a second name.
THEOREM ClientsByNumberHolds == Spec => []ClientsByNumber
<1>1. IpaInv => ClientsByNumber
  <2> SUFFICES ASSUME IpaInv PROVE Ipa!ClientsByNumber
    BY DEF ClientsByNumber
  <2>1. \A c \in opened : N(c) % 2 = 0 <=> c \in DOMAIN Ipa!Producers
    BY ClientNumbers DEF IpaInv, PipesInv
  <2>2. ASSUME refused # "none", NEW c \in opened, N(c) = N(refused)
        PROVE  {c, refused} \in {WanNames, WlanNames}
    BY <2>2, ClientNumbers DEF IpaInv, PipesInv
  <2> QED
    BY <2>1, <2>2 DEF Ipa!ClientsByNumber, N, WanNames, WlanNames
<1> QED
  BY <1>1, IpaInductive, PTL

\* However many messages are unread, each reads as the event that was posted and as no
\* other.
THEOREM ReadAsPostedHolds == Spec => []ReadAsPosted
<1>1. IpaInv => ReadAsPosted
  <2> SUFFICES ASSUME IpaInv, NEW i \in DOMAIN queue
               PROVE  /\ queue[i].msg_type < Ipa!IPA_EVENT_MAX
                      /\ {e \in Ipa!Events : Ipa!Number(e) = queue[i].msg_type} = {Meant(queue[i].event)}
    BY DEF ReadAsPosted, Ipa!ReadAsPosted, Meant
  <2> DEFINE Message == [msg_type : Nat, event : Ipa!Posts]
  <2>0. queue \in Seq(Message)
    BY DEF IpaInv, QueueInv
  <2>1. i \in 1..Len(queue) /\ queue[i] \in Message
    <3> HIDE DEF Message
    <3> QED
      BY <2>0
  <2>2. queue[i].event \in Ipa!Posts
    BY <2>1
  <2>3. queue[i].msg_type = Ipa!msg_type(Ipa!EventNumber(queue[i].event))
    BY <2>1 DEF IpaInv, QueueInv
  <2> QED
    BY <2>2, <2>3, PostedNumber
<1> QED
  BY <1>1, IpaInductive, PTL

\* Whatever is open when the modem restarts, what is closed was silenced before, and
\* all of the modem's pipes are closed but the one the header forgets.
THEOREM ModemSweptHolds == Spec => ModemSweptOnRestart
<1>1. IpaInv /\ [Next]_vars => [Swept]_vars
  BY IpaStep, PartSteps
<1>2. Spec => [][Swept]_vars
  BY <1>1, IpaInductive, PTL DEF Spec
<1> QED
  BY <1>2 DEF ModemSweptOnRestart, Swept

-----------------------------------------------------------------------------
(* KGSL: the constants of a flag word.                                   *)

\* The members that carry a word are 32 or 64 bits wide.
LEMMA Widths == Gpu!Width(Gpu!U32) = 32 /\ Gpu!Width(Gpu!U64) = 64
BY DEF Gpu!Width, Gpu!U32, Gpu!U64, Gpu!Scalar, Gpu!Kernel, Gpu!ABIs

\* The one bits of the numbers the header names.
LEMMA BitsOf ==
  /\ Gpu!Bits(0) = {} /\ Gpu!Bits(1) = {0} /\ Gpu!Bits(2) = {1} /\ Gpu!Bits(3) = {0, 1}
  /\ Gpu!Bits(4) = {2}
  /\ \A n \in 0..31 : Gpu!Bits(n) \subseteq 0..4
  /\ \A n \in 0..15 : Gpu!Bits(n) \subseteq 0..3
  /\ \A n : Gpu!Bits(n) \subseteq 0..7
BY DEF Gpu!Bits

\* An item's numbers stay under its mask, which a 32-bit member keeps or drops as a whole.
Sound(item) ==
  /\ item.shift \in Nat
  /\ item.mask \subseteq 0..63
  /\ item.mask \subseteq 0..31 \/ item.mask \cap (0..31) = {}
  /\ \A n \in item.numbers : \A b \in Gpu!Bits(n) : b + item.shift \in item.mask

\* No two items of a word share a bit.
Apart(items) ==
  \A name, other \in DOMAIN items : name # other => items[name].mask \cap items[other].mask = {}

\* The items of a context's word ...
LEMMA ContextWord ==
  (\A name \in DOMAIN Gpu!ContextItems : Sound(Gpu!ContextItems[name])) /\ Apart(Gpu!ContextItems)
<1> USE DEF Gpu!Flag, Gpu!Masked, Gpu!KGSL_CONTEXT_SUBMIT_IB_LIST, Gpu!KGSL_CONTEXT_CTX_SWITCH,
        Gpu!KGSL_CONTEXT_END_OF_FRAME, Gpu!KGSL_CONTEXT_SYNC, Gpu!KGSL_CONTEXT_PWR_CONSTRAINT
<1>1. \A name \in DOMAIN Gpu!ContextItems : Sound(Gpu!ContextItems[name])
  BY BitsOf DEF Gpu!ContextItems, Sound
<1>2. Apart(Gpu!ContextItems)
  BY SMTT(30) DEF Gpu!ContextItems, Apart
<1> QED
  BY <1>1, <1>2

\* ... of a command batch's ...
LEMMA CmdbatchWord ==
  (\A name \in DOMAIN Gpu!CmdbatchItems : Sound(Gpu!CmdbatchItems[name])) /\ Apart(Gpu!CmdbatchItems)
<1> USE DEF Gpu!Flag, Gpu!Masked, Gpu!KGSL_CONTEXT_SUBMIT_IB_LIST, Gpu!KGSL_CONTEXT_CTX_SWITCH,
        Gpu!KGSL_CONTEXT_END_OF_FRAME, Gpu!KGSL_CONTEXT_SYNC, Gpu!KGSL_CONTEXT_PWR_CONSTRAINT
<1>1. \A name \in DOMAIN Gpu!CmdbatchItems : Sound(Gpu!CmdbatchItems[name])
  BY BitsOf DEF Gpu!CmdbatchItems, Sound
<1>2. Apart(Gpu!CmdbatchItems)
  BY DEF Gpu!CmdbatchItems, Apart
<1> QED
  BY <1>1, <1>2

\* ... and of a buffer's, which leave the driver's mark alone.
LEMMA MemoryWord ==
  /\ \A name \in DOMAIN Gpu!MemoryItems :
         Sound(Gpu!MemoryItems[name]) /\ Gpu!MemoryItems[name].mask \cap Gpu!USERMEM.mask = {}
  /\ Apart(Gpu!MemoryItems)
<1> USE DEF Gpu!Flag, Gpu!Masked, Gpu!CacheMode, Gpu!MemoryType, Gpu!MemoryAlign
<1>1. \A name \in DOMAIN Gpu!MemoryItems : Sound(Gpu!MemoryItems[name])
  BY BitsOf DEF Gpu!MemoryItems, Sound
<1>2. Apart(Gpu!MemoryItems)
  BY DEF Gpu!MemoryItems, Apart
<1>3. \A name \in DOMAIN Gpu!MemoryItems : Gpu!MemoryItems[name].mask \cap Gpu!USERMEM.mask = {}
  BY DEF Gpu!MemoryItems, Gpu!USERMEM
<1> QED
  BY <1>1, <1>2, <1>3

\* The mark of user memory stays under its own mask.
LEMMA UserMark ==
  /\ Gpu!USERMEM.mask \subseteq 0..31 /\ Gpu!USERMEM.shift = 5
  /\ \A x \in Gpu!kgsl_user_mem_type : Gpu!KGSL_USERMEM_FLAG(x) \subseteq Gpu!USERMEM.mask
BY BitsOf DEF Gpu!USERMEM, Gpu!Masked, Gpu!kgsl_user_mem_type, Gpu!KGSL_USERMEM_FLAG

-----------------------------------------------------------------------------
(* KGSL: a word on its way.                                              *)

Kinds == {"memory", "context", "cmdbatch"}

\* The bits of an item that was asked for, and of one that was not.
AskedBits(name) ==
  IF name \in DOMAIN asked THEN {b + Gpu!Items[name].shift : b \in Gpu!Bits(asked[name])} ELSE {}

Kept(name) == word \cap Gpu!Items[name].mask = AskedBits(name)
Dropped(name) ==
  narrow /\ Gpu!Items[name].mask \cap (0..31) = {} /\ word \cap Gpu!Items[name].mask = {}

\* Every item has its own bits in the word, unless a narrow member dropped them; the
\* driver's mark is there when the memory is the user's.
GpuInv ==
  /\ kind \in Kinds /\ flags \in {"client", "driver", "returned"} /\ narrow \in BOOLEAN
  /\ user \in Gpu!kgsl_user_mem_type \cup {-1}
  /\ flags = "client" => user = -1 /\ ~narrow
  /\ DOMAIN asked \subseteq DOMAIN Gpu!Items
  /\ \A name \in DOMAIN asked : asked[name] \in Gpu!Items[name].numbers
  /\ word \subseteq 0..63
  /\ \A name \in DOMAIN Gpu!Items : Kept(name) \/ Dropped(name)
  /\ kind = "memory" =>
       word \cap Gpu!USERMEM.mask = IF user = -1 THEN {} ELSE Gpu!KGSL_USERMEM_FLAG(user)

\* The items of whichever word it is.
LEMMA ItemsOfWord ==
  ASSUME kind \in Kinds
  PROVE  /\ \A name \in DOMAIN Gpu!Items : Sound(Gpu!Items[name])
         /\ Apart(Gpu!Items)
         /\ kind = "memory" =>
              \A name \in DOMAIN Gpu!Items : Gpu!Items[name].mask \cap Gpu!USERMEM.mask = {}
<1> SUFFICES Gpu!Items = CASE kind = "memory" -> Gpu!MemoryItems
                           [] kind = "context" -> Gpu!ContextItems
                           [] kind = "cmdbatch" -> Gpu!CmdbatchItems
  BY ContextWord, CmdbatchWord, MemoryWord DEF Kinds
<1> QED
  BY DEF Gpu!Items, Kinds

\* A new word is empty.
LEMMA GpuFresh ==
  ASSUME kind \in Kinds, flags = "client", word = {}, asked = << >>, user = -1, narrow = FALSE
  PROVE  GpuInv
<1>1. DOMAIN asked = {}
  OBVIOUS
<1>2. \A name : Kept(name)
  BY <1>1 DEF Kept, AskedBits
<1> QED
  BY <1>1, <1>2 DEF GpuInv

\* Passing a word through a member drops whole items or nothing.
LEMMA PassStep ==
  ASSUME GpuInv, NEW width \in {32, 64}, Gpu!Pass(width), UNCHANGED <<kind, asked>>
  PROVE  /\ word' \subseteq 0..63 /\ narrow' \in BOOLEAN
         /\ \A name \in DOMAIN Gpu!Items : (Kept(name) \/ Dropped(name))'
         /\ word' \cap Gpu!USERMEM.mask = word \cap Gpu!USERMEM.mask
<1>1. word' = word \cap (0..(width - 1)) /\ narrow' = (narrow \/ width = 32)
  BY DEF Gpu!Pass
<1>2. Gpu!Items' = Gpu!Items
  BY DEF Gpu!Items
<1>3. ASSUME NEW name \in DOMAIN Gpu!Items PROVE (Kept(name) \/ Dropped(name))'
  <2>1. Sound(Gpu!Items[name]) /\ (Kept(name) \/ Dropped(name)) /\ word \subseteq 0..63
    BY ItemsOfWord DEF GpuInv
  <2>2. AskedBits(name)' = AskedBits(name)
    BY <1>2 DEF AskedBits
  <2> DEFINE mask == Gpu!Items[name].mask
  <2>3. word' \cap mask = word \cap mask \/ (width = 32 /\ mask \cap (0..31) = {})
    BY <1>1, <2>1 DEF Sound
  <2>4. CASE word' \cap mask = word \cap mask
    <3>1. narrow => narrow'
      BY <1>1
    <3> QED
      BY <1>2, <2>1, <2>2, <2>4, <3>1 DEF Kept, Dropped
  <2>5. CASE width = 32 /\ mask \cap (0..31) = {}
    <3>1. narrow'
      BY <1>1, <2>5
    <3>2. word' \cap mask = {}
      BY <1>1, <2>5
    <3> QED
      BY <1>2, <2>5, <3>1, <3>2 DEF Dropped
  <2> QED
    BY <2>3, <2>4, <2>5
<1>4. word' \cap Gpu!USERMEM.mask = word \cap Gpu!USERMEM.mask
  BY <1>1, UserMark
<1> QED
  BY <1>1, <1>3, <1>4 DEF GpuInv

\* The flag word of a buffer, a context or a command batch keeps the invariant.
LEMMA GpuStep == GpuInv /\ [Gpu!Next]_gpuVars => GpuInv'
<1> SUFFICES ASSUME GpuInv, [Gpu!Next]_gpuVars PROVE GpuInv'
  OBVIOUS
<1>0. Gpu!Down \subseteq {32, 64} /\ Gpu!Import = {32, 64} /\ Gpu!Up = {32, 64}
  BY Widths DEF GpuInv, Kinds, Gpu!Down, Gpu!Import, Gpu!Up
<1>1. ASSUME NEW name \in DOMAIN Gpu!Items, NEW number \in Gpu!Items[name].numbers,
             Gpu!Ask(name, number)
      PROVE  GpuInv'
  <2> DEFINE bits == {b + Gpu!Items[name].shift : b \in Gpu!Bits(number)}
  <2>1. /\ flags = "client" /\ name \notin DOMAIN asked /\ word' = word \cup bits
        /\ asked' = [n \in DOMAIN asked \cup {name} |-> IF n = name THEN number ELSE asked[n]]
        /\ UNCHANGED <<kind, flags, user, narrow>> /\ Gpu!Items' = Gpu!Items
    BY <1>1 DEF Gpu!Ask, Gpu!Items
  <2>2. Sound(Gpu!Items[name]) /\ Apart(Gpu!Items) /\ bits \subseteq Gpu!Items[name].mask
    BY ItemsOfWord DEF GpuInv, Sound
  <2>3. /\ word' \subseteq 0..63 /\ DOMAIN asked' \subseteq DOMAIN Gpu!Items
        /\ \A n \in DOMAIN asked' : asked'[n] \in Gpu!Items[n].numbers
    BY <2>1, <2>2 DEF GpuInv, Sound
  <2>4. ~narrow /\ \A n \in DOMAIN Gpu!Items : Kept(n)
    BY <2>1 DEF GpuInv, Dropped
  <2>5. AskedBits(name) = {} /\ AskedBits(name)' = bits
    BY <2>1 DEF AskedBits
  <2>6. Kept(name)'
    BY <2>1, <2>2, <2>4, <2>5 DEF Kept
  <2>7. ASSUME NEW n \in DOMAIN Gpu!Items, n # name PROVE Kept(n)'
    <3>1. AskedBits(n)' = AskedBits(n)
      BY <2>1, <2>7 DEF AskedBits
    <3>2. bits \cap Gpu!Items[n].mask = {}
      BY <2>2, <2>7 DEF Apart
    <3> HIDE DEF bits
    <3> QED
      BY <2>1, <2>4, <3>1, <3>2 DEF Kept
  <2>8. kind = "memory" => word' \cap Gpu!USERMEM.mask = word \cap Gpu!USERMEM.mask
    <3> HIDE DEF bits
    <3> QED
      BY <2>1, <2>2, ItemsOfWord DEF GpuInv
  <2> HIDE DEF bits
  <2> QED
    BY <2>1, <2>3, <2>6, <2>7, <2>8 DEF GpuInv
<1>2. ASSUME NEW width \in {32, 64}, Gpu!Submit(width) PROVE GpuInv'
  <2>1. Gpu!Pass(width) /\ flags' = "driver" /\ UNCHANGED <<kind, asked, user>>
    BY <1>2 DEF Gpu!Submit
  <2>2. Gpu!Items' = Gpu!Items
    BY <2>1 DEF Gpu!Items
  <2> QED
    BY <2>1, <2>2, PassStep DEF GpuInv
<1>3. ASSUME NEW width \in {32, 64}, NEW type \in Gpu!kgsl_user_mem_type,
             Gpu!MapUserMemory(width, type)
      PROVE  GpuInv'
  <2> DEFINE mark == Gpu!KGSL_USERMEM_FLAG(type)
  <2>1. /\ flags = "client" /\ kind = "memory"
        /\ word' = (word \cap (0..(width - 1))) \cup mark /\ narrow' = (narrow \/ width = 32)
        /\ flags' = "driver" /\ user' = type /\ UNCHANGED <<kind, asked>> /\ Gpu!Items' = Gpu!Items
    BY <1>3 DEF Gpu!MapUserMemory, Gpu!Items
  <2>2. mark \subseteq Gpu!USERMEM.mask /\ Gpu!USERMEM.mask \subseteq 0..31
    BY UserMark
  <2>3. type # -1
    BY DEF Gpu!kgsl_user_mem_type
  <2>4. word' \subseteq 0..63 /\ narrow' \in BOOLEAN
    BY <2>1, <2>2 DEF GpuInv
  <2>5. word' \cap Gpu!USERMEM.mask = mark
    <3> HIDE DEF mark
    <3> QED
      BY <2>1, <2>2 DEF GpuInv
  <2>6. ASSUME NEW n \in DOMAIN Gpu!Items PROVE (Kept(n) \/ Dropped(n))'
    <3> DEFINE mask == Gpu!Items[n].mask
    <3>1. Sound(Gpu!Items[n]) /\ mask \cap Gpu!USERMEM.mask = {} /\ Kept(n) /\ word \subseteq 0..63
      BY <2>1, ItemsOfWord DEF GpuInv, Dropped
    <3>2. AskedBits(n)' = AskedBits(n)
      BY <2>1 DEF AskedBits
    <3>3. word' \cap mask = (word \cap (0..(width - 1))) \cap mask
      <4> HIDE DEF mark
      <4> QED
        BY <2>1, <2>2, <3>1
    <3>4. word' \cap mask = word \cap mask \/ (width = 32 /\ mask \cap (0..31) = {})
      BY <3>1, <3>3 DEF Sound
    <3>5. CASE word' \cap mask = word \cap mask
      BY <2>1, <3>1, <3>2, <3>5 DEF Kept
    <3>6. CASE width = 32 /\ mask \cap (0..31) = {}
      <4>1. narrow'
        BY <2>1, <3>6
      <4>2. word' \cap mask = {}
        BY <3>3, <3>6
      <4> QED
        BY <2>1, <3>6, <4>1, <4>2 DEF Dropped
    <3> QED
      BY <3>4, <3>5, <3>6
  <2> HIDE DEF mark
  <2>7. user' # -1 /\ user' \in Gpu!kgsl_user_mem_type /\ mark = Gpu!KGSL_USERMEM_FLAG(user')
    BY <2>1, <2>3 DEF mark
  <2> QED
    BY <2>1, <2>4, <2>5, <2>6, <2>7 DEF GpuInv
<1>4. ASSUME NEW width \in {32, 64}, Gpu!GetInfo(width) PROVE GpuInv'
  <2>1. Gpu!Pass(width) /\ flags' = "returned" /\ UNCHANGED <<kind, asked, user>>
    BY <1>4 DEF Gpu!GetInfo
  <2>2. Gpu!Items' = Gpu!Items
    BY <2>1 DEF Gpu!Items
  <2> QED
    BY <2>1, <2>2, PassStep DEF GpuInv
<1>5. CASE Gpu!Finish
  <2>1. /\ kind' \in Kinds /\ flags' = "client" /\ word' = {} /\ asked' = << >> /\ user' = -1
        /\ narrow' = FALSE
    BY <1>5 DEF Gpu!Finish, Kinds
  <2>2. DOMAIN asked' = {}
    BY <2>1
  <2>3. \A name : Kept(name)'
    BY <2>1, <2>2 DEF Kept, AskedBits
  <2> QED
    BY <2>1, <2>2, <2>3 DEF GpuInv
<1>6. CASE UNCHANGED gpuVars
  BY <1>6 DEF gpuVars, GpuInv, Kept, Dropped, AskedBits, Gpu!Items
<1> QED
  BY <1>0, <1>1, <1>2, <1>3, <1>4, <1>5, <1>6 DEF Gpu!Next

\* Bits that were shifted up under a mask are the ones read back.
LEMMA ReadBack ==
  ASSUME NEW w, NEW bits \in SUBSET Nat, NEW item, item.shift \in Nat,
         w \cap item.mask = {b + item.shift : b \in bits}
  PROVE  Gpu!Read(w, item) = bits
<1>1. ASSUME NEW x \in Gpu!Read(w, item) PROVE x \in bits
  <2>1. PICK b \in w \cap item.mask : x = b - item.shift
    BY DEF Gpu!Read
  <2>2. PICK c \in bits : b = c + item.shift
    BY <2>1
  <2>3. x = c
    BY <2>1, <2>2
  <2> QED
    BY <2>3
<1>2. ASSUME NEW x \in bits PROVE x \in Gpu!Read(w, item)
  <2>1. x + item.shift \in w \cap item.mask /\ x = (x + item.shift) - item.shift
    OBVIOUS
  <2> QED
    BY <2>1 DEF Gpu!Read
<1> QED
  BY <1>1, <1>2

\* The invariant of the flag words, for any number of items.
THEOREM GpuInductive == Spec => []GpuInv
<1>1. Init => GpuInv
  BY GpuFresh DEF Init, Gpu!Init, Kinds
<1>2. GpuInv /\ [Next]_vars => GpuInv'
  BY GpuStep, PartSteps
<1> QED
  BY <1>1, <1>2, PTL DEF Spec

\* However many items are asked for, each reads as its number wherever the word is, but
\* for the high flags that a 32-bit member dropped.
THEOREM ReadsAsAskedHolds == Spec => []ReadsAsAsked
<1>1. GpuInv => ReadsAsAsked
  <2> SUFFICES ASSUME GpuInv PROVE Gpu!ReadsAsAsked
    BY DEF ReadsAsAsked
  <2>1. ASSUME NEW name \in DOMAIN Gpu!Items
        PROVE  \/ Gpu!Read(word, Gpu!Items[name]) =
                    Gpu!Bits(IF name \in DOMAIN asked THEN asked[name] ELSE 0)
               \/ /\ narrow /\ Gpu!Items[name].mask \cap (0..31) = {}
                  /\ Gpu!Read(word, Gpu!Items[name]) = {}
    <3>1. Sound(Gpu!Items[name]) /\ (Kept(name) \/ Dropped(name))
      BY ItemsOfWord DEF GpuInv
    <3>2. CASE Dropped(name)
      BY <3>2 DEF Dropped, Gpu!Read
    <3>3. CASE Kept(name) /\ name \in DOMAIN asked
      <4>1. Gpu!Bits(asked[name]) \in SUBSET Nat
        BY DEF Gpu!Bits
      <4> QED
        BY <3>1, <3>3, <4>1, ReadBack DEF Kept, AskedBits, Sound
    <3>4. CASE Kept(name) /\ name \notin DOMAIN asked
      BY <3>4, BitsOf DEF Kept, AskedBits, Gpu!Read
    <3> QED
      BY <3>1, <3>2, <3>3, <3>4
  <2>2. ASSUME kind = "memory"
        PROVE  Gpu!Read(word, Gpu!USERMEM) = IF user = -1 THEN {} ELSE Gpu!Bits(user + 1)
    <3>1. CASE user = -1
      BY <2>2, <3>1 DEF GpuInv, Gpu!Read
    <3>2. CASE user # -1
      <4>1. Gpu!Bits(user + 1) \in SUBSET Nat
        BY DEF Gpu!Bits
      <4>2. word \cap Gpu!USERMEM.mask = {b + Gpu!USERMEM.shift : b \in Gpu!Bits(user + 1)}
        BY <2>2, <3>2 DEF GpuInv, Gpu!KGSL_USERMEM_FLAG
      <4> QED
        BY <3>2, <4>1, <4>2, UserMark, ReadBack
    <3> QED
      BY <3>1, <3>2
  <2> QED
    BY <2>1, <2>2 DEF Gpu!ReadsAsAsked
<1> QED
  BY <1>1, GpuInductive, PTL

-----------------------------------------------------------------------------
(* QMI: the structures of the messages.                                  *)

\* What the largest value of an element takes, and what every element is.
Weight(e) == Modem!TlvSize(e, e.max)
IsElement(e) ==
  /\ e.optional \in BOOLEAN /\ e.array \in BOOLEAN /\ e.max \in 1..256 /\ e.elem \in Nat
  /\ e.array \/ e.max = 1

\* The weight of each of the four kinds of element.
LEMMA ElementWeights ==
  ASSUME NEW x, NEW t \in Nat
  PROVE  /\ IsElement(Modem!M(x, t)) /\ Weight(Modem!M(x, t)) = 3 + t
         /\ IsElement(Modem!O(x, t)) /\ Weight(Modem!O(x, t)) = 3 + t
         /\ \A n \in 1..255 : /\ IsElement(Modem!MA(x, t, n)) /\ Weight(Modem!MA(x, t, n)) = 4 + n * t
                               /\ IsElement(Modem!OA(x, t, n)) /\ Weight(Modem!OA(x, t, n)) = 4 + n * t
         /\ IsElement(Modem!OA(x, t, 256)) /\ Weight(Modem!OA(x, t, 256)) = 5 + 256 * t
BY DEF IsElement, Weight, Modem!M, Modem!O, Modem!MA, Modem!OA, Modem!TlvSize, Modem!TLV_HEADER,
       Modem!CountWidth

\* The most that the elements of b before the k-th take, those named in X left out.  No
\* message has more than 22 elements.
Cost(b, i, X) == IF i \in 1..Len(b) /\ b[i].name \notin X THEN Weight(b[i]) ELSE 0
Part(b, i, k, X) == IF i < k THEN Cost(b, i, X) ELSE 0
UpTo(b, k, X) ==
  Part(b, 1, k, X) + Part(b, 2, k, X) + Part(b, 3, k, X) + Part(b, 4, k, X) + Part(b, 5, k, X)
  + Part(b, 6, k, X) + Part(b, 7, k, X) + Part(b, 8, k, X) + Part(b, 9, k, X) + Part(b, 10, k, X)
  + Part(b, 11, k, X) + Part(b, 12, k, X) + Part(b, 13, k, X) + Part(b, 14, k, X)
  + Part(b, 15, k, X) + Part(b, 16, k, X) + Part(b, 17, k, X) + Part(b, 18, k, X)
  + Part(b, 19, k, X) + Part(b, 20, k, X) + Part(b, 21, k, X) + Part(b, 22, k, X)
Entire(b, X) == UpTo(b, Len(b) + 1, X)

Fits(b, n) ==
  Len(b) \in 1..22 /\ (\A i \in 1..Len(b) : IsElement(b[i])) /\ Entire(b, {}) = n

\* The length of the full message: what is declared, but for two.
Declared(m) ==
  Modem!MAX_MSG_LEN[m]
  + (IF m = "MOVE_NAT_REQ" THEN -1 ELSE IF m = "INDICATION_REGISTER_REQ" THEN 8 ELSE 0)

\* A message of one element.
LEMMA OneElement ==
  ASSUME NEW x, NEW t \in Nat, NEW b, b = <<Modem!M(x, t)>> \/ b = <<Modem!O(x, t)>>
  PROVE  Fits(b, 3 + t)
<1> USE ElementWeights DEF Fits, Entire, UpTo, Part, Cost
<1>1. CASE b = <<Modem!M(x, t)>>
  BY <1>1
<1>2. CASE b = <<Modem!O(x, t)>>
  BY <1>2
<1> QED
  BY <1>1, <1>2

\* The structures of one element, as the messages that carry only a result ...
LEMMA ShortBodies ==
  /\ Fits(Modem!ipa_indication_reg_resp_msg_v01, 7)
  /\ Fits(Modem!ipa_master_driver_init_complt_ind_msg_v01, 7)
  /\ Fits(Modem!ipa_fltr_installed_notif_resp_msg_v01, 7)
  /\ Fits(Modem!ipa_enable_force_clear_datapath_resp_msg_v01, 7)
  /\ Fits(Modem!ipa_disable_force_clear_datapath_req_msg_v01, 7)
  /\ Fits(Modem!ipa_disable_force_clear_datapath_resp_msg_v01, 7)
  /\ Fits(Modem!ipa_config_resp_msg_v01, 7)
  /\ Fits(Modem!ipa_set_data_usage_quota_resp_msg_v01, 7)
  /\ Fits(Modem!ipa_stop_data_usage_quota_resp_msg_v01, 7)
  /\ Fits(Modem!ipa_init_modem_driver_cmplt_req_msg_v01, 4)
  /\ Fits(Modem!ipa_init_modem_driver_cmplt_resp_msg_v01, 7)
  /\ Fits(Modem!ipa_enable_per_client_stats_req_msg_v01, 4)
  /\ Fits(Modem!ipa_enable_per_client_stats_resp_msg_v01, 7)
  /\ Fits(Modem!ipa_configure_ul_firewall_rules_resp_msg_v01, 7)
  /\ Fits(Modem!ipa_configure_ul_firewall_rules_ind_msg_v01, 11)
  /\ Fits(Modem!ipa_mhi_clk_vote_resp_msg_v01, 7)
  /\ Fits(Modem!ipa_mhi_cleanup_req_msg_v01, 4)
  /\ Fits(Modem!ipa_mhi_cleanup_resp_msg_v01, 7)
  /\ Fits(Modem!ipa_mhi_prime_aggr_info_resp_msg_v01, 7)
  /\ Fits(Modem!ipa_remove_offload_connection_resp_msg_v01, 7)
  /\ Fits(Modem!ipa_move_nat_req_msg_v01, 7)
  /\ Fits(Modem!ipa_move_nat_resp_msg_v01, 7)
  /\ Fits(Modem!ipa_move_nat_table_complt_ind_msg_v01, 7)
  /\ Fits(Modem!ipa_eth_backhaul_info_resp_msg_v01, 7)
<1>1. Modem!ipa_qmi_response_type_v01 = 4 /\ Modem!ipa_move_nat_type_enum_v01 = 4
      /\ Modem!ipa_ul_firewall_config_result_type_v01 = 8 /\ Modem!U8 = 1 /\ Modem!U32 = 4
  BY DEF Modem!ipa_qmi_response_type_v01, Modem!ipa_move_nat_type_enum_v01, Modem!F, Modem!U8,
         Modem!ipa_ul_firewall_config_result_type_v01, Modem!ipa_ul_firewall_status_enum_v01,
         Modem!U16, Modem!U32, Modem!Enum32
<1>2. \A x : Fits(<<Modem!M(x, 1)>>, 4) /\ Fits(<<Modem!O(x, 1)>>, 4) /\ Fits(<<Modem!M(x, 4)>>, 7)
             /\ Fits(<<Modem!O(x, 4)>>, 7) /\ Fits(<<Modem!M(x, 8)>>, 11)
  <2>1. \A x, t : t \in {1, 4, 8} => Fits(<<Modem!M(x, t)>>, 3 + t) /\ Fits(<<Modem!O(x, t)>>, 3 + t)
    BY OneElement
  <2> QED
    BY <2>1, 3 + 1 = 4, 3 + 4 = 7, 3 + 8 = 11
<1> QED
  BY <1>1, <1>2 DEF Modem!ipa_indication_reg_resp_msg_v01,
         Modem!ipa_master_driver_init_complt_ind_msg_v01,
         Modem!ipa_fltr_installed_notif_resp_msg_v01,
         Modem!ipa_enable_force_clear_datapath_resp_msg_v01,
         Modem!ipa_disable_force_clear_datapath_req_msg_v01,
         Modem!ipa_disable_force_clear_datapath_resp_msg_v01, Modem!ipa_config_resp_msg_v01,
         Modem!ipa_set_data_usage_quota_resp_msg_v01,
         Modem!ipa_stop_data_usage_quota_resp_msg_v01,
         Modem!ipa_init_modem_driver_cmplt_req_msg_v01,
         Modem!ipa_init_modem_driver_cmplt_resp_msg_v01,
         Modem!ipa_enable_per_client_stats_req_msg_v01,
         Modem!ipa_enable_per_client_stats_resp_msg_v01,
         Modem!ipa_configure_ul_firewall_rules_resp_msg_v01,
         Modem!ipa_configure_ul_firewall_rules_ind_msg_v01, Modem!ipa_mhi_clk_vote_resp_msg_v01,
         Modem!ipa_mhi_cleanup_req_msg_v01, Modem!ipa_mhi_cleanup_resp_msg_v01,
         Modem!ipa_mhi_prime_aggr_info_resp_msg_v01,
         Modem!ipa_remove_offload_connection_resp_msg_v01, Modem!ipa_move_nat_req_msg_v01,
         Modem!ipa_move_nat_resp_msg_v01, Modem!ipa_move_nat_table_complt_ind_msg_v01,
         Modem!ipa_eth_backhaul_info_resp_msg_v01

\* ... and the longer ones, added up.
LEMMA LongBodies ==
  /\ Fits(Modem!ipa_indication_reg_req_msg_v01, 24)
  /\ Fits(Modem!ipa_init_modem_driver_req_msg_v01, 197)
  /\ Fits(Modem!ipa_init_modem_driver_resp_msg_v01, 25)
  /\ Fits(Modem!ipa_install_fltr_rule_req_msg_v01, 33705)
  /\ Fits(Modem!ipa_install_fltr_rule_resp_msg_v01, 783)
  /\ Fits(Modem!ipa_fltr_installed_notif_req_msg_v01, 1899)
  /\ Fits(Modem!ipa_enable_force_clear_datapath_req_msg_v01, 37)
  /\ Fits(Modem!ipa_config_req_msg_v01, 102)
  /\ Fits(Modem!ipa_get_data_stats_req_msg_v01, 11)
  /\ Fits(Modem!ipa_get_data_stats_resp_msg_v01, 2234)
  /\ Fits(Modem!ipa_get_apn_data_stats_req_msg_v01, 36)
  /\ Fits(Modem!ipa_get_apn_data_stats_resp_msg_v01, 299)
  /\ Fits(Modem!ipa_set_data_usage_quota_req_msg_v01, 200)
  /\ Fits(Modem!ipa_data_usage_quota_reached_ind_msg_v01, 19)
  /\ Fits(Modem!ipa_stop_data_usage_quota_req_msg_v01, 8)
  /\ Fits(Modem!ipa_install_fltr_rule_req_ex_msg_v01, 34021)
  /\ Fits(Modem!ipa_install_fltr_rule_resp_ex_msg_v01, 523)
  /\ Fits(Modem!ipa_get_stats_per_client_req_msg_v01, 18)
  /\ Fits(Modem!ipa_get_stats_per_client_resp_msg_v01, 3595)
  /\ Fits(Modem!ipa_configure_ul_firewall_rules_req_msg_v01, 9875)
  /\ Fits(Modem!ipa_mhi_clk_vote_req_msg_v01, 18)
  /\ Fits(Modem!ipa_mhi_ready_indication_msg_v01, 123)
  /\ Fits(Modem!ipa_mhi_alloc_channel_req_msg_v01, 808)
  /\ Fits(Modem!ipa_mhi_alloc_channel_resp_msg_v01, 23)
  /\ Fits(Modem!ipa_endp_desc_indication_msg_v01, 507)
  /\ Fits(Modem!ipa_mhi_prime_aggr_info_req_msg_v01, 631)
  /\ Fits(Modem!ipa_add_offload_connection_req_msg_v01, 11361)
  /\ Fits(Modem!ipa_add_offload_connection_resp_msg_v01, 523)
  /\ Fits(Modem!ipa_remove_offload_connection_req_msg_v01, 520)
  /\ Fits(Modem!ipa_bw_change_ind_msg_v01, 14)
  /\ Fits(Modem!ipa_eth_backhaul_info_req_msg_v01, 45)
  /\ Fits(Modem!ipa_rmnet_eth_info_indication_msg_v01, 194)
<1> USE ElementWeights DEF Fits, Entire, UpTo, Part, Cost,
      Modem!U8, Modem!U16, Modem!U32, Modem!U64, Modem!Enum32, Modem!Array, Modem!F,
      Modem!QMI_IPA_REMOTE_MHI_CHANNELS_NUM_MAX_V01, Modem!QMI_IPA_MAX_FILTERS_EX_V01,
      Modem!QMI_IPA_MAX_FILTERS_EX2_V01, Modem!QMI_IPA_IPFLTR_NUM_IHL_RANGE_16_EQNS_V01,
      Modem!QMI_IPA_MAX_FILTERS_V01, Modem!QMI_IPA_IPFLTR_NUM_MEQ_128_EQNS_V01,
      Modem!QMI_IPA_ENDP_DESC_NUM_MAX_V01, Modem!QMI_IPA_MAX_APN_V01,
      Modem!QMI_IPA_MAX_CLIENT_DST_PIPES_V01, Modem!QMI_IPA_IPFLTR_NUM_IHL_MEQ_32_EQNS_V01,
      Modem!QMI_IPA_MAX_UL_FIREWALL_RULES_V01,
      Modem!QMI_IPA_REMOTE_MHI_MEMORY_MAPPING_NUM_MAX_V01,
      Modem!QMI_IPA_IPFLTR_NUM_MEQ_32_EQNS_V01, Modem!QMI_IPA_MAX_PIPES_V01,
      Modem!QMI_IPA_MAX_PER_CLIENTS_V01, Modem!QMI_IPA_MAX_RMNET_ETH_INFO_V01,
      Modem!QMI_IPA_MAX_MAC_ADDR_LEN_V01, Modem!QMI_IPA_MAX_IPV4_ADDR_LEN_V01,
      Modem!ipa_qmi_result_type_v01, Modem!ipa_qmi_response_type_v01,
      Modem!ipa_platform_type_enum_v01, Modem!ipa_hdr_tbl_info_type_v01,
      Modem!ipa_route_tbl_info_type_v01, Modem!ipa_filter_stats_info_type_v01,
      Modem!ipa_modem_mem_info_type_v01, Modem!ipa_hdr_proc_ctx_tbl_info_type_v01,
      Modem!ipa_zip_tbl_info_type_v01, Modem!ipa_ipfltr_range_eq_16_type_v01,
      Modem!ipa_ipfltr_mask_eq_32_type_v01, Modem!ipa_ipfltr_eq_16_type_v01,
      Modem!ipa_ipfltr_eq_32_type_v01, Modem!ipa_ipfltr_mask_eq_128_type_v01,
      Modem!ipa_filter_rule_type_v01, Modem!ipa_filter_rule_req2_type_v01,
      Modem!ipa_ip_type_enum_v01, Modem!ipa_filter_action_enum_v01,
      Modem!ipa_filter_spec_type_v01, Modem!ipa_filter_spec_ex_type_v01,
      Modem!ipa_filter_spec_ex2_type_v01, Modem!ipa_filter_rule_identifier_to_handle_map_v01,
      Modem!ipa_filter_handle_to_index_map_v01, Modem!ipa_peripheral_speed_enum_v01,
      Modem!ipa_pipe_mode_enum_v01, Modem!ipa_peripheral_type_enum_v01,
      Modem!ipa_stats_type_enum_v01, Modem!ipa_pipe_stats_info_type_v01,
      Modem!ipa_stats_type_filter_rule_v01, Modem!ipa_apn_data_stats_info_type_v01,
      Modem!ipa_data_usage_quota_info_type_v01, Modem!ipa_per_client_stats_info_type_v01,
      Modem!ipa_ul_firewall_rule_type_v01, Modem!ipa_ul_firewall_status_enum_v01,
      Modem!ipa_ul_firewall_config_result_type_v01, Modem!ipa_mhi_ch_init_info_type_v01,
      Modem!ipa_mhi_smmu_info_type_v01, Modem!ipa_mhi_mem_addr_info_type_v01,
      Modem!ipa_mhi_brst_mode_enum_v01, Modem!ipa_mhi_tr_info_type_v01,
      Modem!ipa_mhi_er_info_type_v01, Modem!ipa_mhi_ch_alloc_resp_type_v01,
      Modem!ipa_clock_rate_enum_v01, Modem!ipa_ep_desc_type_enum_v01,
      Modem!ipa_ic_type_enum_v01, Modem!ipa_ep_status_type_v01, Modem!ipa_ep_id_type_v01,
      Modem!ipa_aggr_enum_type_v01, Modem!ipa_mhi_prime_aggr_info_type_v01,
      Modem!ipa_move_nat_type_enum_v01, Modem!ipa_rmnet_eth_info_type_v01
<1>1. ASSUME NEW b, b = Modem!ipa_indication_reg_req_msg_v01 PROVE Fits(b, 24)
  BY <1>1 DEF Modem!ipa_indication_reg_req_msg_v01
<1>2. ASSUME NEW b, b = Modem!ipa_init_modem_driver_req_msg_v01 PROVE Fits(b, 197)
  BY <1>2 DEF Modem!ipa_init_modem_driver_req_msg_v01
<1>3. ASSUME NEW b, b = Modem!ipa_init_modem_driver_resp_msg_v01 PROVE Fits(b, 25)
  BY <1>3 DEF Modem!ipa_init_modem_driver_resp_msg_v01
<1>4. ASSUME NEW b, b = Modem!ipa_install_fltr_rule_req_msg_v01 PROVE Fits(b, 33705)
  BY <1>4 DEF Modem!ipa_install_fltr_rule_req_msg_v01
<1>5. ASSUME NEW b, b = Modem!ipa_install_fltr_rule_resp_msg_v01 PROVE Fits(b, 783)
  BY <1>5 DEF Modem!ipa_install_fltr_rule_resp_msg_v01
<1>6. ASSUME NEW b, b = Modem!ipa_fltr_installed_notif_req_msg_v01 PROVE Fits(b, 1899)
  BY <1>6 DEF Modem!ipa_fltr_installed_notif_req_msg_v01
<1>7. ASSUME NEW b, b = Modem!ipa_enable_force_clear_datapath_req_msg_v01 PROVE Fits(b, 37)
  BY <1>7 DEF Modem!ipa_enable_force_clear_datapath_req_msg_v01
<1>8. ASSUME NEW b, b = Modem!ipa_config_req_msg_v01 PROVE Fits(b, 102)
  BY <1>8 DEF Modem!ipa_config_req_msg_v01
<1>9. ASSUME NEW b, b = Modem!ipa_get_data_stats_req_msg_v01 PROVE Fits(b, 11)
  BY <1>9 DEF Modem!ipa_get_data_stats_req_msg_v01
<1>10. ASSUME NEW b, b = Modem!ipa_get_data_stats_resp_msg_v01 PROVE Fits(b, 2234)
  BY <1>10 DEF Modem!ipa_get_data_stats_resp_msg_v01
<1>11. ASSUME NEW b, b = Modem!ipa_get_apn_data_stats_req_msg_v01 PROVE Fits(b, 36)
  BY <1>11 DEF Modem!ipa_get_apn_data_stats_req_msg_v01
<1>12. ASSUME NEW b, b = Modem!ipa_get_apn_data_stats_resp_msg_v01 PROVE Fits(b, 299)
  BY <1>12 DEF Modem!ipa_get_apn_data_stats_resp_msg_v01
<1>13. ASSUME NEW b, b = Modem!ipa_set_data_usage_quota_req_msg_v01 PROVE Fits(b, 200)
  BY <1>13 DEF Modem!ipa_set_data_usage_quota_req_msg_v01
<1>14. ASSUME NEW b, b = Modem!ipa_data_usage_quota_reached_ind_msg_v01 PROVE Fits(b, 19)
  BY <1>14 DEF Modem!ipa_data_usage_quota_reached_ind_msg_v01
<1>15. ASSUME NEW b, b = Modem!ipa_stop_data_usage_quota_req_msg_v01 PROVE Fits(b, 8)
  BY <1>15 DEF Modem!ipa_stop_data_usage_quota_req_msg_v01
<1>16. ASSUME NEW b, b = Modem!ipa_install_fltr_rule_req_ex_msg_v01 PROVE Fits(b, 34021)
  BY <1>16 DEF Modem!ipa_install_fltr_rule_req_ex_msg_v01
<1>17. ASSUME NEW b, b = Modem!ipa_install_fltr_rule_resp_ex_msg_v01 PROVE Fits(b, 523)
  BY <1>17 DEF Modem!ipa_install_fltr_rule_resp_ex_msg_v01
<1>18. ASSUME NEW b, b = Modem!ipa_get_stats_per_client_req_msg_v01 PROVE Fits(b, 18)
  BY <1>18 DEF Modem!ipa_get_stats_per_client_req_msg_v01
<1>19. ASSUME NEW b, b = Modem!ipa_get_stats_per_client_resp_msg_v01 PROVE Fits(b, 3595)
  BY <1>19 DEF Modem!ipa_get_stats_per_client_resp_msg_v01
<1>20. ASSUME NEW b, b = Modem!ipa_configure_ul_firewall_rules_req_msg_v01 PROVE Fits(b, 9875)
  BY <1>20 DEF Modem!ipa_configure_ul_firewall_rules_req_msg_v01
<1>21. ASSUME NEW b, b = Modem!ipa_mhi_clk_vote_req_msg_v01 PROVE Fits(b, 18)
  BY <1>21 DEF Modem!ipa_mhi_clk_vote_req_msg_v01
<1>22. ASSUME NEW b, b = Modem!ipa_mhi_ready_indication_msg_v01 PROVE Fits(b, 123)
  BY <1>22 DEF Modem!ipa_mhi_ready_indication_msg_v01
<1>23. ASSUME NEW b, b = Modem!ipa_mhi_alloc_channel_req_msg_v01 PROVE Fits(b, 808)
  BY <1>23 DEF Modem!ipa_mhi_alloc_channel_req_msg_v01
<1>24. ASSUME NEW b, b = Modem!ipa_mhi_alloc_channel_resp_msg_v01 PROVE Fits(b, 23)
  BY <1>24 DEF Modem!ipa_mhi_alloc_channel_resp_msg_v01
<1>25. ASSUME NEW b, b = Modem!ipa_endp_desc_indication_msg_v01 PROVE Fits(b, 507)
  BY <1>25 DEF Modem!ipa_endp_desc_indication_msg_v01
<1>26. ASSUME NEW b, b = Modem!ipa_mhi_prime_aggr_info_req_msg_v01 PROVE Fits(b, 631)
  BY <1>26 DEF Modem!ipa_mhi_prime_aggr_info_req_msg_v01
<1>27. ASSUME NEW b, b = Modem!ipa_add_offload_connection_req_msg_v01 PROVE Fits(b, 11361)
  BY <1>27 DEF Modem!ipa_add_offload_connection_req_msg_v01
<1>28. ASSUME NEW b, b = Modem!ipa_add_offload_connection_resp_msg_v01 PROVE Fits(b, 523)
  BY <1>28 DEF Modem!ipa_add_offload_connection_resp_msg_v01
<1>29. ASSUME NEW b, b = Modem!ipa_remove_offload_connection_req_msg_v01 PROVE Fits(b, 520)
  BY <1>29 DEF Modem!ipa_remove_offload_connection_req_msg_v01
<1>30. ASSUME NEW b, b = Modem!ipa_bw_change_ind_msg_v01 PROVE Fits(b, 14)
  BY <1>30 DEF Modem!ipa_bw_change_ind_msg_v01
<1>31. ASSUME NEW b, b = Modem!ipa_eth_backhaul_info_req_msg_v01 PROVE Fits(b, 45)
  BY <1>31 DEF Modem!ipa_eth_backhaul_info_req_msg_v01
<1>32. ASSUME NEW b, b = Modem!ipa_rmnet_eth_info_indication_msg_v01 PROVE Fits(b, 194)
  BY <1>32 DEF Modem!ipa_rmnet_eth_info_indication_msg_v01
<1> HIDE ElementWeights DEF Fits
<1> QED
  BY <1>1, <1>2, <1>3, <1>4, <1>5, <1>6, <1>7, <1>8, <1>9, <1>10, <1>11, <1>12, <1>13, <1>14, <1>15,
     <1>16, <1>17, <1>18, <1>19, <1>20, <1>21, <1>22, <1>23, <1>24, <1>25, <1>26, <1>27, <1>28,
     <1>29, <1>30, <1>31, <1>32

\* Every message, at its full length.
LEMMA BodiesFit == \A m \in Modem!Names : Fits(Modem!Body[m], Declared(m))
BY ShortBodies, LongBodies, SMTT(30) DEF Declared, Modem!Names, Modem!Body, Modem!MAX_MSG_LEN

Late == {"filter_spec_ex2_list", "ul_firewall_indices_list"}
FilterRequests == {"INSTALL_FILTER_RULE_REQ", "INSTALL_FILTER_RULE_EX_REQ"}

\* What an element takes is at most its weight, and its count survives the wire.
LEMMA ElementEncoded ==
  ASSUME NEW e, IsElement(e), NEW n \in Modem!Counts(e)
  PROVE  /\ Modem!TlvSize(e, n) \in Nat /\ Modem!TlvSize(e, n) <= Weight(e) /\ Weight(e) \in Nat
         /\ Modem!CountOnWire(e, n) = n
<1>1. n \in Nat /\ n <= e.max /\ e.max \in 1..256 /\ e.elem \in Nat
  BY DEF IsElement, Modem!Counts
<1>2. n * e.elem \in Nat /\ e.max * e.elem \in Nat /\ n * e.elem <= e.max * e.elem
  <2>1. \A x, y, z \in Nat : x <= y => x * z \in Nat /\ y * z \in Nat /\ x * z <= y * z
    OBVIOUS
  <2> QED
    BY <1>1, <2>1, SMTT(30)
<1>3. /\ Modem!TlvSize(e, n) \in Nat /\ Modem!TlvSize(e, n) <= Weight(e) /\ Weight(e) \in Nat
  BY <1>2 DEF Modem!TlvSize, Weight, Modem!TLV_HEADER, Modem!CountWidth
<1>4. Modem!CountOnWire(e, n) = n
  BY <1>1 DEF Modem!CountOnWire, Modem!CountWidth
<1> QED
  BY <1>3, <1>4

\* The sum grows by one element at a time.
LEMMA UpToGrows ==
  ASSUME NEW b, NEW X, \A i \in 1..22 : Cost(b, i, X) \in Nat, NEW k \in 1..22
  PROVE  UpTo(b, k + 1, X) = UpTo(b, k, X) + Cost(b, k, X)
BY DEF UpTo, Part

\* It starts at zero ...
LEMMA UpToFirst ==
  ASSUME NEW b, NEW X
  PROVE UpTo(b, 1, X) = 0 
BY DEF UpTo, Part

\* ... and never shrinks.
LEMMA UpToMonotone ==
  ASSUME NEW b, NEW X, \A i \in 1..22 : Cost(b, i, X) \in Nat,
         NEW j \in 1..23, NEW k \in 1..23, j <= k
  PROVE  UpTo(b, j, X) \in Nat /\ UpTo(b, j, X) <= UpTo(b, k, X)
<1> DEFINE Rises(i) == UpTo(b, i + 1, X) \in Nat /\ UpTo(b, i, X) <= UpTo(b, i + 1, X)
<1>1. UpTo(b, 1, X) = 0
  BY UpToFirst
<1>2. ASSUME NEW i \in 1..22, UpTo(b, i, X) \in Nat PROVE Rises(i)
  BY <1>2, UpToGrows
<1>3. /\ Rises(1) /\ Rises(2) /\ Rises(3) /\ Rises(4) /\ Rises(5) /\ Rises(6)
      /\ Rises(7) /\ Rises(8) /\ Rises(9) /\ Rises(10) /\ Rises(11) /\ Rises(12)
      /\ Rises(13) /\ Rises(14) /\ Rises(15) /\ Rises(16) /\ Rises(17) /\ Rises(18)
      /\ Rises(19) /\ Rises(20) /\ Rises(21) /\ Rises(22)
  BY <1>1, <1>2
<1> QED
  BY <1>1, <1>3

\* Every element costs something or nothing.
LEMMA Costs ==
  ASSUME NEW b, Len(b) \in 1..22, \A i \in 1..Len(b) : IsElement(b[i]), NEW X
  PROVE  \A i \in 1..22 : Cost(b, i, X) \in Nat
<1>1. ASSUME NEW i \in 1..22 PROVE Cost(b, i, X) \in Nat
  <2>1. CASE i \in 1..Len(b) /\ b[i].name \notin X
    <3>1. b[i].max \in Modem!Counts(b[i]) /\ IsElement(b[i])
      BY <2>1 DEF IsElement, Modem!Counts
    <3> QED
      BY <2>1, <3>1, ElementEncoded DEF Cost
  <2>2. CASE ~(i \in 1..Len(b) /\ b[i].name \notin X)
    BY <2>2 DEF Cost
  <2> QED
    BY <2>1, <2>2
<1> QED
  BY <1>1

\* No message but the two filter requests outgrows the receive buffer, and those only
\* with one of the late lists.
LEMMA ReceiveBuffer ==
  /\ \A m \in Modem!Names \ FilterRequests : Declared(m) <= Modem!QMI_IPA_MAX_MSG_LEN
  /\ \A m \in FilterRequests : Entire(Modem!Body[m], Late) <= Modem!QMI_IPA_MAX_MSG_LEN
<1>1. \A m \in Modem!Names \ FilterRequests : Declared(m) <= Modem!QMI_IPA_MAX_MSG_LEN
  BY DEF Declared, FilterRequests, Modem!Names, Modem!Body, Modem!MAX_MSG_LEN, Modem!QMI_IPA_MAX_MSG_LEN
<1> USE DEF Modem!U8, Modem!U16, Modem!U32, Modem!Enum32, Modem!Array, Modem!F,
        Modem!ipa_ip_type_enum_v01, Modem!ipa_filter_action_enum_v01,
        Modem!ipa_filter_rule_type_v01, Modem!ipa_ipfltr_range_eq_16_type_v01,
        Modem!ipa_ipfltr_mask_eq_32_type_v01, Modem!ipa_ipfltr_eq_16_type_v01,
        Modem!ipa_ipfltr_eq_32_type_v01, Modem!ipa_ipfltr_mask_eq_128_type_v01,
        Modem!ipa_filter_spec_type_v01, Modem!ipa_filter_spec_ex_type_v01,
        Modem!ipa_filter_spec_ex2_type_v01, Modem!ipa_filter_rule_req2_type_v01,
        Modem!QMI_IPA_MAX_FILTERS_V01, Modem!QMI_IPA_MAX_FILTERS_EX_V01,
        Modem!QMI_IPA_IPFLTR_NUM_IHL_RANGE_16_EQNS_V01,
        Modem!QMI_IPA_IPFLTR_NUM_MEQ_32_EQNS_V01, Modem!QMI_IPA_IPFLTR_NUM_IHL_MEQ_32_EQNS_V01,
        Modem!QMI_IPA_IPFLTR_NUM_MEQ_128_EQNS_V01
<1>2. ASSUME NEW b, b = Modem!ipa_install_fltr_rule_req_msg_v01 PROVE Entire(b, Late) <= 22685
  <2>1. /\ Len(b) = 8 /\ \A i \in 1..6 : Weight(b[i]) \in Nat
        /\ Weight(b[1]) + Weight(b[2]) + Weight(b[3]) + Weight(b[4]) + Weight(b[5]) + Weight(b[6]) <= 22685
    BY <1>2, ElementWeights DEF Modem!ipa_install_fltr_rule_req_msg_v01
  <2>2. b[7].name \in Late /\ b[8].name \in Late
    BY <1>2 DEF Modem!ipa_install_fltr_rule_req_msg_v01, Modem!O, Modem!OA, Late
  <2> QED
    BY <2>1, <2>2 DEF Entire, UpTo, Part, Cost
<1>3. ASSUME NEW b, b = Modem!ipa_install_fltr_rule_req_ex_msg_v01 PROVE Entire(b, Late) <= 22685
  <2>1. /\ Len(b) = 7 /\ \A i \in 1..5 : Weight(b[i]) \in Nat
        /\ Weight(b[1]) + Weight(b[2]) + Weight(b[3]) + Weight(b[4]) + Weight(b[5]) <= 22685
    BY <1>3, ElementWeights DEF Modem!ipa_install_fltr_rule_req_ex_msg_v01
  <2>2. b[6].name \in Late /\ b[7].name \in Late
    BY <1>3 DEF Modem!ipa_install_fltr_rule_req_ex_msg_v01, Modem!O, Modem!OA, Late
  <2> QED
    BY <2>1, <2>2 DEF Entire, UpTo, Part, Cost
<1> QED
  BY <1>1, <1>2, <1>3 DEF FilterRequests, Modem!Body, Modem!QMI_IPA_MAX_MSG_LEN

\* No two messages of a kind share an identifier.
LEMMA KeysApart ==
  ASSUME NEW m \in Modem!Names, NEW n \in Modem!Names, Modem!Key(m) = Modem!Key(n)
  PROVE  m = n
<1> DEFINE Q == DOMAIN Modem!RequestId  R == DOMAIN Modem!ResponseId  I == DOMAIN Modem!IndicationId
<1>1. Modem!Names \subseteq Q \cup R \cup I /\ Q \cap R = {} /\ Q \cap I = {} /\ R \cap I = {}
  BY SMTT(30) DEF Modem!Names, Modem!Body, Modem!RequestId, Modem!ResponseId, Modem!IndicationId
<1>2. \A x, y \in Q : Modem!RequestId[x] = Modem!RequestId[y] => x = y
  BY DEF Modem!RequestId, Modem!Id
<1>3. \A x, y \in R : Modem!ResponseId[x] = Modem!ResponseId[y] => x = y
  BY DEF Modem!ResponseId, Modem!Id
<1>4. \A x, y \in I : Modem!IndicationId[x] = Modem!IndicationId[y] => x = y
  BY DEF Modem!IndicationId, Modem!Id
<1>5. /\ \A x \in Q : Modem!Key(x) = <<"request", Modem!RequestId[x]>>
      /\ \A x \in R : Modem!Key(x) = <<"response", Modem!ResponseId[x]>>
      /\ \A x \in I : Modem!Key(x) = <<"indication", Modem!IndicationId[x]>>
  BY <1>1 DEF Modem!Key
<1> HIDE DEF Q, R, I
<1> QED
  BY <1>1, <1>2, <1>3, <1>4, <1>5

\* Only the registration's maximum is smaller than the message.
LEMMA DeclaredBound ==
  \A m \in Modem!Names : /\ Modem!MAX_MSG_LEN[m] \in Nat
                         /\ m # "INDICATION_REGISTER_REQ" => Declared(m) <= Modem!MAX_MSG_LEN[m]
BY DEF Declared, Modem!Names, Modem!Body, Modem!MAX_MSG_LEN

\* Each indication to register for takes four bytes, and sixteen are declared.
LEMMA RegisterElements ==
  LET m == "INDICATION_REGISTER_REQ"
  IN  /\ Modem!MAX_MSG_LEN[m] = 16
      /\ \A i \in 1..Len(Modem!Body[m]) : \A n \in Modem!Counts(Modem!Body[m][i]) :
             Modem!TlvSize(Modem!Body[m][i], n) = 4
<1>1. Modem!MAX_MSG_LEN["INDICATION_REGISTER_REQ"] = 16
  BY DEF Modem!MAX_MSG_LEN
<1>2. Modem!Body["INDICATION_REGISTER_REQ"] = Modem!ipa_indication_reg_req_msg_v01
  BY DEF Modem!Body
<1>3. ASSUME NEW b, b = Modem!ipa_indication_reg_req_msg_v01
      PROVE  \A i \in 1..Len(b) : ~b[i].array /\ b[i].elem = 1
  BY <1>3 DEF Modem!ipa_indication_reg_req_msg_v01, Modem!O, Modem!U8
<1>4. ASSUME NEW e, ~e.array, e.elem = 1, NEW n \in Modem!Counts(e) PROVE Modem!TlvSize(e, n) = 4
  BY <1>4 DEF Modem!Counts, Modem!TlvSize, Modem!TLV_HEADER
<1> QED
  BY <1>1, <1>2, <1>3, <1>4

-----------------------------------------------------------------------------
(* QMI: a message on its way.                                            *)

\* The elements passed so far include one named in X.
PassedOf(X) == \E p \in want : Modem!Body[msg][p[1]].name \in X

\* Every element behind the encoder was passed with all its values.
AllFull == \A i \in 1..(next - 1) : <<i, Modem!Body[msg][i].max>> \in want

\* Where the encoder is: it is behind what was passed, it has written that, and what it
\* has written is no longer than the elements behind it can be, exactly so long when all
\* of them are full.
EncoderInv ==
  /\ next \in 1..(Len(Modem!Body[msg]) + 1)
  /\ wire = want /\ len <= Modem!MAX_MSG_LEN[msg]
  /\ \A p \in want : p[1] \in 1..(next - 1)
  /\ \A X \in {{}, Late} : PassedOf(X) \/ len <= UpTo(Modem!Body[msg], next, X)
  /\ AllFull => len = UpTo(Modem!Body[msg], next, {})
  /\ msg = "INDICATION_REGISTER_REQ" => IsFiniteSet(want) /\ len = 4 * Cardinality(want)

QmiInv ==
  /\ transfer \in {"idle", "encoding", "refused", "sent", "lost", "decoded"}
  /\ transfer = "idle" => next = 1 /\ want = {} /\ wire = {} /\ len = 0
  /\ transfer # "idle" => msg \in Modem!Names
  /\ len \in Nat
  /\ transfer \in {"encoding", "sent", "lost", "decoded"} => EncoderInv
  /\ transfer \in {"sent", "lost", "decoded"} => next = Len(Modem!Body[msg]) + 1
  /\ transfer = "refused" => msg = "INDICATION_REGISTER_REQ" /\ Cardinality(want) > 4
  /\ transfer = "lost" => len > Modem!QMI_IPA_MAX_MSG_LEN
  /\ transfer = "decoded" => got = [msg |-> msg, elements |-> want]

\* What is known of the structure of a message, gathered.
LEMMA BodyFacts ==
  ASSUME NEW m \in Modem!Names, NEW X
  PROVE  LET b == Modem!Body[m]
         IN  /\ Len(b) \in 1..22 /\ \A i \in 1..Len(b) : IsElement(b[i])
             /\ Entire(b, {}) = Declared(m) /\ UpTo(b, 1, X) = 0
             /\ \A k \in 1..(Len(b) + 1) : UpTo(b, k, X) \in Nat /\ UpTo(b, k, X) <= Entire(b, X)
             /\ \A k \in 1..Len(b) : /\ UpTo(b, k + 1, X) = UpTo(b, k, X) + Cost(b, k, X)
                                   /\ Cost(b, k, X) \in Nat
<1> SUFFICES ASSUME NEW b, b = Modem!Body[m], Fits(b, Declared(m))
             PROVE  /\ Len(b) \in 1..22 /\ \A i \in 1..Len(b) : IsElement(b[i])
                    /\ Entire(b, {}) = Declared(m) /\ UpTo(b, 1, X) = 0
                    /\ \A k \in 1..(Len(b) + 1) :
                           UpTo(b, k, X) \in Nat /\ UpTo(b, k, X) <= Entire(b, X)
                    /\ \A k \in 1..Len(b) : /\ UpTo(b, k + 1, X) = UpTo(b, k, X) + Cost(b, k, X)
                                            /\ Cost(b, k, X) \in Nat
  BY BodiesFit
<1>1. Len(b) \in 1..22 /\ (\A i \in 1..Len(b) : IsElement(b[i])) /\ Entire(b, {}) = Declared(m)
  BY DEF Fits
<1>0. \A l \in 1..22 : /\ \A k \in 1..(l + 1) : k \in 1..23 /\ l + 1 \in 1..23 /\ k <= l + 1
                       /\ \A k \in 1..l : k \in 1..22
  OBVIOUS
<1>2. \A i \in 1..22 : Cost(b, i, X) \in Nat
  BY <1>1, Costs
<1>3. ASSUME NEW k \in 1..(Len(b) + 1)
      PROVE  UpTo(b, k, X) \in Nat /\ UpTo(b, k, X) <= Entire(b, X)
  <2>1. k \in 1..23 /\ Len(b) + 1 \in 1..23 /\ k <= Len(b) + 1
    BY <1>0, <1>1
  <2> QED
    BY <1>2, <2>1, UpToMonotone DEF Entire
<1>4. ASSUME NEW k \in 1..Len(b)
      PROVE  UpTo(b, k + 1, X) = UpTo(b, k, X) + Cost(b, k, X) /\ Cost(b, k, X) \in Nat
  <2>1. k \in 1..22
    BY <1>0, <1>1
  <2> QED
    BY <1>2, <2>1, UpToGrows
<1>5. UpTo(b, 1, X) = 0
  BY UpToFirst
<1> QED
  BY <1>1, <1>3, <1>4, <1>5

\* The encoder writes what it is given, within the weights, and refuses only a
\* registration for more than four indications.
LEMMA EncodeStep ==
  ASSUME QmiInv, NEW n \in 0..256, Modem!EncodeElement(n)
  PROVE  QmiInv'
<1> DEFINE b == Modem!Body[msg]
           e == b[next]
           size == Modem!TlvSize(e, n)
<1>1. /\ transfer = "encoding" /\ next <= Len(b) /\ n \in Modem!Counts(e)
      /\ want' = want \cup {<<next, n>>} /\ UNCHANGED <<msg, fill, got>>
      /\ IF len + size <= Modem!MAX_MSG_LEN[msg]
           THEN /\ wire' = wire \cup {<<next, Modem!CountOnWire(e, n)>>} /\ len' = len + size
                /\ next' = next + 1 /\ transfer' = transfer
           ELSE transfer' = "refused" /\ UNCHANGED <<wire, len, next>>
  BY DEF Modem!EncodeElement, Modem!Element
<1>2. /\ msg \in Modem!Names /\ len \in Nat /\ EncoderInv
      /\ Len(b) \in 1..22 /\ next \in 1..Len(b) /\ IsElement(e)
  BY <1>1, BodyFacts, SMTT(30) DEF QmiInv, EncoderInv
<1>3. /\ size \in Nat /\ size <= Weight(e) /\ Weight(e) \in Nat /\ Modem!CountOnWire(e, n) = n
  BY <1>1, <1>2, ElementEncoded
<1>4. /\ <<next, n>>[1] = next /\ <<next, n>> \notin want
      /\ \A p \in want : p[1] \in 1..(next - 1)
  BY <1>2 DEF EncoderInv
<1> HIDE DEF size, e, b
<1>5. ASSUME msg = "INDICATION_REGISTER_REQ"
      PROVE  /\ size = 4 /\ IsFiniteSet(want') /\ len = 4 * Cardinality(want)
             /\ Cardinality(want) \in Nat /\ Cardinality(want') = Cardinality(want) + 1
  <2>1. size = 4
    BY <1>1, <1>2, <1>5, RegisterElements DEF size, e, b
  <2>2. IsFiniteSet(want) /\ len = 4 * Cardinality(want)
    BY <1>2, <1>5 DEF EncoderInv
  <2> QED
    BY <1>1, <1>4, <2>1, <2>2, FS_AddElement, FS_CardinalityType
<1>6. CASE len + size <= Modem!MAX_MSG_LEN[msg]
  <2>1. /\ want' = want \cup {<<next, n>>} /\ wire' = want' /\ len' = len + size
        /\ next' = next + 1 /\ transfer' = "encoding" /\ msg' = msg /\ got' = got
    BY <1>1, <1>2, <1>3, <1>6 DEF EncoderInv
  <2>2. /\ next' \in 1..(Len(b) + 1) /\ len' \in Nat
        /\ \A p \in want' : p[1] \in 1..(next' - 1)
    BY <1>2, <1>3, <1>4, <2>1
  <2>3. ASSUME NEW X \in {{}, Late} PROVE PassedOf(X)' \/ len' <= UpTo(b, next', X)
    <3>0. next \in 1..(Len(b) + 1)
      BY <1>2 DEF EncoderInv, b
    <3>1. UpTo(b, next + 1, X) = UpTo(b, next, X) + Cost(b, next, X) /\ UpTo(b, next, X) \in Nat
      BY <1>2, <3>0, BodyFacts DEF b
    <3>2. CASE PassedOf(X)
      BY <2>1, <3>2 DEF PassedOf
    <3>3. CASE e.name \in X
      <4>1. <<next, n>> \in want' /\ Modem!Body[msg'][<<next, n>>[1]].name \in X
        BY <1>4, <2>1, <3>3 DEF e, b
      <4> QED
        BY <4>1 DEF PassedOf
    <3>4. CASE ~PassedOf(X) /\ e.name \notin X
      <4>1. len <= UpTo(b, next, X)
        BY <1>2, <3>4 DEF EncoderInv, b
      <4>2. Cost(b, next, X) = Weight(e)
        BY <1>2, <3>4 DEF Cost, e
      <4> QED
        BY <1>2, <1>3, <2>1, <3>1, <4>1, <4>2
    <3> QED
      BY <3>2, <3>3, <3>4
  <2>4. ASSUME AllFull' PROVE len' = UpTo(b, next', {})
    <3>1. \A i \in 1..next : <<i, b[i].max>> \in want'
      BY <1>2, <2>1, <2>4 DEF AllFull, b
    <3>2. n = e.max
      <4>1. <<next, e.max>> \in want'
        BY <1>2, <3>1 DEF e
      <4>2. <<next, e.max>> \notin want
        BY <1>2, <1>4
      <4> QED
        BY <2>1, <4>1, <4>2
    <3>3. AllFull
      <4>1. ASSUME NEW i \in 1..(next - 1) PROVE <<i, b[i].max>> \in want
        BY <1>2, <2>1, <3>1
      <4> QED
        BY <4>1 DEF AllFull, b
    <3>4. len = UpTo(b, next, {}) /\ size = Weight(e)
      BY <1>2, <3>2, <3>3 DEF EncoderInv, size, Weight, b
    <3>5. Cost(b, next, {}) = Weight(e)
      BY <1>2 DEF Cost, e
    <3>6. UpTo(b, next + 1, {}) = UpTo(b, next, {}) + Cost(b, next, {})
      BY <1>2, BodyFacts DEF b
    <3> QED
      BY <2>1, <3>4, <3>5, <3>6
  <2>5. EncoderInv'
    <3>1. Modem!Body[msg'] = b /\ len' <= Modem!MAX_MSG_LEN[msg']
      BY <1>6, <2>1 DEF b
    <3>2. msg' = "INDICATION_REGISTER_REQ" => IsFiniteSet(want') /\ len' = 4 * Cardinality(want')
      BY <1>2, <1>5, <2>1
    <3> QED
      BY <2>1, <2>2, <2>3, <2>4, <3>1, <3>2 DEF EncoderInv
  <2> QED
    BY <1>2, <2>1, <2>2, <2>5 DEF QmiInv
<1>7. CASE ~(len + size <= Modem!MAX_MSG_LEN[msg])
  <2>1. transfer' = "refused" /\ msg' = msg /\ len' = len
    BY <1>1, <1>7
  <2>2. msg = "INDICATION_REGISTER_REQ"
    <3>1. len <= UpTo(b, next, {})
      BY <1>2 DEF EncoderInv, PassedOf, b
    <3>2. Cost(b, next, {}) = Weight(e)
      BY <1>2 DEF Cost, e
    <3>0. next \in 1..(Len(b) + 1) /\ next + 1 \in 1..(Len(b) + 1)
      BY <1>2
    <3>3. /\ UpTo(b, next + 1, {}) = UpTo(b, next, {}) + Cost(b, next, {})
          /\ UpTo(b, next, {}) \in Nat /\ UpTo(b, next + 1, {}) <= Declared(msg)
      BY <1>2, <3>0, BodyFacts DEF b
    <3>4. Modem!MAX_MSG_LEN[msg] \in Nat /\ Declared(msg) \in Int
      BY <1>2, DeclaredBound DEF Declared
    <3>5. ~(Declared(msg) <= Modem!MAX_MSG_LEN[msg])
      BY <1>2, <1>3, <1>7, <3>1, <3>2, <3>3, <3>4
    <3> QED
      BY <1>2, <3>5, DeclaredBound
  <2>3. Cardinality(want') > 4
    BY <1>5, <1>7, <2>2, RegisterElements
  <2> QED
    BY <1>2, <2>1, <2>2, <2>3 DEF QmiInv
<1> QED
  BY <1>6, <1>7

\* A fresh message has nothing behind the encoder.
LEMMA BeginStep ==
  ASSUME QmiInv, NEW m \in Modem!Names, NEW f, Modem!Begin(m, f)
  PROVE  QmiInv'
<1>1. /\ transfer = "idle" /\ transfer' = "encoding" /\ msg' = m
      /\ UNCHANGED <<next, want, wire, len, got>>
  BY DEF Modem!Begin
<1>2. next' = 1 /\ want' = {} /\ wire' = {} /\ len' = 0
  BY <1>1 DEF QmiInv
<1>3. Len(Modem!Body[m]) \in 1..22 /\ \A X : UpTo(Modem!Body[m], 1, X) = 0
  BY BodyFacts
<1>4. 1 \in 1..(Len(Modem!Body[m]) + 1)
  BY <1>3
<1>5. IsFiniteSet(want') /\ len' = 4 * Cardinality(want')
  BY <1>2, FS_EmptySet
<1>6. len' <= Modem!MAX_MSG_LEN[m]
  BY <1>2, DeclaredBound
<1>7. EncoderInv'
  BY <1>1, <1>2, <1>3, <1>4, <1>5, <1>6 DEF EncoderInv
<1> QED
  BY <1>1, <1>2, <1>7 DEF QmiInv

\* An element that is left out only widens what is allowed.
LEMMA SkipStep ==
  ASSUME QmiInv, Modem!SkipElement
  PROVE  QmiInv'
<1> DEFINE b == Modem!Body[msg]
<1>1. /\ transfer = "encoding" /\ next <= Len(b) /\ next' = next + 1
      /\ UNCHANGED <<transfer, msg, want, wire, len, got>>
  BY DEF Modem!SkipElement
<1>2. /\ msg \in Modem!Names /\ len \in Nat /\ EncoderInv
      /\ Len(b) \in 1..22 /\ next \in 1..Len(b) /\ next' \in 1..(Len(b) + 1)
  <2>1. msg \in Modem!Names /\ len \in Nat /\ EncoderInv
    BY <1>1 DEF QmiInv
  <2>2. Len(b) \in 1..22 /\ next \in 1..(Len(b) + 1)
    BY <2>1, BodyFacts DEF EncoderInv
  <2> HIDE DEF b
  <2> QED
    BY <1>1, <2>1, <2>2
<1> HIDE DEF b
<1>3. ASSUME NEW X \in {{}, Late} PROVE PassedOf(X)' \/ len' <= UpTo(b, next', X)
  <2>0. next \in 1..(Len(b) + 1)
    BY <1>2 DEF EncoderInv, b
  <2>1. /\ UpTo(b, next + 1, X) = UpTo(b, next, X) + Cost(b, next, X)
        /\ UpTo(b, next, X) \in Nat /\ Cost(b, next, X) \in Nat
    BY <1>2, <2>0, BodyFacts DEF b
  <2>4. CASE PassedOf(X)
    BY <1>1, <2>4 DEF PassedOf
  <2>5. CASE len <= UpTo(b, next, X)
    <3>1. UpTo(b, next', X) = UpTo(b, next, X) + Cost(b, next, X) /\ len' = len /\ len \in Nat
      BY <1>1, <1>2, <2>1
    <3> QED
      BY <2>1, <2>5, <3>1
  <2> QED
    BY <1>2, <2>4, <2>5 DEF EncoderInv, b
<1>4. ~AllFull'
  <2>1. next \in 1..(next' - 1) /\ next \notin 1..(next - 1)
    BY <1>1, <1>2
  <2>2. <<next, b[next].max>> \notin want
    <3>1. <<next, b[next].max>>[1] = next
      OBVIOUS
    <3> QED
      BY <1>2, <2>1, <3>1 DEF EncoderInv
  <2> QED
    BY <1>1, <2>1, <2>2 DEF AllFull, b
<1>5. \A p \in want' : p[1] \in 1..(next' - 1)
  BY <1>1, <1>2 DEF EncoderInv
<1>6. EncoderInv'
  <2>1. /\ Modem!Body[msg'] = b /\ wire' = want' /\ len' <= Modem!MAX_MSG_LEN[msg']
        /\ msg' = "INDICATION_REGISTER_REQ" => IsFiniteSet(want') /\ len' = 4 * Cardinality(want')
    BY <1>1, <1>2 DEF EncoderInv, b
  <2> QED
    BY <1>1, <1>2, <1>3, <1>4, <1>5, <2>1 DEF EncoderInv
<1> QED
  BY <1>1, <1>2, <1>6 DEF QmiInv

\* Every step keeps the invariant.
LEMMA QmiStep == QmiInv /\ [Modem!Next]_qmiVars => QmiInv'
<1> SUFFICES ASSUME QmiInv, [Modem!Next]_qmiVars PROVE QmiInv'
  OBVIOUS
<1>1. ASSUME NEW m \in Modem!Names, NEW f, Modem!Begin(m, f) PROVE QmiInv'
  BY <1>1, BeginStep
<1>2. CASE Modem!SkipElement
  BY <1>2, SkipStep
<1>3. ASSUME NEW n \in 0..Modem!QMI_IPA_MAX_FILTERS_EX2_V01, Modem!EncodeElement(n) PROVE QmiInv'
  BY <1>3, EncodeStep DEF Modem!QMI_IPA_MAX_FILTERS_EX2_V01
<1>4. CASE Modem!Send
  <2>1. /\ transfer = "encoding" /\ next > Len(Modem!Body[msg]) /\ transfer' = "sent"
        /\ UNCHANGED <<msg, next, want, wire, len, got>>
    BY <1>4 DEF Modem!Send
  <2>2. EncoderInv /\ EncoderInv'
    BY <2>1 DEF QmiInv, EncoderInv, AllFull, PassedOf
  <2>3. Len(Modem!Body[msg]) \in 1..22
    BY <2>1, BodyFacts DEF QmiInv
  <2>4. next = Len(Modem!Body[msg]) + 1
    BY <2>1, <2>2, <2>3 DEF EncoderInv
  <2> QED
    BY <2>1, <2>2, <2>4 DEF QmiInv
<1>5. CASE Modem!Overrun
  <2>1. /\ transfer = "sent" /\ len > Modem!QMI_IPA_MAX_MSG_LEN /\ transfer' = "lost"
        /\ UNCHANGED <<msg, next, want, wire, len, got>>
    BY <1>5 DEF Modem!Overrun
  <2>2. EncoderInv'
    BY <2>1 DEF QmiInv, EncoderInv, AllFull, PassedOf
  <2> QED
    BY <2>1, <2>2 DEF QmiInv
<1>6. ASSUME NEW m \in Modem!Names, Modem!Decode(m) PROVE QmiInv'
  <2>1. /\ transfer = "sent" /\ Modem!Key(m) = Modem!Key(msg) /\ transfer' = "decoded"
        /\ got' = [msg |-> m, elements |-> wire] /\ UNCHANGED <<msg, next, want, wire, len>>
    BY <1>6 DEF Modem!Decode
  <2>2. m = msg
    BY <2>1, KeysApart DEF QmiInv
  <2>3. EncoderInv' /\ wire = want
    BY <2>1 DEF QmiInv, EncoderInv, AllFull, PassedOf
  <2> QED
    BY <2>1, <2>2, <2>3 DEF QmiInv
<1>7. CASE Modem!Done
  BY <1>7 DEF Modem!Done, QmiInv
<1>8. CASE UNCHANGED qmiVars
  BY <1>8 DEF qmiVars, QmiInv, EncoderInv, AllFull, PassedOf
<1> QED
  BY <1>1, <1>2, <1>3, <1>4, <1>5, <1>6, <1>7, <1>8 DEF Modem!Next

\* The invariant of the messages, whatever the sender leaves out or in.
THEOREM QmiInductive == Spec => []QmiInv
<1>1. Init => QmiInv
  BY DEF Init, Modem!Init, QmiInv
<1>2. QmiInv /\ [Next]_vars => QmiInv'
  BY QmiStep, PartSteps
<1> QED
  BY <1>1, <1>2, PTL DEF Spec

\* Whatever of a message is filled in, it arrives as it was passed, but for a
\* registration for more than four indications and a filter request with a late list.
THEOREM ArrivesAsPassedHolds == Spec => []ArrivesAsPassed
<1>1. QmiInv => ArrivesAsPassed
  <2> SUFFICES ASSUME QmiInv PROVE Modem!ArrivesAsPassed
    BY DEF ArrivesAsPassed
  <2>1. ASSUME transfer = "lost"
        PROVE  /\ msg \in FilterRequests
               /\ Modem!Passed("filter_spec_ex2_list") \/ Modem!Passed("ul_firewall_indices_list")
    <3> DEFINE b == Modem!Body[msg]
    <3>1. /\ msg \in Modem!Names /\ EncoderInv /\ next = Len(b) + 1 /\ len \in Nat
          /\ len > Modem!QMI_IPA_MAX_MSG_LEN
      BY <2>1 DEF QmiInv
    <3>2. \A X \in {{}, Late} : PassedOf(X) \/ len <= Entire(b, X)
      BY <3>1 DEF EncoderInv, Entire
    <3>3. len <= Declared(msg)
      BY <3>1, <3>2, BodyFacts DEF PassedOf
    <3>4. Declared(msg) \in Int
      BY <3>1, DeclaredBound DEF Declared
    <3>5. msg \in FilterRequests
      BY <3>1, <3>3, <3>4, ReceiveBuffer DEF Modem!QMI_IPA_MAX_MSG_LEN
    <3>6. PassedOf(Late)
      <4>1. Entire(b, Late) \in Nat /\ Entire(b, Late) <= Modem!QMI_IPA_MAX_MSG_LEN
        <5>1. Len(b) + 1 \in 1..(Len(b) + 1)
          BY <3>1, BodyFacts
        <5> QED
          BY <3>1, <3>5, <5>1, BodyFacts, ReceiveBuffer DEF Entire
      <4> QED
        BY <3>1, <3>2, <4>1 DEF Modem!QMI_IPA_MAX_MSG_LEN
    <3> QED
      BY <3>5, <3>6 DEF PassedOf, Late, Modem!Passed
  <2>2. transfer = "decoded" => got = [msg |-> msg, elements |-> want]
    BY DEF QmiInv
  <2>3. transfer = "refused" => msg = "INDICATION_REGISTER_REQ" /\ Cardinality(want) > 4
    BY DEF QmiInv
  <2>4. Modem!Cardinality(want) = Cardinality(want)
    BY DEF Modem!Cardinality, Cardinality
  <2> QED
    BY <2>1, <2>2, <2>3, <2>4 DEF Modem!ArrivesAsPassed, FilterRequests
<1> QED
  BY <1>1, QmiInductive, PTL

\* A message with every element full is as long as the header declares.
THEOREM DeclaredLengthIsExactHolds == Spec => []DeclaredLengthIsExact
<1>1. QmiInv => DeclaredLengthIsExact
  <2> SUFFICES ASSUME QmiInv, transfer = "sent",
                      \A i \in 1..Len(Modem!Body[msg]) : <<i, Modem!Body[msg][i].max>> \in want
               PROVE  len = Modem!MAX_MSG_LEN[msg] - (IF msg = "MOVE_NAT_REQ" THEN 1 ELSE 0)
    BY DEF DeclaredLengthIsExact, Modem!DeclaredLengthIsExact
  <2>1. msg \in Modem!Names /\ EncoderInv /\ next = Len(Modem!Body[msg]) + 1
    BY DEF QmiInv
  <2>2. next - 1 = Len(Modem!Body[msg])
    BY <2>1, BodyFacts
  <2>3. len = Declared(msg)
    BY <2>1, <2>2, BodyFacts DEF EncoderInv, AllFull, Entire
  <2>4. len <= Modem!MAX_MSG_LEN[msg] /\ Modem!MAX_MSG_LEN[msg] \in Nat
    BY <2>1, DeclaredBound DEF EncoderInv
  <2> QED
    BY <2>3, <2>4 DEF Declared
<1> QED
  BY <1>1, QmiInductive, PTL

=============================================================================
