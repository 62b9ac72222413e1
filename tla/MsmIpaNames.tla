---------------------------- MODULE MsmIpaNames ----------------------------
(*************************************************************************)
(* The clients and the events of src/include/linux/msm_ipa.h: numbers    *)
(* that several drivers, the modem and a daemon have to agree on.  A     *)
(* macro IPA_CLIENT_IS_X is the set of the clients it holds for.         *)
(*************************************************************************)
EXTENDS Integers, Sequences, Functions, TLC

\* The enumerators, and WLAN2_PROD, which a #define makes a second name.
Producers ==
    [HSIC1_PROD |-> 0, HSIC2_PROD |-> 2, HSIC3_PROD |-> 4, HSIC4_PROD |-> 6, HSIC5_PROD |-> 8,
     WLAN1_PROD |-> 10, A5_WLAN_AMPDU_PROD |-> 12, WLAN2_PROD |-> 12, WLAN3_PROD |-> 14,
     WLAN2_PROD1 |-> 16, USB_PROD |-> 18, USB2_PROD |-> 20, USB3_PROD |-> 22, USB4_PROD |-> 24,
     UC_USB_PROD |-> 26, A2_EMBEDDED_PROD |-> 28, A2_TETHERED_PROD |-> 30, APPS_LAN_PROD |-> 32, APPS_WAN_PROD |-> 34,
     APPS_LAN_WAN_PROD |-> 34, APPS_CMD_PROD |-> 36, ODU_PROD |-> 38, WLAN3_PROD1 |-> 40,
     MHI_PROD |-> 42, MEMCPY_DMA_SYNC_PROD |-> 44, MEMCPY_DMA_ASYNC_PROD |-> 46,
     ETHERNET_PROD |-> 48, Q6_LAN_PROD |-> 50, Q6_WAN_PROD |-> 52, Q6_CMD_PROD |-> 54,
     Q6_DECOMP_PROD |-> 56, Q6_DECOMP2_PROD |-> 58, TEST_PROD |-> 62, TEST1_PROD |-> 64,
     TEST2_PROD |-> 66, TEST3_PROD |-> 68, TEST4_PROD |-> 70, Q6_DL_NLO_DATA_PROD |-> 74,
     Q6_AUDIO_DMA_MHI_PROD |-> 84, WIGIG_PROD |-> 86, MHI_PRIME_TETH_PROD |-> 96,
     MHI_PRIME_RMNET_PROD |-> 98, MHI_PRIME_DPL_PROD |-> 100, AQC_ETHERNET_PROD |-> 102,
     APPS_WAN_LOW_LAT_PROD |-> 104, QDSS_PROD |-> 106, RTK_ETHERNET_PROD |-> 108,
     MHI_LOW_LAT_PROD |-> 110, MHI2_PROD |-> 112, Q6_CV2X_PROD |-> 114, ETHERNET2_PROD |-> 116,
     APPS_WAN_LOW_LAT_DATA_PROD |-> 120, Q6_DL_NLO_LL_DATA_PROD |-> 122,
     Q6_DL_NLO_ETH_DATA_PROD |-> 126, APPS_WAN_ETH_PROD |-> 128]

Consumers ==
    [HSIC1_CONS |-> 1, HSIC2_CONS |-> 3, HSIC3_CONS |-> 5, HSIC4_CONS |-> 7, HSIC5_CONS |-> 9,
     WLAN1_CONS |-> 11, WLAN2_CONS |-> 13, WLAN3_CONS |-> 15, WLAN4_CONS |-> 17, USB_CONS |-> 19,
     USB2_CONS |-> 21, USB3_CONS |-> 23, USB4_CONS |-> 25, USB_DPL_CONS |-> 27,
     A2_EMBEDDED_CONS |-> 29, A2_TETHERED_CONS |-> 31, APPS_LAN_CONS |-> 33, APPS_WAN_CONS |-> 35,
     A5_LAN_WAN_CONS |-> 37, ODU_EMB_CONS |-> 39, ODU_TETH_CONS |-> 41, MHI_CONS |-> 43,
     MEMCPY_DMA_SYNC_CONS |-> 45, MEMCPY_DMA_ASYNC_CONS |-> 47, ETHERNET_CONS |-> 49,
     Q6_LAN_CONS |-> 51, Q6_WAN_CONS |-> 53, Q6_DUN_CONS |-> 55, Q6_DECOMP_CONS |-> 57,
     Q6_DECOMP2_CONS |-> 59, Q6_LTE_WIFI_AGGR_CONS |-> 61, TEST_CONS |-> 63, TEST1_CONS |-> 65,
     TEST2_CONS |-> 67, TEST3_CONS |-> 69, TEST4_CONS |-> 71, DUMMY_CONS |-> 73,
     Q6_UL_NLO_DATA_CONS |-> 75, Q6_UL_NLO_ACK_CONS |-> 77, Q6_QBAP_STATUS_CONS |-> 79,
     MHI_DPL_CONS |-> 81, ODL_DPL_CONS |-> 83, Q6_AUDIO_DMA_MHI_CONS |-> 85, WIGIG1_CONS |-> 87,
     WIGIG2_CONS |-> 89, WIGIG3_CONS |-> 91, WIGIG4_CONS |-> 93, APPS_WAN_COAL_CONS |-> 95,
     MHI_PRIME_TETH_CONS |-> 97, MHI_PRIME_RMNET_CONS |-> 99, MHI_COAL_CONS |-> 101,
     AQC_ETHERNET_CONS |-> 103, APPS_WAN_LOW_LAT_CONS |-> 105, MHI_QDSS_CONS |-> 107,
     RTK_ETHERNET_CONS |-> 109, MHI_LOW_LAT_CONS |-> 111, MHI2_CONS |-> 113, Q6_CV2X_CONS |-> 115,
     ETHERNET2_CONS |-> 117, WLAN2_CONS1 |-> 119, APPS_WAN_LOW_LAT_DATA_CONS |-> 121,
     TPUT_CONS |-> 125]

\* mutant: a new client on a number that is taken
OnTakenNumber ==
    [c \in DOMAIN Producers \cup DOMAIN Consumers |->
        IF c \in DOMAIN Producers THEN Producers[c] ELSE IF c = "WLAN2_CONS1" THEN 13 ELSE Consumers[c]]

ipa_client_type ==
    [c \in DOMAIN Producers \cup DOMAIN Consumers |->
        IF c \in DOMAIN Producers THEN Producers[c] ELSE Consumers[c]]

\* The clients on the modem, by their names.
ModemClients ==
    {"Q6_LAN_PROD", "Q6_LAN_CONS", "Q6_WAN_PROD", "Q6_WAN_CONS", "Q6_CMD_PROD", "Q6_DUN_CONS",
     "Q6_DECOMP_PROD", "Q6_DECOMP_CONS", "Q6_DECOMP2_PROD", "Q6_DECOMP2_CONS",
     "Q6_LTE_WIFI_AGGR_CONS", "Q6_DL_NLO_DATA_PROD", "Q6_UL_NLO_DATA_CONS", "Q6_UL_NLO_ACK_CONS",
     "Q6_QBAP_STATUS_CONS", "Q6_AUDIO_DMA_MHI_PROD", "Q6_AUDIO_DMA_MHI_CONS", "Q6_CV2X_PROD",
     "Q6_CV2X_CONS", "Q6_DL_NLO_LL_DATA_PROD", "Q6_DL_NLO_ETH_DATA_PROD"}

IPA_CLIENT_MAX == ipa_client_type.APPS_WAN_ETH_PROD + 1

ClientNumbers(names) == {ipa_client_type[n] : n \in names}

IPA_CLIENT_IS_APPS_CONS ==
    ClientNumbers({"APPS_LAN_CONS", "APPS_WAN_CONS", "APPS_WAN_COAL_CONS", "APPS_WAN_LOW_LAT_CONS",
            "APPS_WAN_LOW_LAT_DATA_CONS"})

IPA_CLIENT_IS_APPS_PROD ==
    ClientNumbers({"APPS_LAN_PROD", "APPS_WAN_PROD", "APPS_WAN_LOW_LAT_PROD",
            "APPS_WAN_LOW_LAT_DATA_PROD", "APPS_WAN_ETH_PROD"})

IPA_CLIENT_IS_USB_CONS ==
    ClientNumbers({"USB_CONS", "USB2_CONS", "USB3_CONS", "USB_DPL_CONS", "USB4_CONS"})

IPA_CLIENT_IS_WAN_CONS ==
    ClientNumbers({"APPS_WAN_CONS", "APPS_WAN_COAL_CONS"})

IPA_CLIENT_IS_LOW_LAT_CONS ==
    ClientNumbers({"APPS_WAN_LOW_LAT_CONS"})

IPA_CLIENT_IS_WLAN_CONS ==
    ClientNumbers({"WLAN1_CONS", "WLAN2_CONS", "WLAN3_CONS", "WLAN2_CONS1", "WLAN4_CONS"})

IPA_CLIENT_IS_ODU_CONS ==
    ClientNumbers({"ODU_EMB_CONS", "ODU_TETH_CONS"})

IPA_CLIENT_IS_Q6_CONS ==
    ClientNumbers({"Q6_LAN_CONS", "Q6_WAN_CONS", "Q6_DUN_CONS", "Q6_DECOMP_CONS", "Q6_DECOMP2_CONS",
            "Q6_LTE_WIFI_AGGR_CONS", "Q6_UL_NLO_DATA_CONS", "Q6_UL_NLO_ACK_CONS",
            "Q6_QBAP_STATUS_CONS", "Q6_CV2X_CONS", "Q6_AUDIO_DMA_MHI_CONS"})

\* mutant: without the newest data pipe
Q6ProdWithoutLowLatency ==
    ClientNumbers({"Q6_LAN_PROD", "Q6_WAN_PROD", "Q6_CMD_PROD", "Q6_DECOMP_PROD", "Q6_DECOMP2_PROD",
            "Q6_DL_NLO_DATA_PROD", "Q6_CV2X_PROD", "Q6_AUDIO_DMA_MHI_PROD"})

IPA_CLIENT_IS_Q6_PROD ==
    ClientNumbers({"Q6_LAN_PROD", "Q6_WAN_PROD", "Q6_CMD_PROD", "Q6_DECOMP_PROD", "Q6_DECOMP2_PROD",
            "Q6_DL_NLO_LL_DATA_PROD", "Q6_DL_NLO_DATA_PROD", "Q6_CV2X_PROD",
            "Q6_AUDIO_DMA_MHI_PROD"})

IPA_CLIENT_IS_Q6_NON_ZIP_CONS ==
    ClientNumbers({"Q6_LAN_CONS", "Q6_WAN_CONS", "Q6_DUN_CONS", "Q6_LTE_WIFI_AGGR_CONS",
            "Q6_UL_NLO_DATA_CONS", "Q6_UL_NLO_ACK_CONS", "Q6_QBAP_STATUS_CONS", "Q6_CV2X_CONS",
            "Q6_AUDIO_DMA_MHI_CONS"})

IPA_CLIENT_IS_Q6_ZIP_CONS ==
    ClientNumbers({"Q6_DECOMP_CONS", "Q6_DECOMP2_CONS"})

IPA_CLIENT_IS_Q6_NON_ZIP_PROD ==
    ClientNumbers({"Q6_LAN_PROD", "Q6_WAN_PROD", "Q6_CMD_PROD", "Q6_DL_NLO_DATA_PROD",
            "Q6_DL_NLO_LL_DATA_PROD", "Q6_CV2X_PROD", "Q6_AUDIO_DMA_MHI_PROD"})

IPA_CLIENT_IS_Q6_ZIP_PROD ==
    ClientNumbers({"Q6_DECOMP_PROD", "Q6_DECOMP2_PROD"})

IPA_CLIENT_IS_MEMCPY_DMA_CONS ==
    ClientNumbers({"MEMCPY_DMA_SYNC_CONS", "MEMCPY_DMA_ASYNC_CONS"})

IPA_CLIENT_IS_MEMCPY_DMA_PROD ==
    ClientNumbers({"MEMCPY_DMA_SYNC_PROD", "MEMCPY_DMA_ASYNC_PROD"})

IPA_CLIENT_IS_MHI ==
    ClientNumbers({"MHI_CONS", "MHI_PROD", "MHI2_PROD", "MHI2_CONS", "MHI_DPL_CONS", "MHI_LOW_LAT_CONS",
            "MHI_LOW_LAT_PROD", "MHI_QDSS_CONS", "MHI_COAL_CONS"})

IPA_CLIENT_IS_TEST_PROD ==
    ClientNumbers({"TEST_PROD", "TEST1_PROD", "TEST2_PROD", "TEST3_PROD", "TEST4_PROD"})

IPA_CLIENT_IS_TEST_CONS ==
    ClientNumbers({"TEST_CONS", "TEST1_CONS", "TEST2_CONS", "TEST3_CONS", "TEST4_CONS"})

IPA_CLIENT_IS_TEST == IPA_CLIENT_IS_TEST_PROD \cup IPA_CLIENT_IS_TEST_CONS

-----------------------------------------------------------------------------
\* An enum whose first member is given and whose last one is its MAX.
From(first, names) == [first |-> first, names |-> names, max |-> first + Len(names)]

ipa_wlan_event ==
    From(0, <<"WLAN_CLIENT_CONNECT", "WLAN_CLIENT_DISCONNECT", "WLAN_CLIENT_POWER_SAVE_MODE",
     "WLAN_CLIENT_NORMAL_MODE", "SW_ROUTING_ENABLE", "SW_ROUTING_DISABLE", "WLAN_AP_CONNECT",
     "WLAN_AP_DISCONNECT", "WLAN_STA_CONNECT", "WLAN_STA_DISCONNECT", "WLAN_CLIENT_CONNECT_EX",
     "WLAN_SWITCH_TO_SCC", "WLAN_SWITCH_TO_MCC", "WLAN_WDI_ENABLE", "WLAN_WDI_DISABLE">>)

ipa_wan_event ==
    From(ipa_wlan_event.max, <<"WAN_UPSTREAM_ROUTE_ADD", "WAN_UPSTREAM_ROUTE_DEL", "WAN_EMBMS_CONNECT", "WAN_XLAT_CONNECT">>)

ipa_ecm_event ==
    From(ipa_wan_event.max, <<"ECM_CONNECT", "ECM_DISCONNECT">>)

ipa_tethering_stats_event ==
    From(ipa_ecm_event.max, <<"IPA_TETHERING_STATS_UPDATE_STATS", "IPA_TETHERING_STATS_UPDATE_NETWORK_STATS">>)

ipa_quota_event ==
    From(ipa_tethering_stats_event.max, <<"IPA_QUOTA_REACH">>)

ipa_ssr_event ==
    From(ipa_quota_event.max, <<"IPA_SSR_BEFORE_SHUTDOWN", "IPA_SSR_AFTER_POWERUP">>)

ipa_vlan_l2tp_event ==
    From(ipa_ssr_event.max, <<"ADD_VLAN_IFACE", "DEL_VLAN_IFACE", "ADD_L2TP_VLAN_MAPPING", "DEL_L2TP_VLAN_MAPPING">>)

ipa_per_client_stats_event ==
    From(ipa_vlan_l2tp_event.max, <<"IPA_PER_CLIENT_STATS_CONNECT_EVENT", "IPA_PER_CLIENT_STATS_DISCONNECT_EVENT">>)

ipa_vlan_bridge_event ==
    From(ipa_per_client_stats_event.max, <<"ADD_BRIDGE_VLAN_MAPPING", "DEL_BRIDGE_VLAN_MAPPING">>)

ipa_wlan_fw_ssr_event ==
    From(ipa_vlan_bridge_event.max, <<"WLAN_FWR_SSR_BEFORE_SHUTDOWN">>)

ipa_gsb_event ==
    From(ipa_wlan_fw_ssr_event.max, <<"IPA_GSB_CONNECT", "IPA_GSB_DISCONNECT">>)

ipa_coalesce_event ==
    From(ipa_gsb_event.max, <<"IPA_COALESCE_ENABLE", "IPA_COALESCE_DISABLE">>)

\* mutant: chained to the enum before last
MtuFromGsb ==
    From(ipa_gsb_event.max, <<"IPA_SET_MTU">>)

ipa_mtu_event ==
    From(ipa_coalesce_event.max, <<"IPA_SET_MTU">>)

wigig_event ==
    From(ipa_mtu_event.max, <<"WIGIG_CLIENT_CONNECT", "WIGIG_FST_SWITCH">>)

ipa_pdn_config_event ==
    From(wigig_event.max, <<"IPA_PDN_DEFAULT_MODE_CONFIG", "IPA_PDN_IP_COLLISION_MODE_CONFIG",
     "IPA_PDN_IP_PASSTHROUGH_MODE_CONFIG">>)

ipa_mac_flt_event ==
    From(ipa_pdn_config_event.max, <<"IPA_MAC_FLT_EVENT">>)

ipa_sockv5_event ==
    From(ipa_mac_flt_event.max, <<"IPA_SOCKV5_ADD", "IPA_SOCKV5_DEL">>)

ipa_warning_limit_event ==
    From(ipa_sockv5_event.max, <<"IPA_WARNING_LIMIT_REACHED">>)

ipa_sw_flt_event ==
    From(ipa_warning_limit_event.max, <<"IPA_SW_FLT_EVENT">>)

ipa_pkt_threshold_event ==
    From(ipa_sw_flt_event.max, <<"IPA_PKT_THRESHOLD_EVENT">>)

ipa_move_nat_table_event ==
    From(ipa_pkt_threshold_event.max, <<"IPA_MOVE_NAT_TABLE">>)

ipa_eogre_event ==
    From(ipa_move_nat_table_event.max, <<"IPA_EoGRE_UP_EVENT", "IPA_EoGRE_DOWN_EVENT">>)

ipa_ippt_sw_flt_event ==
    From(ipa_eogre_event.max, <<"IPA_IPPT_SW_FLT_EVENT">>)

ipa_macsec_event ==
    From(ipa_ippt_sw_flt_event.max, <<"IPA_MACSEC_ADD_EVENT", "IPA_MACSEC_DEL_EVENT">>)

ipa_done_restore_event ==
    From(ipa_macsec_event.max, <<"IPA_DONE_RESTORE_EVENT">>)

ipa_ext_route_evt ==
    From(ipa_done_restore_event.max, <<"IPA_SET_EXT_ROUTER_MODE_EVENT">>)

ipa_eth_pdu_evt ==
    From(ipa_ext_route_evt.max, <<"IPA_ENABLE_ETH_PDU_MODE_EVENT">>)

EventEnums ==
    {ipa_wlan_event, ipa_wan_event, ipa_ecm_event, ipa_tethering_stats_event, ipa_quota_event,
     ipa_ssr_event, ipa_vlan_l2tp_event, ipa_per_client_stats_event, ipa_vlan_bridge_event,
     ipa_wlan_fw_ssr_event, ipa_gsb_event, ipa_coalesce_event, ipa_mtu_event, wigig_event,
     ipa_pdn_config_event, ipa_mac_flt_event, ipa_sockv5_event, ipa_warning_limit_event,
     ipa_sw_flt_event, ipa_pkt_threshold_event, ipa_move_nat_table_event, ipa_eogre_event,
     ipa_ippt_sw_flt_event, ipa_macsec_event, ipa_done_restore_event, ipa_ext_route_evt,
     ipa_eth_pdu_evt}

IPA_EVENT_MAX == ipa_eth_pdu_evt.max

\* The number of an event in the one list that the enums form together.
Number(e) ==
    LET enum == CHOOSE x \in EventEnums : \E k \in DOMAIN x.names : x.names[k] = e
    IN  enum.first + (CHOOSE k \in DOMAIN enum.names : enum.names[k] = e) - 1

ipa_peripheral_event ==
    [IPA_PERIPHERAL_CONNECT |-> Number("ECM_CONNECT"), IPA_PERIPHERAL_DISCONNECT |-> Number("ECM_DISCONNECT")]

Events == UNION {Range(x.names) : x \in EventEnums}
=============================================================================
