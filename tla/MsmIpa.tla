------------------------------- MODULE MsmIpa -------------------------------
(*************************************************************************)
(* The structures and ioctls of src/include/linux/msm_ipa.h, the user    *)
(* interface of the IPA network accelerator: one definition per          *)
(* structure, with the names of the header, and three tables of ioctls.  *)
(*************************************************************************)
EXTENDS UapiLayout, TLC

IPA_IOC_MAGIC == 207 \* 0xCF
TETH_BRIDGE_IOC_MAGIC == 206 \* 0xCE
ODU_BRIDGE_IOC_MAGIC == 205 \* 0xCD

IPA_IOCTL == [
    ADD_HDR |-> 0, DEL_HDR |-> 1, ADD_RT_RULE |-> 2, DEL_RT_RULE |-> 3, ADD_FLT_RULE |-> 4, DEL_FLT_RULE |-> 5,
    COMMIT_HDR |-> 6, RESET_HDR |-> 7, COMMIT_RT |-> 8, RESET_RT |-> 9, COMMIT_FLT |-> 10, RESET_FLT |-> 11,
    DUMP |-> 12, GET_RT_TBL |-> 13, PUT_RT_TBL |-> 14, COPY_HDR |-> 15, QUERY_INTF |-> 16,
    QUERY_INTF_TX_PROPS |-> 17, QUERY_INTF_RX_PROPS |-> 18, GET_HDR |-> 19, PUT_HDR |-> 20, SET_FLT |-> 21,
    ALLOC_NAT_MEM |-> 22, V4_INIT_NAT |-> 23, TABLE_DMA_CMD |-> 24, NAT_DMA |-> 24, INIT_IPV6CT_TABLE |-> 25,
    V4_DEL_NAT |-> 26, PULL_MSG |-> 27, GET_NAT_OFFSET |-> 28, RM_ADD_DEPENDENCY |-> 29,
    RM_DEL_DEPENDENCY |-> 30, GENERATE_FLT_EQ |-> 31, QUERY_INTF_EXT_PROPS |-> 32, QUERY_EP_MAPPING |-> 33,
    QUERY_RT_TBL_INDEX |-> 34, WRITE_QMAPID |-> 35, MDFY_FLT_RULE |-> 36, NOTIFY_WAN_UPSTREAM_ROUTE_ADD |-> 37,
    NOTIFY_WAN_UPSTREAM_ROUTE_DEL |-> 38, NOTIFY_WAN_EMBMS_CONNECTED |-> 39, ADD_HDR_PROC_CTX |-> 40,
    DEL_HDR_PROC_CTX |-> 41, MDFY_RT_RULE |-> 42, ADD_RT_RULE_AFTER |-> 43, ADD_FLT_RULE_AFTER |-> 44,
    GET_HW_VERSION |-> 45, ADD_RT_RULE_EXT |-> 46, ADD_VLAN_IFACE |-> 47, DEL_VLAN_IFACE |-> 48,
    ADD_L2TP_VLAN_MAPPING |-> 49, DEL_L2TP_VLAN_MAPPING |-> 50, NAT_MODIFY_PDN |-> 51, ALLOC_NAT_TABLE |-> 52,
    ALLOC_IPV6CT_TABLE |-> 53, DEL_NAT_TABLE |-> 54, DEL_IPV6CT_TABLE |-> 55, CLEANUP |-> 56,
    QUERY_WLAN_CLIENT |-> 57, GET_VLAN_MODE |-> 58, ADD_BRIDGE_VLAN_MAPPING |-> 59,
    DEL_BRIDGE_VLAN_MAPPING |-> 60, ODL_QUERY_ADAPL_EP_INFO |-> 61, ODL_GET_AGG_BYTE_LIMIT |-> 62,
    ODL_QUERY_MODEM_CONFIG |-> 63, GSB_CONNECT |-> 64, GSB_DISCONNECT |-> 65, WIGIG_FST_SWITCH |-> 66,
    ADD_RT_RULE_V2 |-> 67, ADD_RT_RULE_EXT_V2 |-> 68, ADD_RT_RULE_AFTER_V2 |-> 69, MDFY_RT_RULE_V2 |-> 70,
    ADD_FLT_RULE_V2 |-> 71, ADD_FLT_RULE_AFTER_V2 |-> 72, MDFY_FLT_RULE_V2 |-> 73, FNR_COUNTER_ALLOC |-> 74,
    FNR_COUNTER_DEALLOC |-> 75, FNR_COUNTER_QUERY |-> 76, SET_FNR_COUNTER_INFO |-> 77,
    GET_NAT_IN_SRAM_INFO |-> 78, APP_CLOCK_VOTE |-> 79, PDN_CONFIG |-> 80, SET_MAC_FLT |-> 81,
    GET_PHERIPHERAL_EP_INFO |-> 82, ADD_UC_ACT_ENTRY |-> 83, DEL_UC_ACT_ENTRY |-> 84, SET_SW_FLT |-> 85,
    SET_PKT_THRESHOLD |-> 87, ADD_EoGRE_MAPPING |-> 88, DEL_EoGRE_MAPPING |-> 89, SET_IPPT_SW_FLT |-> 90,
    ADD_MACSEC_MAPPING |-> 92, DEL_MACSEC_MAPPING |-> 93, QUERY_CACHED_DRIVER_MSG |-> 94,
    SET_EXT_ROUTER_MODE |-> 95, ADD_DEL_DSCP_PCP_MAPPING |-> 96]

ETH_ALEN == 6
IPA_IPFLTR_NUM_IHL_RANGE_16_EQNS == 2
IPA_IPFLTR_NUM_MEQ_32_EQNS == 2
IPA_IPFLTR_NUM_IHL_MEQ_32_EQNS == 2
IPA_IPFLTR_NUM_MEQ_128_EQNS == 2
IPA_RESOURCE_NAME_MAX == 32
IPA_HDR_MAX_SIZE == 64
IPA_MAC_ADDR_SIZE == 6
IPA_WAN_MSG_IPv6_ADDR_GW_LEN == 4
IPA_MAX_NUM_HW_PATH_CLIENTS == 16
IPA_MAX_NUM_MAC_FLT == 32
IPA_MAX_NUM_IPv4_SEGS_FLT == 16
IPA_MAX_NUM_IFACE_FLT == 4
IPA_MAX_PDN_NUM == 16
IPA_MAX_IPPT_NUM_PORT_FLT == 5
IPA_UC_MAX_DSCP_VAL == 64

-----------------------------------------------------------------------------
ipa_rule_attrib ==
    Struct(<<<<"attrib_mask", U32>>, <<"src_port_lo", U16>>, <<"src_port_hi", U16>>, <<"dst_port_lo", U16>>,
      <<"dst_port_hi", U16>>, <<"type", U8>>, <<"code", U8>>, <<"tos_value", U8>>, <<"tos_mask", U8>>,
      <<"spi", U32>>, <<"src_port", U16>>, <<"dst_port", U16>>, <<"meta_data", U32>>, <<"meta_data_mask", U32>>,
      <<"src_mac_addr", Arr(U8, ETH_ALEN)>>, <<"src_mac_addr_mask", Arr(U8, ETH_ALEN)>>,
      <<"dst_mac_addr", Arr(U8, ETH_ALEN)>>, <<"dst_mac_addr_mask", Arr(U8, ETH_ALEN)>>, <<"ether_type", U16>>,
      <<"u", Union(<<<<"v4", Struct(<<<<"tos", U8>>, <<"protocol", U8>>, <<"src_addr", U32>>,
      <<"src_addr_mask", U32>>, <<"dst_addr", U32>>, <<"dst_addr_mask", U32>>>>)>>,
      <<"v6", Struct(<<<<"tc", U8>>, <<"flow_label", U32>>, <<"next_hdr", U8>>, <<"src_addr", Arr(U32, 4)>>,
      <<"src_addr_mask", Arr(U32, 4)>>, <<"dst_addr", Arr(U32, 4)>>, <<"dst_addr_mask", Arr(U32, 4)>>>>)>>>>)>>,
      <<"vlan_id", U16>>, <<"payload_length", U16>>, <<"ext_attrib_mask", U32>>, <<"l2tp_udp_next_hdr", U8>>,
      <<"padding1", U8>>, <<"padding2", U32>>>>)
ipa_ipfltr_eq_16 == Struct(<<<<"offset", U8>>, <<"value", U16>>>>)
ipa_ipfltr_eq_32 == Struct(<<<<"offset", U8>>, <<"value", U32>>>>)
ipa_ipfltr_mask_eq_128 == Struct(<<<<"offset", U8>>, <<"mask", Arr(U8, 16)>>, <<"value", Arr(U8, 16)>>>>)
ipa_ipfltr_mask_eq_32 == Struct(<<<<"offset", U8>>, <<"mask", U32>>, <<"value", U32>>>>)
ipa_ipfltr_range_eq_16 == Struct(<<<<"offset", U8>>, <<"range_low", U16>>, <<"range_high", U16>>>>)
ipa_ipfltri_rule_eq ==
    Struct(<<<<"rule_eq_bitmap", U16>>, <<"tos_eq_present", U8>>, <<"tos_eq", U8>>,
      <<"protocol_eq_present", U8>>, <<"protocol_eq", U8>>, <<"num_ihl_offset_range_16", U8>>,
      <<"ihl_offset_range_16", Arr(ipa_ipfltr_range_eq_16, IPA_IPFLTR_NUM_IHL_RANGE_16_EQNS)>>,
      <<"num_offset_meq_32", U8>>, <<"offset_meq_32", Arr(ipa_ipfltr_mask_eq_32, IPA_IPFLTR_NUM_MEQ_32_EQNS)>>,
      <<"tc_eq_present", U8>>, <<"tc_eq", U8>>, <<"fl_eq_present", U8>>, <<"fl_eq", U32>>,
      <<"ihl_offset_eq_16_present", U8>>, <<"ihl_offset_eq_16", ipa_ipfltr_eq_16>>,
      <<"ihl_offset_eq_32_present", U8>>, <<"ihl_offset_eq_32", ipa_ipfltr_eq_32>>,
      <<"num_ihl_offset_meq_32", U8>>,
      <<"ihl_offset_meq_32", Arr(ipa_ipfltr_mask_eq_32, IPA_IPFLTR_NUM_IHL_MEQ_32_EQNS)>>,
      <<"num_offset_meq_128", U8>>,
      <<"offset_meq_128", Arr(ipa_ipfltr_mask_eq_128, IPA_IPFLTR_NUM_MEQ_128_EQNS)>>,
      <<"metadata_meq32_present", U8>>, <<"metadata_meq32", ipa_ipfltr_mask_eq_32>>,
      <<"ipv4_frag_eq_present", U8>>>>)
ipa_flt_rule ==
    Struct(<<<<"retain_hdr", U8>>, <<"to_uc", U8>>, <<"action", Enum>>, <<"rt_tbl_hdl", U32>>,
      <<"attrib", ipa_rule_attrib>>, <<"eq_attrib", ipa_ipfltri_rule_eq>>, <<"rt_tbl_idx", U32>>,
      <<"eq_attrib_type", U8>>, <<"max_prio", U8>>, <<"hashable", U8>>, <<"rule_id", U16>>,
      <<"set_metadata", U8>>, <<"pdn_idx", U8>>>>)
ipa_flt_rule_v2 ==
    Struct(<<<<"retain_hdr", U8>>, <<"to_uc", U8>>, <<"action", Enum>>, <<"rt_tbl_hdl", U32>>,
      <<"attrib", ipa_rule_attrib>>, <<"eq_attrib", ipa_ipfltri_rule_eq>>, <<"rt_tbl_idx", U32>>,
      <<"eq_attrib_type", U8>>, <<"max_prio", U8>>, <<"hashable", U8>>, <<"rule_id", U16>>,
      <<"set_metadata", U8>>, <<"pdn_idx", U8>>, <<"enable_stats", U8>>, <<"cnt_idx", U8>>,
      <<"close_aggr_irq_mod", U8>>>>)
ipa_rt_rule ==
    Struct(<<<<"dst", Enum>>, <<"hdr_hdl", U32>>, <<"hdr_proc_ctx_hdl", U32>>, <<"attrib", ipa_rule_attrib>>,
      <<"max_prio", U8>>, <<"hashable", U8>>, <<"retain_hdr", U8>>, <<"coalesce", U8>>>>)
ipa_rt_rule_v2 ==
    Struct(<<<<"dst", Enum>>, <<"hdr_hdl", U32>>, <<"hdr_proc_ctx_hdl", U32>>, <<"attrib", ipa_rule_attrib>>,
      <<"max_prio", U8>>, <<"hashable", U8>>, <<"retain_hdr", U8>>, <<"coalesce", U8>>, <<"enable_stats", U8>>,
      <<"cnt_idx", U8>>, <<"close_aggr_irq_mod", U8>>>>)
ipa_hdr_add ==
    Struct(<<<<"name", Arr(U8, IPA_RESOURCE_NAME_MAX)>>, <<"hdr", Arr(U8, IPA_HDR_MAX_SIZE)>>,
      <<"hdr_len", U8>>, <<"type", Enum>>, <<"is_partial", U8>>, <<"hdr_hdl", U32>>, <<"status", U32>>,
      <<"is_eth2_ofst_valid", U8>>, <<"eth2_ofst", U16>>>>)
ipa_ioc_add_hdr == Struct(<<<<"commit", U8>>, <<"num_hdrs", U8>>, <<"hdr", Flex(ipa_hdr_add)>>>>)
ipa_l2tp_header_add_procparams ==
    Struct(<<<<"eth_hdr_retained:1 input_ip_version:1 output_ip_version:1 second_pass:1 reserved:28", U32>>,
      <<"padding", U32>>>>)
ipa_l2tp_header_remove_procparams ==
    Struct(<<<<"hdr_len_remove:8 eth_hdr_retained:1 hdr_ofst_pkt_size_valid:1 hdr_ofst_pkt_size:6 hdr_endianness:1 reserved:15", U32>>>>)
ipa_l2tp_hdr_proc_ctx_params ==
    Struct(<<<<"hdr_add_param", ipa_l2tp_header_add_procparams>>,
      <<"hdr_remove_param", ipa_l2tp_header_remove_procparams>>, <<"is_dst_pipe_valid", U8>>,
      <<"dst_pipe", Enum>>>>)
IpaDscpVlanPcpMap_t ==
    Struct(<<<<"vlan", Arr(U16, 8)>>, <<"dscp", Arr(Arr(U8, 8), 8)>>, <<"num_vlan", U8>>, <<"reserved0", U8>>>>)
ipa_ipgre_info ==
    Struct(<<<<"iptype", Enum>>, <<"ipv4_src", U32>>, <<"ipv4_dst", U32>>, <<"ipv6_src", Arr(U32, 4)>>,
      <<"ipv6_dst", Arr(U32, 4)>>, <<"gre_protocol", U16>>>>)
ipa_ioc_eogre_info == Struct(<<<<"ipgre_info", ipa_ipgre_info>>, <<"map_info", IpaDscpVlanPcpMap_t>>>>)
ipa_eogre_header_add_procparams ==
    Struct(<<<<"eth_hdr_retained:1 input_ip_version:1 output_ip_version:1 second_pass:1 reserved:28", U32>>>>)
ipa_eogre_header_remove_procparams == Struct(<<<<"hdr_len_remove:8 reserved:24", U32>>>>)
ipa_eogre_hdr_proc_ctx_params ==
    Struct(<<<<"hdr_add_param", ipa_eogre_header_add_procparams>>,
      <<"hdr_remove_param", ipa_eogre_header_remove_procparams>>>>)
ipa_eth_II_to_eth_II_ex_procparams ==
    Struct(<<<<"input_ethhdr_negative_offset:8 output_ethhdr_negative_offset:8 output_dscp_pcp_update:1 reserved:15", U32>>>>)
ipa_wwan_to_eth_II_ex_procparams ==
    Struct(<<<<"input_ethhdr_negative_offset:8 output_ethhdr_negative_offset:8 output_dscp_pcp_update:1 input_ethhdr_valid:1 reserved:14", U32>>>>)
ipa_hdr_proc_ctx_add ==
    Struct(<<<<"type", Enum>>, <<"hdr_hdl", U32>>, <<"proc_ctx_hdl", U32>>, <<"status", U32>>,
      <<"l2tp_params", ipa_l2tp_hdr_proc_ctx_params>>, <<"eogre_params", ipa_eogre_hdr_proc_ctx_params>>,
      <<"generic_params", ipa_eth_II_to_eth_II_ex_procparams>>,
      <<"generic_params_v2", ipa_wwan_to_eth_II_ex_procparams>>>>)
ipa_ioc_add_hdr_proc_ctx ==
    Struct(<<<<"commit", U8>>, <<"num_proc_ctxs", U8>>, <<"proc_ctx", Flex(ipa_hdr_proc_ctx_add)>>>>)
ipa_ioc_copy_hdr ==
    Struct(<<<<"name", Arr(U8, IPA_RESOURCE_NAME_MAX)>>, <<"hdr", Arr(U8, IPA_HDR_MAX_SIZE)>>,
      <<"hdr_len", U8>>, <<"type", Enum>>, <<"is_partial", U8>>, <<"is_eth2_ofst_valid", U8>>,
      <<"eth2_ofst", U16>>>>)
ipa_ioc_get_hdr == Struct(<<<<"name", Arr(U8, IPA_RESOURCE_NAME_MAX)>>, <<"hdl", U32>>>>)
ipa_hdr_del == Struct(<<<<"hdl", U32>>, <<"status", U32>>>>)
ipa_ioc_del_hdr == Struct(<<<<"commit", U8>>, <<"num_hdls", U8>>, <<"hdl", Flex(ipa_hdr_del)>>>>)
ipa_hdr_proc_ctx_del == Struct(<<<<"hdl", U32>>, <<"status", U32>>>>)
ipa_ioc_del_hdr_proc_ctx ==
    Struct(<<<<"commit", U8>>, <<"num_hdls", U8>>, <<"hdl", Flex(ipa_hdr_proc_ctx_del)>>>>)
ipa_rt_rule_add ==
    Struct(<<<<"rule", ipa_rt_rule>>, <<"at_rear", U8>>, <<"rt_rule_hdl", U32>>, <<"status", U32>>>>)
ipa_rt_rule_add_v2 ==
    Struct(<<<<"at_rear", U8>>, <<"rt_rule_hdl", U32>>, <<"status", U32>>, <<"rule", ipa_rt_rule_v2>>>>)
ipa_ioc_add_rt_rule ==
    Struct(<<<<"commit", U8>>, <<"ip", Enum>>, <<"rt_tbl_name", Arr(U8, IPA_RESOURCE_NAME_MAX)>>,
      <<"num_rules", U8>>, <<"rules", Flex(ipa_rt_rule_add)>>>>)
\* mutant: the rules passed by a pointer of the caller's size
RulesByPointer ==
    Struct(<<<<"commit", U8>>, <<"ip", Enum>>, <<"rt_tbl_name", Arr(U8, IPA_RESOURCE_NAME_MAX)>>,
      <<"num_rules", U8>>, <<"rule_add_size", U32>>, <<"reserved1", U32>>, <<"reserved2", U8>>,
      <<"rules", Ptr>>>>)
ipa_ioc_add_rt_rule_v2 ==
    Struct(<<<<"commit", U8>>, <<"ip", Enum>>, <<"rt_tbl_name", Arr(U8, IPA_RESOURCE_NAME_MAX)>>,
      <<"num_rules", U8>>, <<"rule_add_size", U32>>, <<"reserved1", U32>>, <<"reserved2", U8>>,
      <<"rules", U64>>>>)
ipa_ioc_add_rt_rule_after ==
    Struct(<<<<"commit", U8>>, <<"ip", Enum>>, <<"rt_tbl_name", Arr(U8, IPA_RESOURCE_NAME_MAX)>>,
      <<"num_rules", U8>>, <<"add_after_hdl", U32>>, <<"rules", Flex(ipa_rt_rule_add)>>>>)
ipa_ioc_add_rt_rule_after_v2 ==
    Struct(<<<<"commit", U8>>, <<"ip", Enum>>, <<"rt_tbl_name", Arr(U8, IPA_RESOURCE_NAME_MAX)>>,
      <<"num_rules", U8>>, <<"add_after_hdl", U32>>, <<"rule_add_size", U32>>, <<"reserved", U8>>,
      <<"rules", U64>>>>)
ipa_rt_rule_mdfy == Struct(<<<<"rule", ipa_rt_rule>>, <<"rt_rule_hdl", U32>>, <<"status", U32>>>>)
ipa_rt_rule_mdfy_v2 == Struct(<<<<"rt_rule_hdl", U32>>, <<"status", U32>>, <<"rule", ipa_rt_rule_v2>>>>)
ipa_ioc_mdfy_rt_rule ==
    Struct(<<<<"commit", U8>>, <<"ip", Enum>>, <<"num_rules", U8>>, <<"rules", Flex(ipa_rt_rule_mdfy)>>>>)
ipa_ioc_mdfy_rt_rule_v2 ==
    Struct(<<<<"commit", U8>>, <<"ip", Enum>>, <<"num_rules", U8>>, <<"rule_mdfy_size", U32>>,
      <<"reserved", U8>>, <<"rules", U64>>>>)
ipa_rt_rule_del == Struct(<<<<"hdl", U32>>, <<"status", U32>>>>)
ipa_rt_rule_add_ext ==
    Struct(<<<<"rule", ipa_rt_rule>>, <<"at_rear", U8>>, <<"rt_rule_hdl", U32>>, <<"status", U32>>,
      <<"rule_id", U16>>>>)
ipa_rt_rule_add_ext_v2 ==
    Struct(<<<<"at_rear", U8>>, <<"rt_rule_hdl", U32>>, <<"status", U32>>, <<"rule_id", U16>>,
      <<"rule", ipa_rt_rule_v2>>>>)
ipa_ioc_add_rt_rule_ext ==
    Struct(<<<<"commit", U8>>, <<"ip", Enum>>, <<"rt_tbl_name", Arr(U8, IPA_RESOURCE_NAME_MAX)>>,
      <<"num_rules", U8>>, <<"rules", Flex(ipa_rt_rule_add_ext)>>>>)
ipa_ioc_add_rt_rule_ext_v2 ==
    Struct(<<<<"commit", U8>>, <<"ip", Enum>>, <<"rt_tbl_name", Arr(U8, IPA_RESOURCE_NAME_MAX)>>,
      <<"num_rules", U8>>, <<"rule_add_ext_size", U32>>, <<"reserved1", U32>>, <<"reserved2", U8>>,
      <<"rules", U64>>>>)
ipa_ioc_del_rt_rule ==
    Struct(<<<<"commit", U8>>, <<"ip", Enum>>, <<"num_hdls", U8>>, <<"hdl", Flex(ipa_rt_rule_del)>>>>)
ipa_ioc_get_rt_tbl_indx ==
    Struct(<<<<"ip", Enum>>, <<"name", Arr(U8, IPA_RESOURCE_NAME_MAX)>>, <<"idx", U32>>>>)
ipa_flt_rule_add ==
    Struct(<<<<"rule", ipa_flt_rule>>, <<"at_rear", U8>>, <<"flt_rule_hdl", U32>>, <<"status", U32>>>>)
ipa_flt_rule_add_v2 ==
    Struct(<<<<"at_rear", U8>>, <<"flt_rule_hdl", U32>>, <<"status", U32>>, <<"rule", ipa_flt_rule_v2>>>>)
ipa_ioc_add_flt_rule ==
    Struct(<<<<"commit", U8>>, <<"ip", Enum>>, <<"ep", Enum>>, <<"global", U8>>, <<"num_rules", U8>>,
      <<"rules", Flex(ipa_flt_rule_add)>>>>)
ipa_ioc_add_flt_rule_v2 ==
    Struct(<<<<"commit", U8>>, <<"ip", Enum>>, <<"ep", Enum>>, <<"global", U8>>, <<"num_rules", U8>>,
      <<"flt_rule_size", U32>>, <<"reserved1", U32>>, <<"reserved2", U16>>, <<"reserved3", U8>>,
      <<"rules", U64>>>>)
ipa_ioc_add_flt_rule_after ==
    Struct(<<<<"commit", U8>>, <<"ip", Enum>>, <<"ep", Enum>>, <<"num_rules", U8>>, <<"add_after_hdl", U32>>,
      <<"rules", Flex(ipa_flt_rule_add)>>>>)
ipa_ioc_add_flt_rule_after_v2 ==
    Struct(<<<<"commit", U8>>, <<"ip", Enum>>, <<"ep", Enum>>, <<"num_rules", U8>>, <<"add_after_hdl", U32>>,
      <<"flt_rule_size", U32>>, <<"reserved", U32>>, <<"rules", U64>>>>)
ipa_flt_rule_mdfy == Struct(<<<<"rule", ipa_flt_rule>>, <<"rule_hdl", U32>>, <<"status", U32>>>>)
ipa_flt_rule_mdfy_v2 == Struct(<<<<"rule_hdl", U32>>, <<"status", U32>>, <<"rule", ipa_flt_rule_v2>>>>)
ipa_ioc_mdfy_flt_rule ==
    Struct(<<<<"commit", U8>>, <<"ip", Enum>>, <<"num_rules", U8>>, <<"rules", Flex(ipa_flt_rule_mdfy)>>>>)
ipa_ioc_mdfy_flt_rule_v2 ==
    Struct(<<<<"commit", U8>>, <<"ip", Enum>>, <<"num_rules", U8>>, <<"rule_mdfy_size", U32>>,
      <<"reserved", U8>>, <<"rules", U64>>>>)
ipa_flt_rule_del == Struct(<<<<"hdl", U32>>, <<"status", U32>>>>)
ipa_ioc_del_flt_rule ==
    Struct(<<<<"commit", U8>>, <<"ip", Enum>>, <<"num_hdls", U8>>, <<"hdl", Flex(ipa_flt_rule_del)>>>>)
ipa_ioc_get_rt_tbl == Struct(<<<<"ip", Enum>>, <<"name", Arr(U8, IPA_RESOURCE_NAME_MAX)>>, <<"hdl", U32>>>>)
ipa_ioc_query_intf ==
    Struct(<<<<"name", Arr(U8, IPA_RESOURCE_NAME_MAX)>>, <<"num_tx_props", U32>>, <<"num_rx_props", U32>>,
      <<"num_ext_props", U32>>, <<"excp_pipe", Enum>>>>)
ipa_ioc_tx_intf_prop ==
    Struct(<<<<"ip", Enum>>, <<"attrib", ipa_rule_attrib>>, <<"dst_pipe", Enum>>, <<"alt_dst_pipe", Enum>>,
      <<"hdr_name", Arr(U8, IPA_RESOURCE_NAME_MAX)>>, <<"hdr_l2_type", Enum>>>>)
ipa_ioc_query_intf_tx_props ==
    Struct(<<<<"name", Arr(U8, IPA_RESOURCE_NAME_MAX)>>, <<"num_tx_props", U32>>,
      <<"tx", Flex(ipa_ioc_tx_intf_prop)>>>>)
ipa_ioc_ext_intf_prop ==
    Struct(<<<<"ip", Enum>>, <<"eq_attrib", ipa_ipfltri_rule_eq>>, <<"action", Enum>>, <<"rt_tbl_idx", U32>>,
      <<"mux_id", U8>>, <<"filter_hdl", U32>>, <<"is_xlat_rule", U8>>, <<"rule_id", U32>>,
      <<"is_rule_hashable", U8>>, <<"replicate_needed", U8>>>>)
ipa_ioc_query_intf_ext_props ==
    Struct(<<<<"name", Arr(U8, IPA_RESOURCE_NAME_MAX)>>, <<"num_ext_props", U32>>,
      <<"ext", Flex(ipa_ioc_ext_intf_prop)>>>>)
ipa_ioc_rx_intf_prop ==
    Struct(<<<<"ip", Enum>>, <<"attrib", ipa_rule_attrib>>, <<"src_pipe", Enum>>, <<"hdr_l2_type", Enum>>>>)
ipa_ioc_query_intf_rx_props ==
    Struct(<<<<"name", Arr(U8, IPA_RESOURCE_NAME_MAX)>>, <<"num_rx_props", U32>>,
      <<"rx", Flex(ipa_ioc_rx_intf_prop)>>>>)
ipa_ioc_nat_alloc_mem ==
    Struct(<<<<"dev_name", Arr(U8, IPA_RESOURCE_NAME_MAX)>>, <<"size", Long>>, <<"offset", Long>>>>)
ipa_ioc_nat_ipv6ct_table_alloc == Struct(<<<<"size", Long>>, <<"offset", Long>>>>)
ipa_ioc_v4_nat_init ==
    Struct(<<<<"tbl_index", U8>>, <<"ipv4_rules_offset", U32>>, <<"expn_rules_offset", U32>>,
      <<"index_offset", U32>>, <<"index_expn_offset", U32>>, <<"table_entries", U16>>,
      <<"expn_table_entries", U16>>, <<"ip_addr", U32>>, <<"mem_type", U8>>, <<"focus_change", U8>>>>)
ipa_ioc_ipv6ct_init ==
    Struct(<<<<"base_table_offset", U32>>, <<"expn_table_offset", U32>>, <<"table_entries", U16>>,
      <<"expn_table_entries", U16>>, <<"tbl_index", U8>>>>)
ipa_ioc_v4_nat_del == Struct(<<<<"table_index", U8>>, <<"public_ip_addr", U32>>>>)
ipa_ioc_nat_ipv6ct_table_del == Struct(<<<<"table_index", U8>>, <<"mem_type", U8>>>>)
ipa_ioc_nat_dma_one ==
    Struct(<<<<"table_index", U8>>, <<"base_addr", U8>>, <<"offset", U32>>, <<"data", U16>>>>)
ipa_ioc_nat_dma_cmd == Struct(<<<<"entries", U8>>, <<"mem_type", U8>>, <<"dma", Flex(ipa_ioc_nat_dma_one)>>>>)
ipa_ioc_nat_pdn_entry ==
    Struct(<<<<"pdn_index", U8>>, <<"public_ip", U32>>, <<"src_metadata", U32>>, <<"dst_metadata", U32>>>>)
ipa_ioc_vlan_iface_info == Struct(<<<<"name", Arr(U8, IPA_RESOURCE_NAME_MAX)>>, <<"vlan_id", U8>>>>)
ipa_ioc_l2tp_vlan_mapping_info ==
    Struct(<<<<"iptype", Enum>>, <<"l2tp_iface_name", Arr(U8, IPA_RESOURCE_NAME_MAX)>>,
      <<"l2tp_session_id", U8>>, <<"vlan_iface_name", Arr(U8, IPA_RESOURCE_NAME_MAX)>>, <<"tunnel_type", Enum>>,
      <<"src_port", U16>>, <<"dst_port", U16>>, <<"mtu", U16>>, <<"padding", U8>>>>)
ipa_ioc_gsb_info == Struct(<<<<"name", Arr(U8, IPA_RESOURCE_NAME_MAX)>>>>)
ipa_ep_pair_info ==
    Struct(<<<<"consumer_pipe_num", U32>>, <<"producer_pipe_num", U32>>, <<"ep_id", U32>>, <<"padding", U32>>>>)
ipa_ioc_get_ep_info ==
    Struct(<<<<"ep_type", Enum>>, <<"ep_pair_size", U32>>, <<"max_ep_pairs", U8>>, <<"num_ep_pairs", U8>>,
      <<"padding", U16>>, <<"info", U64>>, <<"teth_prot", Enum>>, <<"teth_prot_valid", U8>>>>)
ipa_set_pkt_threshold == Struct(<<<<"pkt_threshold_enable", U8>>, <<"pkt_threshold", U32>>>>)
ipa_ioc_set_pkt_threshold == Struct(<<<<"ioctl_ptr", U64>>, <<"ioctl_data_size", U32>>, <<"padding", U32>>>>)
ipa_ioc_wigig_fst_switch ==
    Struct(<<<<"netdev_name", Arr(U8, IPA_RESOURCE_NAME_MAX)>>,
      <<"client_mac_addr", Arr(U8, IPA_MAC_ADDR_SIZE)>>, <<"to_wigig", U32>>>>)
ipa_msg_meta == Struct(<<<<"msg_type", U8>>, <<"rsvd", U8>>, <<"msg_len", U16>>>>)
ipa_wlan_msg ==
    Struct(<<<<"name", Arr(U8, IPA_RESOURCE_NAME_MAX)>>, <<"mac_addr", Arr(U8, IPA_MAC_ADDR_SIZE)>>,
      <<"ast_update", U8>>>>)
ipa_wlan_hdr_attrib_val ==
    Struct(<<<<"attrib_type", Enum>>, <<"offset", U8>>,
      <<"u", Union(<<<<"mac_addr", Arr(U8, IPA_MAC_ADDR_SIZE)>>, <<"sta_id", U8>>, <<"ta_peer_id", U16>>>>)>>>>)
ipa_wlan_msg_ex ==
    Struct(<<<<"name", Arr(U8, IPA_RESOURCE_NAME_MAX)>>, <<"num_of_attribs", U8>>,
      <<"attribs", Flex(ipa_wlan_hdr_attrib_val)>>>>)
ipa_wigig_msg ==
    Struct(<<<<"name", Arr(U8, IPA_RESOURCE_NAME_MAX)>>, <<"client_mac_addr", Arr(U8, IPA_MAC_ADDR_SIZE)>>,
      <<"u", Union(<<<<"ipa_client", Enum>>, <<"to_wigig", U8>>>>)>>>>)
ipa_ecm_msg == Struct(<<<<"name", Arr(U8, IPA_RESOURCE_NAME_MAX)>>, <<"ifindex", U32>>>>)
ipa_wan_msg ==
    Struct(<<<<"upstream_ifname", Arr(U8, IPA_RESOURCE_NAME_MAX)>>,
      <<"tethered_ifname", Arr(U8, IPA_RESOURCE_NAME_MAX)>>, <<"ip", Enum>>, <<"ipv4_addr_gw", U32>>,
      <<"ipv6_addr_gw", Arr(U32, IPA_WAN_MSG_IPv6_ADDR_GW_LEN)>>>>)
ipa_kernel_tests_socksv5_uc_tmpl ==
    Struct(<<<<"direction", U8>>, <<"padding1", U8>>, <<"handle", U16>>, <<"cmd_id", U16>>, <<"padding2", U16>>,
      <<"cmd_param", U32>>, <<"ip_src_addr", U32>>, <<"ip_dst_addr", U32>>, <<"ipv6_src_addr", Arr(U32, 4)>>,
      <<"ipv6_dst_addr", Arr(U32, 4)>>, <<"src_port", U16>>, <<"dst_port", U16>>, <<"ipa_sockv5_mask", U32>>,
      <<"out_irs", U32>>, <<"out_iss", U32>>, <<"in_irs", U32>>, <<"in_iss", U32>>, <<"out_ircv_tsval", U32>>,
      <<"in_ircv_tsecr", U32>>, <<"out_ircv_tsecr", U32>>, <<"in_ircv_tsval", U32>>,
      <<"in_isnd_wscale:4 out_isnd_wscale:4 in_ircv_wscale:4 out_ircv_wscale:4", U16>>, <<"padding3", U32>>>>)
ipacm_socksv5_info ==
    Struct(<<<<"ip_type", Enum>>, <<"ipv4_src", U32>>, <<"ipv4_dst", U32>>, <<"ipv6_src", Arr(U32, 4)>>,
      <<"ipv6_dst", Arr(U32, 4)>>, <<"src_port", U16>>, <<"dst_port", U16>>, <<"index", U16>>,
      <<"padding", U16>>>>)
ipa_socksv5_msg ==
    Struct(<<<<"ul_in", ipacm_socksv5_info>>, <<"dl_in", ipacm_socksv5_info>>, <<"handle", U16>>,
      <<"padding", U16>>>>)
ipa_ioc_ipv6_nat_uc_act_entry ==
    Struct(<<<<"cmd_id", U16>>, <<"index", U16>>, <<"padding", U32>>, <<"private_port", U32>>,
      <<"public_port", U32>>, <<"private_address_lsb", U64>>, <<"private_address_msb", U64>>,
      <<"public_address_lsb", U64>>, <<"public_address_msb", U64>>>>)
ipa_ioc_uc_activation_entry ==
    Union(<<<<"socks", ipa_kernel_tests_socksv5_uc_tmpl>>, <<"ipv6_nat", ipa_ioc_ipv6_nat_uc_act_entry>>>>)
ipa_ioc_rm_dependency == Struct(<<<<"resource_name", Enum>>, <<"depends_on_name", Enum>>>>)
ipa_ioc_generate_flt_eq ==
    Struct(<<<<"ip", Enum>>, <<"attrib", ipa_rule_attrib>>, <<"eq_attrib", ipa_ipfltri_rule_eq>>>>)
ipa_ioc_write_qmapid == Struct(<<<<"client", Enum>>, <<"qmap_id", U8>>>>)
ipa_flt_rt_counter_alloc ==
    Struct(<<<<"num_counters", U8>>, <<"allow_less", U8>>, <<"start_id", U8>>, <<"end_id", U8>>>>)
ipa_ioc_flt_rt_counter_alloc ==
    Struct(<<<<"hdl", U32>>, <<"hw_counter", ipa_flt_rt_counter_alloc>>,
      <<"sw_counter", ipa_flt_rt_counter_alloc>>>>)
ipa_flt_rt_stats == Struct(<<<<"num_pkts", U32>>, <<"num_pkts_hash", U32>>, <<"num_bytes", U64>>>>)
ipa_ioc_flt_rt_query ==
    Struct(<<<<"start_id", U8>>, <<"end_id", U8>>, <<"reset", U8>>, <<"stats_size", U32>>, <<"reserved", U8>>,
      <<"stats", U64>>>>)
ipa_lan_client_msg ==
    Struct(<<<<"lanIface", Arr(U8, IPA_RESOURCE_NAME_MAX)>>, <<"mac", Arr(U8, IPA_MAC_ADDR_SIZE)>>>>)
ipa_lan_client == Struct(<<<<"mac", Arr(U8, IPA_MAC_ADDR_SIZE)>>, <<"client_idx", U8>>, <<"inited", U8>>>>)
ipa_lan_client_cntr_index == Struct(<<<<"ul_cnt_idx", U8>>, <<"dl_cnt_idx", U8>>>>)
ipa_tether_device_info ==
    Struct(<<<<"ul_src_pipe", U32>>, <<"hdr_len", U8>>, <<"padding1", U8>>, <<"padding2", U16>>,
      <<"num_clients", U32>>, <<"lan_client", Arr(ipa_lan_client, IPA_MAX_NUM_HW_PATH_CLIENTS)>>,
      <<"lan_client_indices", Arr(ipa_lan_client_cntr_index, IPA_MAX_NUM_HW_PATH_CLIENTS)>>>>)
ipa_ioc_get_vlan_mode == Struct(<<<<"iface", Enum>>, <<"is_vlan_mode", U32>>>>)
ipa_ioc_bridge_vlan_mapping_info ==
    Struct(<<<<"bridge_name", Arr(U8, IPA_RESOURCE_NAME_MAX)>>, <<"lan2lan_sw", U8>>, <<"vlan_id", U16>>,
      <<"bridge_ipv4", U32>>, <<"subnet_mask", U32>>>>)
ipa_coalesce_info == Struct(<<<<"qmap_id", U8>>, <<"tcp_enable", U8>>, <<"udp_enable", U8>>>>)
ipa_mtu_info ==
    Struct(<<<<"if_name", Arr(U8, IPA_RESOURCE_NAME_MAX)>>, <<"ip_type", Enum>>, <<"mtu_v4", U16>>,
      <<"mtu_v6", U16>>>>)
ipa_odl_ep_info ==
    Struct(<<<<"cons_pipe_num", U32>>, <<"prod_pipe_num", U32>>, <<"peripheral_iface_id", U32>>,
      <<"ep_type", U32>>>>)
odl_agg_pipe_info == Struct(<<<<"agg_byte_limit", U16>>>>)
ipa_odl_modem_config == Struct(<<<<"config_status", U8>>>>)
ipa_ioc_fnr_index_info == Struct(<<<<"hw_counter_offset", U8>>, <<"sw_counter_offset", U8>>>>)
ipa_ioc_pdn_config ==
    Struct(<<<<"dev_name", Arr(U8, IPA_RESOURCE_NAME_MAX)>>, <<"pdn_cfg_type", Enum>>, <<"enable", U8>>,
      <<"u", Union(<<<<"collison_cfg", Struct(<<<<"pdn_ip_addr", U32>>>>)>>,
      <<"passthrough_cfg", Struct(<<<<"pdn_ip_addr", U32>>, <<"device_type", Enum>>, <<"vlan_id", U16>>,
      <<"client_mac_addr", Arr(U8, IPA_MAC_ADDR_SIZE)>>, <<"skip_nat", U8>>>>)>>>>)>>, <<"default_pdn", U8>>>>)
ipa_ioc_mac_client_list_type ==
    Struct(<<<<"num_of_clients", U32>>, <<"mac_addr", Arr(Arr(U8, IPA_MAC_ADDR_SIZE), IPA_MAX_NUM_MAC_FLT)>>,
      <<"flt_state", U8>>, <<"padding", U8>>>>)
ipa_sw_flt_list_type ==
    Struct(<<<<"mac_enable", U8>>, <<"num_of_mac", U32>>,
      <<"mac_addr", Arr(Arr(U8, IPA_MAC_ADDR_SIZE), IPA_MAX_NUM_MAC_FLT)>>, <<"ipv4_segs_enable", U8>>,
      <<"ipv4_segs_ipv6_offload", U8>>, <<"num_of_ipv4_segs", U32>>,
      <<"ipv4_segs", Arr(Arr(U32, 2), IPA_MAX_NUM_IPv4_SEGS_FLT)>>, <<"iface_enable", U8>>,
      <<"num_of_iface", U32>>, <<"iface", Arr(Arr(U8, IPA_RESOURCE_NAME_MAX), IPA_MAX_NUM_IFACE_FLT)>>>>)
ipa_ippt_sw_flt_list_type ==
    Struct(<<<<"ipv4_enable", U8>>, <<"num_of_ipv4", U32>>, <<"ipv4", Arr(U32, IPA_MAX_PDN_NUM)>>,
      <<"port_enable", U8>>, <<"num_of_port", U32>>, <<"port", Arr(U16, IPA_MAX_IPPT_NUM_PORT_FLT)>>>>)
ipa_ioc_sw_flt_list_type == Struct(<<<<"ioctl_ptr", U64>>, <<"ioctl_data_size", U32>>, <<"padding", U32>>>>)
ipa_macsec_map ==
    Struct(<<<<"phy_name", Arr(U8, IPA_RESOURCE_NAME_MAX)>>,
      <<"macsec_name", Arr(U8, IPA_RESOURCE_NAME_MAX)>>>>)
ipa_ioc_macsec_info == Struct(<<<<"ioctl_ptr", U64>>, <<"ioctl_data_size", U32>>, <<"padding", U32>>>>)
ipa_ioc_ext_router_info ==
    Struct(<<<<"mode", Enum>>, <<"pdn_name", Arr(U8, IPA_RESOURCE_NAME_MAX)>>, <<"ipv6_addr", Arr(U32, 4)>>,
      <<"ipv6_mask", Arr(U32, 4)>>>>)
ipa_ioc_dscp_pcp_map_info == Struct(<<<<"add", U32>>, <<"dscp_pcp_map", Arr(U8, IPA_UC_MAX_DSCP_VAL)>>>>)
teth_aggr_params_link ==
    Struct(<<<<"aggr_prot", Enum>>, <<"max_transfer_size_byte", U32>>, <<"max_datagrams", U32>>>>)
teth_aggr_params == Struct(<<<<"ul", teth_aggr_params_link>>, <<"dl", teth_aggr_params_link>>>>)
teth_aggr_capabilities == Struct(<<<<"num_protocols", U16>>, <<"prot_caps", Flex(teth_aggr_params_link)>>>>)
teth_ioc_set_bridge_mode == Struct(<<<<"link_protocol", Enum>>, <<"lcid", U16>>>>)
teth_ioc_aggr_params == Struct(<<<<"aggr_params", teth_aggr_params>>, <<"lcid", U16>>>>)
ipa_nat_in_sram_info ==
    Struct(<<<<"sram_mem_available_for_nat", U32>>, <<"nat_table_offset_into_mmap", U32>>,
      <<"best_nat_in_sram_size_rqst", U32>>>>)

-----------------------------------------------------------------------------
\* The IPA driver, in the order of the header.
IPA_IOC_RULES == [
    IPA_IOC_ADD_HDR |-> IOWR(IPA_IOC_MAGIC, IPA_IOCTL.ADD_HDR, Ref(ipa_ioc_add_hdr)),
    IPA_IOC_DEL_HDR |-> IOWR(IPA_IOC_MAGIC, IPA_IOCTL.DEL_HDR, Ref(ipa_ioc_del_hdr)),
    IPA_IOC_ADD_RT_RULE |-> IOWR(IPA_IOC_MAGIC, IPA_IOCTL.ADD_RT_RULE, Ref(ipa_ioc_add_rt_rule)),
    IPA_IOC_ADD_RT_RULE_V2 |-> IOWR(IPA_IOC_MAGIC, IPA_IOCTL.ADD_RT_RULE_V2, Ref(ipa_ioc_add_rt_rule_v2)),
    IPA_IOC_ADD_RT_RULE_EXT |-> IOWR(IPA_IOC_MAGIC, IPA_IOCTL.ADD_RT_RULE_EXT, Ref(ipa_ioc_add_rt_rule_ext)),
    IPA_IOC_ADD_RT_RULE_EXT_V2 |-> IOWR(IPA_IOC_MAGIC, IPA_IOCTL.ADD_RT_RULE_EXT_V2, Ref(ipa_ioc_add_rt_rule_ext_v2)),
    IPA_IOC_ADD_RT_RULE_AFTER |-> IOWR(IPA_IOC_MAGIC, IPA_IOCTL.ADD_RT_RULE_AFTER, Ref(ipa_ioc_add_rt_rule_after)),
    IPA_IOC_ADD_RT_RULE_AFTER_V2 |-> IOWR(IPA_IOC_MAGIC, IPA_IOCTL.ADD_RT_RULE_AFTER_V2, Ref(ipa_ioc_add_rt_rule_after_v2)),
    IPA_IOC_DEL_RT_RULE |-> IOWR(IPA_IOC_MAGIC, IPA_IOCTL.DEL_RT_RULE, Ref(ipa_ioc_del_rt_rule)),
    IPA_IOC_ADD_FLT_RULE |-> IOWR(IPA_IOC_MAGIC, IPA_IOCTL.ADD_FLT_RULE, Ref(ipa_ioc_add_flt_rule)),
    IPA_IOC_ADD_FLT_RULE_V2 |-> IOWR(IPA_IOC_MAGIC, IPA_IOCTL.ADD_FLT_RULE_V2, Ref(ipa_ioc_add_flt_rule_v2)),
    IPA_IOC_ADD_FLT_RULE_AFTER |-> IOWR(IPA_IOC_MAGIC, IPA_IOCTL.ADD_FLT_RULE_AFTER, Ref(ipa_ioc_add_flt_rule_after)),
    IPA_IOC_ADD_FLT_RULE_AFTER_V2 |-> IOWR(IPA_IOC_MAGIC, IPA_IOCTL.ADD_FLT_RULE_AFTER_V2, Ref(ipa_ioc_add_flt_rule_after_v2)),
    IPA_IOC_DEL_FLT_RULE |-> IOWR(IPA_IOC_MAGIC, IPA_IOCTL.DEL_FLT_RULE, Ref(ipa_ioc_del_flt_rule)),
    IPA_IOC_COMMIT_HDR |-> IO(IPA_IOC_MAGIC, IPA_IOCTL.COMMIT_HDR),
    IPA_IOC_RESET_HDR |-> IO(IPA_IOC_MAGIC, IPA_IOCTL.RESET_HDR),
    IPA_IOC_COMMIT_RT |-> IOW(IPA_IOC_MAGIC, IPA_IOCTL.COMMIT_RT, Val(Enum)),
    IPA_IOC_RESET_RT |-> IOW(IPA_IOC_MAGIC, IPA_IOCTL.RESET_RT, Val(Enum)),
    IPA_IOC_COMMIT_FLT |-> IOW(IPA_IOC_MAGIC, IPA_IOCTL.COMMIT_FLT, Val(Enum)),
    IPA_IOC_RESET_FLT |-> IOW(IPA_IOC_MAGIC, IPA_IOCTL.RESET_FLT, Val(Enum)),
    IPA_IOC_DUMP |-> IO(IPA_IOC_MAGIC, IPA_IOCTL.DUMP),
    IPA_IOC_GET_RT_TBL |-> IOWR(IPA_IOC_MAGIC, IPA_IOCTL.GET_RT_TBL, Ref(ipa_ioc_get_rt_tbl)),
    IPA_IOC_PUT_RT_TBL |-> IOW(IPA_IOC_MAGIC, IPA_IOCTL.PUT_RT_TBL, Val(U32)),
    IPA_IOC_COPY_HDR |-> IOWR(IPA_IOC_MAGIC, IPA_IOCTL.COPY_HDR, Ref(ipa_ioc_copy_hdr)),
    IPA_IOC_QUERY_INTF |-> IOWR(IPA_IOC_MAGIC, IPA_IOCTL.QUERY_INTF, Ref(ipa_ioc_query_intf)),
    IPA_IOC_QUERY_INTF_TX_PROPS |-> IOWR(IPA_IOC_MAGIC, IPA_IOCTL.QUERY_INTF_TX_PROPS, Ref(ipa_ioc_query_intf_tx_props)),
    IPA_IOC_QUERY_INTF_RX_PROPS |-> IOWR(IPA_IOC_MAGIC, IPA_IOCTL.QUERY_INTF_RX_PROPS, Ref(ipa_ioc_query_intf_rx_props)),
    IPA_IOC_QUERY_INTF_EXT_PROPS |-> IOWR(IPA_IOC_MAGIC, IPA_IOCTL.QUERY_INTF_EXT_PROPS, Ref(ipa_ioc_query_intf_ext_props)),
    IPA_IOC_GET_HDR |-> IOWR(IPA_IOC_MAGIC, IPA_IOCTL.GET_HDR, Ref(ipa_ioc_get_hdr)),
    IPA_IOC_PUT_HDR |-> IOW(IPA_IOC_MAGIC, IPA_IOCTL.PUT_HDR, Val(U32)),
    IPA_IOC_ALLOC_NAT_MEM |-> IOWR(IPA_IOC_MAGIC, IPA_IOCTL.ALLOC_NAT_MEM, Ref(ipa_ioc_nat_alloc_mem)),
    IPA_IOC_ALLOC_NAT_TABLE |-> IOWR(IPA_IOC_MAGIC, IPA_IOCTL.ALLOC_NAT_TABLE, Ref(ipa_ioc_nat_ipv6ct_table_alloc)),
    IPA_IOC_ALLOC_IPV6CT_TABLE |-> IOWR(IPA_IOC_MAGIC, IPA_IOCTL.ALLOC_IPV6CT_TABLE, Ref(ipa_ioc_nat_ipv6ct_table_alloc)),
    IPA_IOC_V4_INIT_NAT |-> IOWR(IPA_IOC_MAGIC, IPA_IOCTL.V4_INIT_NAT, Ref(ipa_ioc_v4_nat_init)),
    IPA_IOC_INIT_IPV6CT_TABLE |-> IOWR(IPA_IOC_MAGIC, IPA_IOCTL.INIT_IPV6CT_TABLE, Ref(ipa_ioc_ipv6ct_init)),
    IPA_IOC_NAT_DMA |-> IOWR(IPA_IOC_MAGIC, IPA_IOCTL.NAT_DMA, Ref(ipa_ioc_nat_dma_cmd)),
    IPA_IOC_TABLE_DMA_CMD |-> IOWR(IPA_IOC_MAGIC, IPA_IOCTL.TABLE_DMA_CMD, Ref(ipa_ioc_nat_dma_cmd)),
    IPA_IOC_V4_DEL_NAT |-> IOWR(IPA_IOC_MAGIC, IPA_IOCTL.V4_DEL_NAT, Ref(ipa_ioc_v4_nat_del))]

IPA_IOC_NAT == [
    IPA_IOC_DEL_NAT_TABLE |-> IOWR(IPA_IOC_MAGIC, IPA_IOCTL.DEL_NAT_TABLE, Ref(ipa_ioc_nat_ipv6ct_table_del)),
    IPA_IOC_DEL_IPV6CT_TABLE |-> IOWR(IPA_IOC_MAGIC, IPA_IOCTL.DEL_IPV6CT_TABLE, Ref(ipa_ioc_nat_ipv6ct_table_del)),
    IPA_IOC_GET_NAT_OFFSET |-> IOWR(IPA_IOC_MAGIC, IPA_IOCTL.GET_NAT_OFFSET, Ref(U32)),
    IPA_IOC_NAT_MODIFY_PDN |-> IOWR(IPA_IOC_MAGIC, IPA_IOCTL.NAT_MODIFY_PDN, Ref(ipa_ioc_nat_pdn_entry)),
    IPA_IOC_SET_FLT |-> IOW(IPA_IOC_MAGIC, IPA_IOCTL.SET_FLT, Val(U32)),
    IPA_IOC_PULL_MSG |-> IOWR(IPA_IOC_MAGIC, IPA_IOCTL.PULL_MSG, Ref(ipa_msg_meta)),
    IPA_IOC_RM_ADD_DEPENDENCY |-> IOWR(IPA_IOC_MAGIC, IPA_IOCTL.RM_ADD_DEPENDENCY, Ref(ipa_ioc_rm_dependency)),
    IPA_IOC_RM_DEL_DEPENDENCY |-> IOWR(IPA_IOC_MAGIC, IPA_IOCTL.RM_DEL_DEPENDENCY, Ref(ipa_ioc_rm_dependency)),
    IPA_IOC_GENERATE_FLT_EQ |-> IOWR(IPA_IOC_MAGIC, IPA_IOCTL.GENERATE_FLT_EQ, Ref(ipa_ioc_generate_flt_eq)),
    IPA_IOC_QUERY_EP_MAPPING |-> IOR(IPA_IOC_MAGIC, IPA_IOCTL.QUERY_EP_MAPPING, Val(U32)),
    IPA_IOC_QUERY_RT_TBL_INDEX |-> IOWR(IPA_IOC_MAGIC, IPA_IOCTL.QUERY_RT_TBL_INDEX, Ref(ipa_ioc_get_rt_tbl_indx)),
    IPA_IOC_WRITE_QMAPID |-> IOWR(IPA_IOC_MAGIC, IPA_IOCTL.WRITE_QMAPID, Ref(ipa_ioc_write_qmapid)),
    IPA_IOC_MDFY_FLT_RULE |-> IOWR(IPA_IOC_MAGIC, IPA_IOCTL.MDFY_FLT_RULE, Ref(ipa_ioc_mdfy_flt_rule)),
    IPA_IOC_MDFY_FLT_RULE_V2 |-> IOWR(IPA_IOC_MAGIC, IPA_IOCTL.MDFY_FLT_RULE_V2, Ref(ipa_ioc_mdfy_flt_rule_v2)),
    IPA_IOC_MDFY_RT_RULE |-> IOWR(IPA_IOC_MAGIC, IPA_IOCTL.MDFY_RT_RULE, Ref(ipa_ioc_mdfy_rt_rule)),
    IPA_IOC_MDFY_RT_RULE_V2 |-> IOWR(IPA_IOC_MAGIC, IPA_IOCTL.MDFY_RT_RULE_V2, Ref(ipa_ioc_mdfy_rt_rule_v2)),
    IPA_IOC_NOTIFY_WAN_UPSTREAM_ROUTE_ADD |-> IOWR(IPA_IOC_MAGIC, IPA_IOCTL.NOTIFY_WAN_UPSTREAM_ROUTE_ADD, Ref(ipa_wan_msg)),
    IPA_IOC_NOTIFY_WAN_UPSTREAM_ROUTE_DEL |-> IOWR(IPA_IOC_MAGIC, IPA_IOCTL.NOTIFY_WAN_UPSTREAM_ROUTE_DEL, Ref(ipa_wan_msg)),
    IPA_IOC_NOTIFY_WAN_EMBMS_CONNECTED |-> IOWR(IPA_IOC_MAGIC, IPA_IOCTL.NOTIFY_WAN_EMBMS_CONNECTED, Ref(ipa_wan_msg)),
    IPA_IOC_ADD_HDR_PROC_CTX |-> IOWR(IPA_IOC_MAGIC, IPA_IOCTL.ADD_HDR_PROC_CTX, Ref(ipa_ioc_add_hdr_proc_ctx)),
    IPA_IOC_DEL_HDR_PROC_CTX |-> IOWR(IPA_IOC_MAGIC, IPA_IOCTL.DEL_HDR_PROC_CTX, Ref(ipa_ioc_del_hdr_proc_ctx)),
    IPA_IOC_GET_HW_VERSION |-> IOWR(IPA_IOC_MAGIC, IPA_IOCTL.GET_HW_VERSION, Ref(Enum)),
    IPA_IOC_ADD_VLAN_IFACE |-> IOWR(IPA_IOC_MAGIC, IPA_IOCTL.ADD_VLAN_IFACE, Ref(ipa_ioc_vlan_iface_info)),
    IPA_IOC_DEL_VLAN_IFACE |-> IOWR(IPA_IOC_MAGIC, IPA_IOCTL.DEL_VLAN_IFACE, Ref(ipa_ioc_vlan_iface_info)),
    IPA_IOC_ADD_L2TP_VLAN_MAPPING |-> IOWR(IPA_IOC_MAGIC, IPA_IOCTL.ADD_L2TP_VLAN_MAPPING, Ref(ipa_ioc_l2tp_vlan_mapping_info)),
    IPA_IOC_DEL_L2TP_VLAN_MAPPING |-> IOWR(IPA_IOC_MAGIC, IPA_IOCTL.DEL_L2TP_VLAN_MAPPING, Ref(ipa_ioc_l2tp_vlan_mapping_info)),
    IPA_IOC_GET_VLAN_MODE |-> IOWR(IPA_IOC_MAGIC, IPA_IOCTL.GET_VLAN_MODE, Ref(ipa_ioc_get_vlan_mode)),
    IPA_IOC_ADD_BRIDGE_VLAN_MAPPING |-> IOWR(IPA_IOC_MAGIC, IPA_IOCTL.ADD_BRIDGE_VLAN_MAPPING, Val(ipa_ioc_bridge_vlan_mapping_info)),
    IPA_IOC_DEL_BRIDGE_VLAN_MAPPING |-> IOWR(IPA_IOC_MAGIC, IPA_IOCTL.DEL_BRIDGE_VLAN_MAPPING, Val(ipa_ioc_bridge_vlan_mapping_info)),
    IPA_IOC_CLEANUP |-> IO(IPA_IOC_MAGIC, IPA_IOCTL.CLEANUP),
    IPA_IOC_QUERY_WLAN_CLIENT |-> IO(IPA_IOC_MAGIC, IPA_IOCTL.QUERY_WLAN_CLIENT),
    IPA_IOC_ODL_QUERY_ADAPL_EP_INFO |-> IOWR(IPA_IOC_MAGIC, IPA_IOCTL.ODL_QUERY_ADAPL_EP_INFO, Val(ipa_odl_ep_info)),
    IPA_IOC_ODL_GET_AGG_BYTE_LIMIT |-> IOWR(IPA_IOC_MAGIC, IPA_IOCTL.ODL_GET_AGG_BYTE_LIMIT, Val(odl_agg_pipe_info)),
    IPA_IOC_ODL_QUERY_MODEM_CONFIG |-> IOWR(IPA_IOC_MAGIC, IPA_IOCTL.ODL_QUERY_MODEM_CONFIG, Val(ipa_odl_modem_config))]

IPA_IOC_LATER == [
    IPA_IOC_GSB_CONNECT |-> IOWR(IPA_IOC_MAGIC, IPA_IOCTL.GSB_CONNECT, Val(ipa_ioc_gsb_info)),
    IPA_IOC_GSB_DISCONNECT |-> IOWR(IPA_IOC_MAGIC, IPA_IOCTL.GSB_DISCONNECT, Val(ipa_ioc_gsb_info)),
    IPA_IOC_WIGIG_FST_SWITCH |-> IOWR(IPA_IOC_MAGIC, IPA_IOCTL.WIGIG_FST_SWITCH, Val(ipa_ioc_wigig_fst_switch)),
    IPA_IOC_FNR_COUNTER_ALLOC |-> IOWR(IPA_IOC_MAGIC, IPA_IOCTL.FNR_COUNTER_ALLOC, Val(ipa_ioc_flt_rt_counter_alloc)),
    IPA_IOC_FNR_COUNTER_DEALLOC |-> IOWR(IPA_IOC_MAGIC, IPA_IOCTL.FNR_COUNTER_DEALLOC, Val(U32)),
    IPA_IOC_FNR_COUNTER_QUERY |-> IOWR(IPA_IOC_MAGIC, IPA_IOCTL.FNR_COUNTER_QUERY, Val(ipa_ioc_flt_rt_query)),
    IPA_IOC_SET_FNR_COUNTER_INFO |-> IOWR(IPA_IOC_MAGIC, IPA_IOCTL.SET_FNR_COUNTER_INFO, Val(ipa_ioc_fnr_index_info)),
    IPA_IOC_GET_NAT_IN_SRAM_INFO |-> IOWR(IPA_IOC_MAGIC, IPA_IOCTL.GET_NAT_IN_SRAM_INFO, Val(ipa_nat_in_sram_info)),
    IPA_IOC_APP_CLOCK_VOTE |-> IOWR(IPA_IOC_MAGIC, IPA_IOCTL.APP_CLOCK_VOTE, Val(U32)),
    IPA_IOC_PDN_CONFIG |-> IOWR(IPA_IOC_MAGIC, IPA_IOCTL.PDN_CONFIG, Val(ipa_ioc_pdn_config)),
    IPA_IOC_SET_MAC_FLT |-> IOWR(IPA_IOC_MAGIC, IPA_IOCTL.SET_MAC_FLT, Val(ipa_ioc_mac_client_list_type)),
    IPA_IOC_GET_PHERIPHERAL_EP_INFO |-> IOWR(IPA_IOC_MAGIC, IPA_IOCTL.GET_PHERIPHERAL_EP_INFO, Val(ipa_ioc_get_ep_info)),
    IPA_IOC_ADD_UC_ACT_ENTRY |-> IOWR(IPA_IOC_MAGIC, IPA_IOCTL.ADD_UC_ACT_ENTRY, Val(ipa_ioc_uc_activation_entry)),
    IPA_IOC_DEL_UC_ACT_ENTRY |-> IOWR(IPA_IOC_MAGIC, IPA_IOCTL.DEL_UC_ACT_ENTRY, Val(U16)),
    IPA_IOC_QUERY_CACHED_DRIVER_MSG |-> IO(IPA_IOC_MAGIC, IPA_IOCTL.QUERY_CACHED_DRIVER_MSG),
    IPA_IOC_SET_SW_FLT |-> IOWR(IPA_IOC_MAGIC, IPA_IOCTL.SET_SW_FLT, Val(ipa_ioc_sw_flt_list_type)),
    IPA_IOC_SET_PKT_THRESHOLD |-> IOWR(IPA_IOC_MAGIC, IPA_IOCTL.SET_PKT_THRESHOLD, Val(ipa_ioc_set_pkt_threshold)),
    IPA_IOC_ADD_EoGRE_MAPPING |-> IOWR(IPA_IOC_MAGIC, IPA_IOCTL.ADD_EoGRE_MAPPING, Val(ipa_ioc_eogre_info)),
    IPA_IOC_DEL_EoGRE_MAPPING |-> IOWR(IPA_IOC_MAGIC, IPA_IOCTL.DEL_EoGRE_MAPPING, Val(ipa_ioc_eogre_info)),
    IPA_IOC_SET_IPPT_SW_FLT |-> IOWR(IPA_IOC_MAGIC, IPA_IOCTL.SET_IPPT_SW_FLT, Val(ipa_ioc_sw_flt_list_type)),
    IPA_IOC_ADD_MACSEC_MAPPING |-> IOWR(IPA_IOC_MAGIC, IPA_IOCTL.ADD_MACSEC_MAPPING, Val(ipa_ioc_macsec_info)),
    IPA_IOC_DEL_MACSEC_MAPPING |-> IOWR(IPA_IOC_MAGIC, IPA_IOCTL.DEL_MACSEC_MAPPING, Val(ipa_ioc_macsec_info)),
    IPA_IOC_SET_EXT_ROUTER_MODE |-> IOWR(IPA_IOC_MAGIC, IPA_IOCTL.SET_EXT_ROUTER_MODE, Val(ipa_ioc_ext_router_info)),
    IPA_IOC_ADD_DEL_DSCP_PCP_MAPPING |-> IOWR(IPA_IOC_MAGIC, IPA_IOCTL.ADD_DEL_DSCP_PCP_MAPPING, Val(ipa_ioc_dscp_pcp_map_info))]

\* The tethering and the ODU bridge.
TETH_BRIDGE_IOC == [
    TETH_BRIDGE_IOC_SET_BRIDGE_MODE |-> IOW(TETH_BRIDGE_IOC_MAGIC, 0, Ref(teth_ioc_set_bridge_mode)),
    TETH_BRIDGE_IOC_SET_AGGR_PARAMS |-> IOW(TETH_BRIDGE_IOC_MAGIC, 1, Ref(teth_ioc_aggr_params)),
    TETH_BRIDGE_IOC_GET_AGGR_PARAMS |-> IOR(TETH_BRIDGE_IOC_MAGIC, 2, Ref(teth_ioc_aggr_params)),
    TETH_BRIDGE_IOC_GET_AGGR_CAPABILITIES |-> IOWR(TETH_BRIDGE_IOC_MAGIC, 3, Ref(teth_aggr_capabilities))]

ODU_BRIDGE_IOC == [
    ODU_BRIDGE_IOC_SET_MODE |-> IOW(ODU_BRIDGE_IOC_MAGIC, 0, Val(Enum)),
    ODU_BRIDGE_IOC_SET_LLV6_ADDR |-> IOW(ODU_BRIDGE_IOC_MAGIC, 1, Ref(Arr(U8, 16)))]

IpaIoctls == IPA_IOC_RULES @@ IPA_IOC_NAT @@ IPA_IOC_LATER @@ TETH_BRIDGE_IOC @@ ODU_BRIDGE_IOC
=============================================================================
