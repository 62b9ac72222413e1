------------------------------ MODULE IpaQmiTypes ------------------------------
(*************************************************************************)
(* The QMI messages of the IPA service, src/include/linux/               *)
(* ipa_qmi_service_v01.h: what the application processor and the modem   *)
(* say to each other about the IP accelerator.                           *)
(*                                                                       *)
(* A C type is modelled by the number of bytes one value of it takes on  *)
(* the wire, where nothing is padded; a message by the sequence of its   *)
(* elements, in the order of its structure.  A member x preceded by a    *)
(* member x_valid is an optional element, an array x preceded by x_len a *)
(* variable-sized one (lines 7-30 of the header).                        *)
(*************************************************************************)
EXTENDS Naturals, Sequences

\* Wire sizes of the scalar types; every enumeration is "a 32 bit signed enum".
U8 == 1
U16 == 2
U32 == 4
U64 == 8
Enum32 == 4

Array(type, n) == type * n

\* A nested structure is the sum of its members, which follow one another.
F(member, type) == type

\* The elements of a message: M mandatory, O optional, MA and OA arrays of 0..max.
M(x, type) == [name |-> x, optional |-> FALSE, array |-> FALSE, max |-> 1, elem |-> type]
O(x, type) == [name |-> x, optional |-> TRUE, array |-> FALSE, max |-> 1, elem |-> type]
MA(x, type, n) == [name |-> x, optional |-> FALSE, array |-> TRUE, max |-> n, elem |-> type]
OA(x, type, n) == [name |-> x, optional |-> TRUE, array |-> TRUE, max |-> n, elem |-> type]

-----------------------------------------------------------------------------
\* The array bounds, lines 38-58.
QMI_IPA_REMOTE_MHI_CHANNELS_NUM_MAX_V01 == 6
QMI_IPA_MAX_FILTERS_EX_V01 == 128
QMI_IPA_MAX_FILTERS_EX2_V01 == 256
QMI_IPA_IPFLTR_NUM_IHL_RANGE_16_EQNS_V01 == 2
QMI_IPA_MAX_FILTERS_V01 == 64
QMI_IPA_IPFLTR_NUM_MEQ_128_EQNS_V01 == 2
QMI_IPA_ENDP_DESC_NUM_MAX_V01 == 31
QMI_IPA_MAX_APN_V01 == 8
QMI_IPA_MAX_CLIENT_DST_PIPES_V01 == 8
QMI_IPA_IPFLTR_NUM_IHL_MEQ_32_EQNS_V01 == 2
QMI_IPA_MAX_UL_FIREWALL_RULES_V01 == 64
QMI_IPA_REMOTE_MHI_MEMORY_MAPPING_NUM_MAX_V01 == 6
QMI_IPA_IPFLTR_NUM_MEQ_32_EQNS_V01 == 2
QMI_IPA_MAX_PIPES_V01 == 20
QMI_IPA_MAX_PER_CLIENTS_V01 == 64
QMI_IPA_MAX_RMNET_ETH_INFO_V01 == 19
QMI_IPA_MAX_MAC_ADDR_LEN_V01 == 6
QMI_IPA_MAX_IPV4_ADDR_LEN_V01 == 4

-----------------------------------------------------------------------------
\* The types and the messages, in the order of the header.  The QMI result code
\* is 16 bits wide on the wire, as ipa_qmi_response_type_v01 declares it.

ipa_qmi_result_type_v01 == U16
ipa_qmi_response_type_v01 == F("result", U16) + F("error", U16)
ipa_platform_type_enum_v01 == Enum32
ipa_eth_hw_config_enum_v01 == Enum32
ipa_hdr_tbl_info_type_v01 == F("modem_offset_start", U32) + F("modem_offset_end", U32)
ipa_route_tbl_info_type_v01 == F("route_tbl_start_addr", U32) + F("num_indices", U32)

ipa_filter_stats_info_type_v01 ==
    F("hw_filter_stats_start_addr", U32) + F("hw_filter_stats_size", U32)
    + F("hw_filter_stats_start_index", U8) + F("hw_filter_stats_end_index", U8)

ipa_modem_mem_info_type_v01 == F("block_start_addr", U32) + F("size", U32)
ipa_hdr_proc_ctx_tbl_info_type_v01 == F("modem_offset_start", U32)
                                      + F("modem_offset_end", U32)
ipa_zip_tbl_info_type_v01 == F("modem_offset_start", U32) + F("modem_offset_end", U32)

ipa_init_modem_driver_req_msg_v01 ==
    <<O("platform_type", ipa_platform_type_enum_v01),
      O("hdr_tbl_info", ipa_hdr_tbl_info_type_v01),
      O("v4_route_tbl_info", ipa_route_tbl_info_type_v01),
      O("v6_route_tbl_info", ipa_route_tbl_info_type_v01),
      O("v4_filter_tbl_start_addr", U32), O("v6_filter_tbl_start_addr", U32),
      O("modem_mem_info", ipa_modem_mem_info_type_v01),
      O("ctrl_comm_dest_end_pt", U32), O("is_ssr_bootup", U8),
      O("hdr_proc_ctx_tbl_info", ipa_hdr_proc_ctx_tbl_info_type_v01),
      O("zip_tbl_info", ipa_zip_tbl_info_type_v01),
      O("v4_hash_route_tbl_info", ipa_route_tbl_info_type_v01),
      O("v6_hash_route_tbl_info", ipa_route_tbl_info_type_v01),
      O("v4_hash_filter_tbl_start_addr", U32),
      O("v6_hash_filter_tbl_start_addr", U32), O("hw_stats_quota_base_addr", U32),
      O("hw_stats_quota_size", U32), O("hw_drop_stats_base_addr", U32),
      O("hw_drop_stats_table_size", U32),
      O("hw_filter_stats_info", ipa_filter_stats_info_type_v01),
      O("smem_info", ipa_modem_mem_info_type_v01),
      O("per_stats_smem_info", ipa_modem_mem_info_type_v01)>>

ipa_init_modem_driver_resp_msg_v01 ==
    <<M("resp", ipa_qmi_response_type_v01), O("ctrl_comm_dest_end_pt", U32),
      O("default_end_pt", U32), O("modem_driver_init_pending", U8)>>

ipa_init_modem_driver_cmplt_req_msg_v01 == <<M("status", U8)>>
ipa_init_modem_driver_cmplt_resp_msg_v01 == <<M("resp", ipa_qmi_response_type_v01)>>

ipa_indication_reg_req_msg_v01 ==
    <<O("master_driver_init_complete", U8), O("data_usage_quota_reached", U8),
      O("ipa_mhi_ready_ind", U8), O("endpoint_desc_ind", U8), O("bw_change_ind", U8),
      O("rmnet_eth_mac_info", U8)>>

ipa_indication_reg_resp_msg_v01 == <<M("resp", ipa_qmi_response_type_v01)>>

ipa_master_driver_init_complt_ind_msg_v01 ==
    <<M("master_driver_init_status", ipa_qmi_response_type_v01)>>

ipa_ipfltr_range_eq_16_type_v01 == F("offset", U8) + F("range_low", U16)
                                   + F("range_high", U16)
ipa_ipfltr_mask_eq_32_type_v01 == F("offset", U8) + F("mask", U32) + F("value", U32)
ipa_ipfltr_eq_16_type_v01 == F("offset", U8) + F("value", U16)
ipa_ipfltr_eq_32_type_v01 == F("offset", U8) + F("value", U32)

ipa_ipfltr_mask_eq_128_type_v01 ==
    F("offset", U8) + F("mask", Array(U8, 16)) + F("value", Array(U8, 16))

ipa_filter_rule_type_v01 ==
    F("rule_eq_bitmap", U16) + F("tos_eq_present", U8) + F("tos_eq", U8)
    + F("protocol_eq_present", U8) + F("protocol_eq", U8) + F("num_ihl_offset_range_16", U8)
    + F("ihl_offset_range_16", Array(ipa_ipfltr_range_eq_16_type_v01, QMI_IPA_IPFLTR_NUM_IHL_RANGE_16_EQNS_V01))
    + F("num_offset_meq_32", U8)
    + F("offset_meq_32", Array(ipa_ipfltr_mask_eq_32_type_v01, QMI_IPA_IPFLTR_NUM_MEQ_32_EQNS_V01))
    + F("tc_eq_present", U8) + F("tc_eq", U8) + F("flow_eq_present", U8) + F("flow_eq", U32)
    + F("ihl_offset_eq_16_present", U8) + F("ihl_offset_eq_16", ipa_ipfltr_eq_16_type_v01)
    + F("ihl_offset_eq_32_present", U8) + F("ihl_offset_eq_32", ipa_ipfltr_eq_32_type_v01)
    + F("num_ihl_offset_meq_32", U8)
    + F("ihl_offset_meq_32", Array(ipa_ipfltr_mask_eq_32_type_v01, QMI_IPA_IPFLTR_NUM_IHL_MEQ_32_EQNS_V01))
    + F("num_offset_meq_128", U8)
    + F("offset_meq_128", Array(ipa_ipfltr_mask_eq_128_type_v01, QMI_IPA_IPFLTR_NUM_MEQ_128_EQNS_V01))
    + F("metadata_meq32_present", U8) + F("metadata_meq32", ipa_ipfltr_mask_eq_32_type_v01)
    + F("ipv4_frag_eq_present", U8)

ipa_filter_rule_req2_type_v01 ==
    F("rule_eq_bitmap", U16) + F("pure_ack_eq_present", U8) + F("pure_ack_eq", U8)
    + F("protocol_eq_present", U8) + F("protocol_eq", U8) + F("num_ihl_offset_range_16", U8)
    + F("ihl_offset_range_16", Array(ipa_ipfltr_range_eq_16_type_v01, QMI_IPA_IPFLTR_NUM_IHL_RANGE_16_EQNS_V01))
    + F("num_offset_meq_32", U8)
    + F("offset_meq_32", Array(ipa_ipfltr_mask_eq_32_type_v01, QMI_IPA_IPFLTR_NUM_MEQ_32_EQNS_V01))
    + F("tc_eq_present", U8) + F("tc_eq", U8) + F("flow_eq_present", U8) + F("flow_eq", U32)
    + F("ihl_offset_eq_16_present", U8) + F("ihl_offset_eq_16", ipa_ipfltr_eq_16_type_v01)
    + F("ihl_offset_eq_32_present", U8) + F("ihl_offset_eq_32", ipa_ipfltr_eq_32_type_v01)
    + F("num_ihl_offset_meq_32", U8)
    + F("ihl_offset_meq_32", Array(ipa_ipfltr_mask_eq_32_type_v01, QMI_IPA_IPFLTR_NUM_IHL_MEQ_32_EQNS_V01))
    + F("num_offset_meq_128", U8)
    + F("offset_meq_128", Array(ipa_ipfltr_mask_eq_128_type_v01, QMI_IPA_IPFLTR_NUM_MEQ_128_EQNS_V01))
    + F("metadata_meq32_present", U8) + F("metadata_meq32", ipa_ipfltr_mask_eq_32_type_v01)
    + F("ipv4_frag_eq_present", U8)

ipa_ip_type_enum_v01 == Enum32
ipa_filter_action_enum_v01 == Enum32

ipa_filter_spec_type_v01 ==
    F("filter_spec_identifier", U32) + F("ip_type", ipa_ip_type_enum_v01)
    + F("filter_rule", ipa_filter_rule_type_v01)
    + F("filter_action", ipa_filter_action_enum_v01) + F("is_routing_table_index_valid", U8)
    + F("route_table_index", U32) + F("is_mux_id_valid", U8) + F("mux_id", U32)

\* mutant: the hashable flag left out, as in ipa_filter_spec_type_v01
FilterSpecWithoutHashable ==
    F("ip_type", ipa_ip_type_enum_v01) + F("filter_rule", ipa_filter_rule_type_v01)
    + F("filter_action", ipa_filter_action_enum_v01) + F("is_routing_table_index_valid", U8)
    + F("route_table_index", U32) + F("is_mux_id_valid", U8) + F("mux_id", U32)
    + F("rule_id", U32)

ipa_filter_spec_ex_type_v01 ==
    F("ip_type", ipa_ip_type_enum_v01) + F("filter_rule", ipa_filter_rule_type_v01)
    + F("filter_action", ipa_filter_action_enum_v01) + F("is_routing_table_index_valid", U8)
    + F("route_table_index", U32) + F("is_mux_id_valid", U8) + F("mux_id", U32)
    + F("rule_id", U32) + F("is_rule_hashable", U8)

ipa_filter_spec_ex2_type_v01 ==
    F("ip_type", ipa_ip_type_enum_v01) + F("filter_rule", ipa_filter_rule_req2_type_v01)
    + F("filter_action", ipa_filter_action_enum_v01) + F("is_routing_table_index_valid", U8)
    + F("route_table_index", U32) + F("is_mux_id_valid", U8) + F("mux_id", U32)
    + F("rule_id", U32) + F("is_rule_hashable", U8)

ipa_install_fltr_rule_req_msg_v01 ==
    <<OA("filter_spec_list", ipa_filter_spec_type_v01, QMI_IPA_MAX_FILTERS_V01),
      O("source_pipe_index", U32), O("num_ipv4_filters", U32),
      O("num_ipv6_filters", U32),
      OA("xlat_filter_indices_list", U32, QMI_IPA_MAX_FILTERS_V01),
      OA("filter_spec_ex_list", ipa_filter_spec_ex_type_v01, QMI_IPA_MAX_FILTERS_V01),
      OA("filter_spec_ex2_list", ipa_filter_spec_ex2_type_v01, QMI_IPA_MAX_FILTERS_V01),
      OA("ul_firewall_indices_list", U32, QMI_IPA_MAX_FILTERS_V01)>>

ipa_filter_rule_identifier_to_handle_map_v01 ==
    F("filter_spec_identifier", U32) + F("filter_handle", U32)

ipa_install_fltr_rule_resp_msg_v01 ==
    <<M("resp", ipa_qmi_response_type_v01),
      OA("filter_handle_list", ipa_filter_rule_identifier_to_handle_map_v01, QMI_IPA_MAX_FILTERS_V01),
      OA("rule_id", U32, QMI_IPA_MAX_FILTERS_V01)>>

ipa_filter_handle_to_index_map_v01 == F("filter_handle", U32) + F("filter_index", U32)

ipa_fltr_installed_notif_req_msg_v01 ==
    <<M("source_pipe_index", U32), M("install_status", ipa_qmi_result_type_v01),
      MA("filter_index_list", ipa_filter_handle_to_index_map_v01, QMI_IPA_MAX_FILTERS_V01),
      O("embedded_pipe_index", U32), O("retain_header", U8),
      O("embedded_call_mux_id", U32), O("num_ipv4_filters", U32),
      O("num_ipv6_filters", U32), O("start_ipv4_filter_idx", U32),
      O("start_ipv6_filter_idx", U32), OA("rule_id", U32, QMI_IPA_MAX_FILTERS_V01),
      OA("dst_pipe_id", U32, QMI_IPA_MAX_CLIENT_DST_PIPES_V01),
      OA("rule_id_ex", U32, QMI_IPA_MAX_FILTERS_EX2_V01)>>

ipa_fltr_installed_notif_resp_msg_v01 == <<M("resp", ipa_qmi_response_type_v01)>>

ipa_enable_force_clear_datapath_req_msg_v01 ==
    <<M("source_pipe_bitmask", U32), M("request_id", U32), O("throttle_source", U8),
      O("source_pipe_bitmask_ext", Array(U32, 4))>>

ipa_enable_force_clear_datapath_resp_msg_v01 == <<M("resp", ipa_qmi_response_type_v01)>>
ipa_disable_force_clear_datapath_req_msg_v01 == <<M("request_id", U32)>>
ipa_disable_force_clear_datapath_resp_msg_v01 == <<M("resp", ipa_qmi_response_type_v01)>>
ipa_peripheral_speed_enum_v01 == Enum32
ipa_pipe_mode_enum_v01 == Enum32
ipa_peripheral_type_enum_v01 == Enum32

ipa_config_req_msg_v01 ==
    <<O("peripheral_type", ipa_peripheral_type_enum_v01),
      O("hw_deaggr_supported", U8), O("max_aggr_frame_size", U32),
      O("ipa_ingress_pipe_mode", ipa_pipe_mode_enum_v01),
      O("peripheral_speed_info", ipa_peripheral_speed_enum_v01),
      O("dl_accumulation_time_limit", U32), O("dl_accumulation_pkt_limit", U32),
      O("dl_accumulation_byte_limit", U32), O("ul_accumulation_time_limit", U32),
      O("hw_control_flags", U32), O("ul_msi_event_threshold", U32),
      O("dl_msi_event_threshold", U32), O("ul_fifo_size", U32),
      O("dl_fifo_size", U32), O("dl_buf_size", U32)>>

ipa_config_resp_msg_v01 == <<M("resp", ipa_qmi_response_type_v01)>>
ipa_stats_type_enum_v01 == Enum32

ipa_pipe_stats_info_type_v01 ==
    F("pipe_index", U32) + F("num_ipv4_packets", U64) + F("num_ipv4_bytes", U64)
    + F("num_ipv6_packets", U64) + F("num_ipv6_bytes", U64)

ipa_stats_type_filter_rule_v01 == F("filter_rule_index", U32) + F("num_packets", U64)

ipa_get_data_stats_req_msg_v01 ==
    <<M("ipa_stats_type", ipa_stats_type_enum_v01), O("reset_stats", U8)>>

ipa_get_data_stats_resp_msg_v01 ==
    <<M("resp", ipa_qmi_response_type_v01),
      O("ipa_stats_type", ipa_stats_type_enum_v01),
      OA("ul_src_pipe_stats_list", ipa_pipe_stats_info_type_v01, QMI_IPA_MAX_PIPES_V01),
      OA("dl_dst_pipe_stats_list", ipa_pipe_stats_info_type_v01, QMI_IPA_MAX_PIPES_V01),
      OA("dl_filter_rule_stats_list", ipa_stats_type_filter_rule_v01, QMI_IPA_MAX_FILTERS_V01)>>

ipa_apn_data_stats_info_type_v01 ==
    F("mux_id", U32) + F("num_ul_packets", U64) + F("num_ul_bytes", U64)
    + F("num_dl_packets", U64) + F("num_dl_bytes", U64)

ipa_get_apn_data_stats_req_msg_v01 == <<OA("mux_id_list", U32, QMI_IPA_MAX_APN_V01)>>

ipa_get_apn_data_stats_resp_msg_v01 ==
    <<M("resp", ipa_qmi_response_type_v01),
      OA("apn_data_stats_list", ipa_apn_data_stats_info_type_v01, QMI_IPA_MAX_APN_V01)>>

ipa_data_usage_quota_info_type_v01 == F("mux_id", U32) + F("num_Mbytes", U64)

ipa_set_data_usage_quota_req_msg_v01 ==
    <<OA("apn_quota_list", ipa_data_usage_quota_info_type_v01, QMI_IPA_MAX_APN_V01),
      OA("apn_warning_list", ipa_data_usage_quota_info_type_v01, QMI_IPA_MAX_APN_V01)>>

ipa_set_data_usage_quota_resp_msg_v01 == <<M("resp", ipa_qmi_response_type_v01)>>

ipa_data_usage_quota_reached_ind_msg_v01 ==
    <<M("apn", ipa_data_usage_quota_info_type_v01), O("is_warning_limit", U8)>>

ipa_stop_data_usage_quota_req_msg_v01 == <<O("is_quota_limit", U8), O("is_warning_limit", U8)>>
ipa_stop_data_usage_quota_resp_msg_v01 == <<M("resp", ipa_qmi_response_type_v01)>>

ipa_install_fltr_rule_req_ex_msg_v01 ==
    <<OA("filter_spec_ex_list", ipa_filter_spec_ex_type_v01, QMI_IPA_MAX_FILTERS_EX_V01),
      O("source_pipe_index", U32), O("num_ipv4_filters", U32),
      O("num_ipv6_filters", U32),
      OA("xlat_filter_indices_list", U32, QMI_IPA_MAX_FILTERS_EX_V01),
      OA("filter_spec_ex2_list", ipa_filter_spec_ex2_type_v01, QMI_IPA_MAX_FILTERS_V01),
      OA("ul_firewall_indices_list", U32, QMI_IPA_MAX_FILTERS_V01)>>

ipa_install_fltr_rule_resp_ex_msg_v01 ==
    <<M("resp", ipa_qmi_response_type_v01),
      OA("rule_id", U32, QMI_IPA_MAX_FILTERS_EX_V01)>>

ipa_enable_per_client_stats_req_msg_v01 == <<M("enable_per_client_stats", U8)>>
ipa_enable_per_client_stats_resp_msg_v01 == <<M("resp", ipa_qmi_response_type_v01)>>

ipa_per_client_stats_info_type_v01 ==
    F("client_id", U32) + F("src_pipe_id", U32) + F("num_ul_ipv4_bytes", U64)
    + F("num_ul_ipv6_bytes", U64) + F("num_dl_ipv4_bytes", U64)
    + F("num_dl_ipv6_bytes", U64) + F("num_ul_ipv4_pkts", U32) + F("num_ul_ipv6_pkts", U32)
    + F("num_dl_ipv4_pkts", U32) + F("num_dl_ipv6_pkts", U32)

ipa_get_stats_per_client_req_msg_v01 ==
    <<M("client_id", U32), M("src_pipe_id", U32), O("reset_stats", U8)>>

ipa_get_stats_per_client_resp_msg_v01 ==
    <<M("resp", ipa_qmi_response_type_v01),
      OA("per_client_stats_list", ipa_per_client_stats_info_type_v01, QMI_IPA_MAX_PER_CLIENTS_V01)>>

ipa_ul_firewall_rule_type_v01 ==
    F("ip_type", ipa_ip_type_enum_v01) + F("filter_rule", ipa_filter_rule_type_v01)

ipa_configure_ul_firewall_rules_req_msg_v01 ==
    <<MA("firewall_rules_list", ipa_ul_firewall_rule_type_v01, QMI_IPA_MAX_UL_FIREWALL_RULES_V01),
      M("mux_id", U32), O("disable", U8), O("are_blacklist_filters", U8)>>

ipa_configure_ul_firewall_rules_resp_msg_v01 == <<M("resp", ipa_qmi_response_type_v01)>>
ipa_ul_firewall_status_enum_v01 == Enum32

ipa_ul_firewall_config_result_type_v01 ==
    F("is_success", ipa_ul_firewall_status_enum_v01) + F("mux_id", U32)

ipa_configure_ul_firewall_rules_ind_msg_v01 ==
    <<M("result", ipa_ul_firewall_config_result_type_v01)>>

ipa_mhi_ch_init_info_type_v01 ==
    F("ch_id", U8) + F("er_id", U8) + F("ch_doorbell_addr", U32)
    + F("er_doorbell_addr", U32) + F("direction_type", U32)

ipa_mhi_smmu_info_type_v01 ==
    F("iova_ctl_base_addr", U64) + F("iova_ctl_size", U64) + F("iova_data_base_addr", U64)
    + F("iova_data_size", U64)

ipa_mhi_ready_indication_msg_v01 ==
    <<MA("ch_info_arr", ipa_mhi_ch_init_info_type_v01, QMI_IPA_REMOTE_MHI_CHANNELS_NUM_MAX_V01),
      O("smmu_info", ipa_mhi_smmu_info_type_v01)>>

ipa_mhi_mem_addr_info_type_v01 == F("pa", U64) + F("iova", U64) + F("size", U64)
ipa_mhi_brst_mode_enum_v01 == Enum32

ipa_mhi_tr_info_type_v01 ==
    F("ch_id", U8) + F("poll_cfg", U16) + F("brst_mode_type", ipa_mhi_brst_mode_enum_v01)
    + F("ring_iova", U64) + F("ring_len", U64) + F("rp", U64) + F("wp", U64)

ipa_mhi_er_info_type_v01 ==
    F("er_id", U8) + F("intmod_cycles", U32) + F("intmod_count", U32) + F("msi_addr", U32)
    + F("ring_iova", U64) + F("ring_len", U64) + F("rp", U64) + F("wp", U64)

ipa_mhi_alloc_channel_req_msg_v01 ==
    <<MA("tr_info_arr", ipa_mhi_tr_info_type_v01, QMI_IPA_REMOTE_MHI_CHANNELS_NUM_MAX_V01),
      MA("er_info_arr", ipa_mhi_er_info_type_v01, QMI_IPA_REMOTE_MHI_CHANNELS_NUM_MAX_V01),
      MA("ctrl_addr_map_info", ipa_mhi_mem_addr_info_type_v01, QMI_IPA_REMOTE_MHI_MEMORY_MAPPING_NUM_MAX_V01),
      MA("data_addr_map_info", ipa_mhi_mem_addr_info_type_v01, QMI_IPA_REMOTE_MHI_MEMORY_MAPPING_NUM_MAX_V01)>>

ipa_mhi_ch_alloc_resp_type_v01 == F("ch_id", U8) + F("is_success", U8)

ipa_mhi_alloc_channel_resp_msg_v01 ==
    <<M("resp", ipa_qmi_response_type_v01),
      OA("alloc_resp_arr", ipa_mhi_ch_alloc_resp_type_v01, QMI_IPA_REMOTE_MHI_CHANNELS_NUM_MAX_V01)>>

ipa_clock_rate_enum_v01 == Enum32

ipa_mhi_clk_vote_req_msg_v01 ==
    <<M("mhi_vote", U8), O("tput_value", U32), O("clk_rate", ipa_clock_rate_enum_v01)>>

ipa_mhi_clk_vote_resp_msg_v01 == <<M("resp", ipa_qmi_response_type_v01)>>
ipa_mhi_cleanup_req_msg_v01 == <<O("cleanup", U8)>>
ipa_mhi_cleanup_resp_msg_v01 == <<M("resp", ipa_qmi_response_type_v01)>>
ipa_ep_desc_type_enum_v01 == Enum32
ipa_ic_type_enum_v01 == Enum32
ipa_ep_status_type_v01 == Enum32

ipa_ep_id_type_v01 ==
    F("ic_type", ipa_ic_type_enum_v01) + F("ep_type", ipa_ep_desc_type_enum_v01)
    + F("ep_id", U32) + F("ep_status", ipa_ep_status_type_v01)

ipa_endp_desc_indication_msg_v01 ==
    <<OA("ep_info", ipa_ep_id_type_v01, QMI_IPA_ENDP_DESC_NUM_MAX_V01),
      O("num_eps", U32)>>

ipa_aggr_enum_type_v01 == Enum32

ipa_mhi_prime_aggr_info_type_v01 ==
    F("ic_type", ipa_ic_type_enum_v01) + F("ep_type", ipa_ep_desc_type_enum_v01)
    + F("bytes_count", U32) + F("pkt_count", U32) + F("aggr_type", ipa_aggr_enum_type_v01)

ipa_mhi_prime_aggr_info_req_msg_v01 ==
    <<OA("aggr_info", ipa_mhi_prime_aggr_info_type_v01, QMI_IPA_ENDP_DESC_NUM_MAX_V01),
      O("num_eps", U32)>>

ipa_mhi_prime_aggr_info_resp_msg_v01 == <<M("resp", ipa_qmi_response_type_v01)>>

ipa_add_offload_connection_req_msg_v01 ==
    <<O("num_ipv4_filters", U32), O("num_ipv6_filters", U32),
      OA("xlat_filter_indices_list", U32, QMI_IPA_MAX_FILTERS_V01),
      OA("filter_spec_ex2_list", ipa_filter_spec_ex2_type_v01, QMI_IPA_MAX_FILTERS_V01),
      O("embedded_call_mux_id", U32), O("default_mhi_path", U8)>>

ipa_add_offload_connection_resp_msg_v01 ==
    <<M("resp", ipa_qmi_response_type_v01),
      OA("filter_handle_list", ipa_filter_rule_identifier_to_handle_map_v01, QMI_IPA_MAX_FILTERS_V01)>>

ipa_remove_offload_connection_req_msg_v01 ==
    <<OA("filter_handle_list", ipa_filter_rule_identifier_to_handle_map_v01, QMI_IPA_MAX_FILTERS_V01),
      O("clean_all_rules", U8)>>

ipa_remove_offload_connection_resp_msg_v01 == <<O("resp", ipa_qmi_response_type_v01)>>
ipa_bw_change_ind_msg_v01 == <<O("peak_bw_ul", U32), O("peak_bw_dl", U32)>>
ipa_move_nat_type_enum_v01 == Enum32
ipa_move_nat_req_msg_v01 == <<M("nat_move_direction", ipa_move_nat_type_enum_v01)>>
ipa_move_nat_resp_msg_v01 == <<M("resp", ipa_qmi_response_type_v01)>>
ipa_move_nat_table_complt_ind_msg_v01 == <<M("nat_table_move_status", ipa_qmi_response_type_v01)>>

ipa_eth_backhaul_info_req_msg_v01 ==
    <<M("src_mac_addr", Array(U8, QMI_IPA_MAX_MAC_ADDR_LEN_V01)),
      M("dst_mac_addr", Array(U8, QMI_IPA_MAX_MAC_ADDR_LEN_V01)),
      M("ipv4_addr_eth0", Array(U32, QMI_IPA_MAX_IPV4_ADDR_LEN_V01)),
      M("eth_pipe", U8), M("enable", U8)>>

ipa_eth_backhaul_info_resp_msg_v01 == <<M("resp", ipa_qmi_response_type_v01)>>

ipa_rmnet_eth_info_type_v01 ==
    F("mac_addr", Array(U8, QMI_IPA_MAX_MAC_ADDR_LEN_V01)) + F("mux_id", U32)

ipa_rmnet_eth_info_indication_msg_v01 ==
    <<OA("rmnet_eth_info", ipa_rmnet_eth_info_type_v01, QMI_IPA_MAX_RMNET_ETH_INFO_V01)>>

-----------------------------------------------------------------------------
\* The message identifiers, one name space per kind of message (lines 2920-2980).
Id(high, low) == 16 * high + low

RequestId ==
    [INDICATION_REGISTER_REQ |-> Id(2, 0), INIT_MODEM_DRIVER_REQ |-> Id(2, 1),
     INSTALL_FILTER_RULE_REQ |-> Id(2, 3), FILTER_INSTALLED_NOTIF_REQ |-> Id(2, 4),
     ENABLE_FORCE_CLEAR_DATAPATH_REQ |-> Id(2, 5),
     DISABLE_FORCE_CLEAR_DATAPATH_REQ |-> Id(2, 6), CONFIG_REQ |-> Id(2, 7),
     GET_DATA_STATS_REQ |-> Id(3, 0), GET_APN_DATA_STATS_REQ |-> Id(3, 1),
     SET_DATA_USAGE_QUOTA_REQ |-> Id(3, 2), STOP_DATA_USAGE_QUOTA_REQ |-> Id(3, 4),
     INIT_MODEM_DRIVER_CMPLT_REQ |-> Id(3, 5), INSTALL_FILTER_RULE_EX_REQ |-> Id(3, 7),
     ENABLE_PER_CLIENT_STATS_REQ |-> Id(3, 8), GET_STATS_PER_CLIENT_REQ |-> Id(3, 9),
     INSTALL_UL_FIREWALL_RULES_REQ |-> Id(3, 10), MHI_CLK_VOTE_REQ |-> Id(3, 11),
     MHI_ALLOC_CHANNEL_REQ |-> Id(3, 13), MHI_CLEANUP_REQ |-> Id(3, 14),
     MHI_PRIME_AGGR_INFO_REQ |-> Id(4, 0), ADD_OFFLOAD_CONNECTION_REQ |-> Id(4, 1),
     REMOVE_OFFLOAD_CONNECTION_REQ |-> Id(4, 2), MOVE_NAT_REQ |-> Id(4, 6),
     ETH_BACKHAUL_INFO_REQ |-> Id(4, 7)]

ResponseId ==
    [INDICATION_REGISTER_RESP |-> Id(2, 0), INIT_MODEM_DRIVER_RESP |-> Id(2, 1),
     INSTALL_FILTER_RULE_RESP |-> Id(2, 3), FILTER_INSTALLED_NOTIF_RESP |-> Id(2, 4),
     ENABLE_FORCE_CLEAR_DATAPATH_RESP |-> Id(2, 5),
     DISABLE_FORCE_CLEAR_DATAPATH_RESP |-> Id(2, 6), CONFIG_RESP |-> Id(2, 7),
     GET_DATA_STATS_RESP |-> Id(3, 0), GET_APN_DATA_STATS_RESP |-> Id(3, 1),
     SET_DATA_USAGE_QUOTA_RESP |-> Id(3, 2), STOP_DATA_USAGE_QUOTA_RESP |-> Id(3, 4),
     INIT_MODEM_DRIVER_CMPLT_RESP |-> Id(3, 5), INSTALL_FILTER_RULE_EX_RESP |-> Id(3, 7),
     ENABLE_PER_CLIENT_STATS_RESP |-> Id(3, 8), GET_STATS_PER_CLIENT_RESP |-> Id(3, 9),
     INSTALL_UL_FIREWALL_RULES_RESP |-> Id(3, 10), MHI_CLK_VOTE_RESP |-> Id(3, 11),
     MHI_ALLOC_CHANNEL_RESP |-> Id(3, 13), MHI_CLEANUP_RESP |-> Id(3, 14),
     MHI_PRIME_AGGR_INFO_RESP |-> Id(4, 0), ADD_OFFLOAD_CONNECTION_RESP |-> Id(4, 1),
     REMOVE_OFFLOAD_CONNECTION_RESP |-> Id(4, 2), MOVE_NAT_RESP |-> Id(4, 6),
     ETH_BACKHAUL_INFO_RESP |-> Id(4, 7)]

IndicationId ==
    [MASTER_DRIVER_INIT_COMPLETE_IND |-> Id(2, 2), DATA_USAGE_QUOTA_REACHED_IND |-> Id(3, 3),
     INSTALL_UL_FIREWALL_RULES_IND |-> Id(3, 10), MHI_READY_IND |-> Id(3, 12),
     ENDP_DESC_INDICATION |-> Id(3, 15), BW_CHANGE_INDICATION |-> Id(4, 4),
     MOVE_NAT_COMPLETE_IND |-> Id(4, 6), RMNET_ETH_INFO_INDICATION |-> Id(4, 8)]

\* The declared maximum lengths (lines 2982-3030 and behind each later message).
MAX_MSG_LEN ==
    [INDICATION_REGISTER_REQ |-> 16, INDICATION_REGISTER_RESP |-> 7,
     INIT_MODEM_DRIVER_REQ |-> 197, INIT_MODEM_DRIVER_RESP |-> 25,
     MASTER_DRIVER_INIT_COMPLETE_IND |-> 7, INSTALL_FILTER_RULE_REQ |-> 33705,
     INSTALL_FILTER_RULE_RESP |-> 783, FILTER_INSTALLED_NOTIF_REQ |-> 1899,
     FILTER_INSTALLED_NOTIF_RESP |-> 7, ENABLE_FORCE_CLEAR_DATAPATH_REQ |-> 37,
     ENABLE_FORCE_CLEAR_DATAPATH_RESP |-> 7, DISABLE_FORCE_CLEAR_DATAPATH_REQ |-> 7,
     DISABLE_FORCE_CLEAR_DATAPATH_RESP |-> 7, CONFIG_REQ |-> 102, CONFIG_RESP |-> 7,
     GET_DATA_STATS_REQ |-> 11, GET_DATA_STATS_RESP |-> 2234,
     GET_APN_DATA_STATS_REQ |-> 36, GET_APN_DATA_STATS_RESP |-> 299,
     SET_DATA_USAGE_QUOTA_REQ |-> 200, SET_DATA_USAGE_QUOTA_RESP |-> 7,
     DATA_USAGE_QUOTA_REACHED_IND |-> 19, STOP_DATA_USAGE_QUOTA_REQ |-> 8,
     STOP_DATA_USAGE_QUOTA_RESP |-> 7, INIT_MODEM_DRIVER_CMPLT_REQ |-> 4,
     INIT_MODEM_DRIVER_CMPLT_RESP |-> 7, INSTALL_FILTER_RULE_EX_REQ |-> 34021,
     INSTALL_FILTER_RULE_EX_RESP |-> 523, ENABLE_PER_CLIENT_STATS_REQ |-> 4,
     ENABLE_PER_CLIENT_STATS_RESP |-> 7, GET_STATS_PER_CLIENT_REQ |-> 18,
     GET_STATS_PER_CLIENT_RESP |-> 3595, INSTALL_UL_FIREWALL_RULES_REQ |-> 9875,
     INSTALL_UL_FIREWALL_RULES_RESP |-> 7, INSTALL_UL_FIREWALL_RULES_IND |-> 11,
     MHI_CLK_VOTE_REQ |-> 18, MHI_CLK_VOTE_RESP |-> 7, MHI_READY_IND |-> 123,
     MHI_ALLOC_CHANNEL_REQ |-> 808, MHI_ALLOC_CHANNEL_RESP |-> 23,
     MHI_CLEANUP_REQ |-> 4, MHI_CLEANUP_RESP |-> 7, ENDP_DESC_INDICATION |-> 507,
     MHI_PRIME_AGGR_INFO_REQ |-> 631, MHI_PRIME_AGGR_INFO_RESP |-> 7,
     ADD_OFFLOAD_CONNECTION_REQ |-> 11361, ADD_OFFLOAD_CONNECTION_RESP |-> 523,
     REMOVE_OFFLOAD_CONNECTION_REQ |-> 520, REMOVE_OFFLOAD_CONNECTION_RESP |-> 7,
     BW_CHANGE_INDICATION |-> 14, MOVE_NAT_REQ |-> 8, MOVE_NAT_RESP |-> 7,
     MOVE_NAT_COMPLETE_IND |-> 7, ETH_BACKHAUL_INFO_REQ |-> 45,
     ETH_BACKHAUL_INFO_RESP |-> 7, RMNET_ETH_INFO_INDICATION |-> 194]

\* The structure each message is built in.
Body ==
    [INDICATION_REGISTER_REQ |-> ipa_indication_reg_req_msg_v01,
     INDICATION_REGISTER_RESP |-> ipa_indication_reg_resp_msg_v01,
     INIT_MODEM_DRIVER_REQ |-> ipa_init_modem_driver_req_msg_v01,
     INIT_MODEM_DRIVER_RESP |-> ipa_init_modem_driver_resp_msg_v01,
     MASTER_DRIVER_INIT_COMPLETE_IND |-> ipa_master_driver_init_complt_ind_msg_v01,
     INSTALL_FILTER_RULE_REQ |-> ipa_install_fltr_rule_req_msg_v01,
     INSTALL_FILTER_RULE_RESP |-> ipa_install_fltr_rule_resp_msg_v01,
     FILTER_INSTALLED_NOTIF_REQ |-> ipa_fltr_installed_notif_req_msg_v01,
     FILTER_INSTALLED_NOTIF_RESP |-> ipa_fltr_installed_notif_resp_msg_v01,
     ENABLE_FORCE_CLEAR_DATAPATH_REQ |-> ipa_enable_force_clear_datapath_req_msg_v01,
     ENABLE_FORCE_CLEAR_DATAPATH_RESP |-> ipa_enable_force_clear_datapath_resp_msg_v01,
     DISABLE_FORCE_CLEAR_DATAPATH_REQ |-> ipa_disable_force_clear_datapath_req_msg_v01,
     DISABLE_FORCE_CLEAR_DATAPATH_RESP |-> ipa_disable_force_clear_datapath_resp_msg_v01,
     CONFIG_REQ |-> ipa_config_req_msg_v01, CONFIG_RESP |-> ipa_config_resp_msg_v01,
     GET_DATA_STATS_REQ |-> ipa_get_data_stats_req_msg_v01,
     GET_DATA_STATS_RESP |-> ipa_get_data_stats_resp_msg_v01,
     GET_APN_DATA_STATS_REQ |-> ipa_get_apn_data_stats_req_msg_v01,
     GET_APN_DATA_STATS_RESP |-> ipa_get_apn_data_stats_resp_msg_v01,
     SET_DATA_USAGE_QUOTA_REQ |-> ipa_set_data_usage_quota_req_msg_v01,
     SET_DATA_USAGE_QUOTA_RESP |-> ipa_set_data_usage_quota_resp_msg_v01,
     DATA_USAGE_QUOTA_REACHED_IND |-> ipa_data_usage_quota_reached_ind_msg_v01,
     STOP_DATA_USAGE_QUOTA_REQ |-> ipa_stop_data_usage_quota_req_msg_v01,
     STOP_DATA_USAGE_QUOTA_RESP |-> ipa_stop_data_usage_quota_resp_msg_v01,
     INIT_MODEM_DRIVER_CMPLT_REQ |-> ipa_init_modem_driver_cmplt_req_msg_v01,
     INIT_MODEM_DRIVER_CMPLT_RESP |-> ipa_init_modem_driver_cmplt_resp_msg_v01,
     INSTALL_FILTER_RULE_EX_REQ |-> ipa_install_fltr_rule_req_ex_msg_v01,
     INSTALL_FILTER_RULE_EX_RESP |-> ipa_install_fltr_rule_resp_ex_msg_v01,
     ENABLE_PER_CLIENT_STATS_REQ |-> ipa_enable_per_client_stats_req_msg_v01,
     ENABLE_PER_CLIENT_STATS_RESP |-> ipa_enable_per_client_stats_resp_msg_v01,
     GET_STATS_PER_CLIENT_REQ |-> ipa_get_stats_per_client_req_msg_v01,
     GET_STATS_PER_CLIENT_RESP |-> ipa_get_stats_per_client_resp_msg_v01,
     INSTALL_UL_FIREWALL_RULES_REQ |-> ipa_configure_ul_firewall_rules_req_msg_v01,
     INSTALL_UL_FIREWALL_RULES_RESP |-> ipa_configure_ul_firewall_rules_resp_msg_v01,
     INSTALL_UL_FIREWALL_RULES_IND |-> ipa_configure_ul_firewall_rules_ind_msg_v01,
     MHI_CLK_VOTE_REQ |-> ipa_mhi_clk_vote_req_msg_v01,
     MHI_CLK_VOTE_RESP |-> ipa_mhi_clk_vote_resp_msg_v01,
     MHI_READY_IND |-> ipa_mhi_ready_indication_msg_v01,
     MHI_ALLOC_CHANNEL_REQ |-> ipa_mhi_alloc_channel_req_msg_v01,
     MHI_ALLOC_CHANNEL_RESP |-> ipa_mhi_alloc_channel_resp_msg_v01,
     MHI_CLEANUP_REQ |-> ipa_mhi_cleanup_req_msg_v01,
     MHI_CLEANUP_RESP |-> ipa_mhi_cleanup_resp_msg_v01,
     ENDP_DESC_INDICATION |-> ipa_endp_desc_indication_msg_v01,
     MHI_PRIME_AGGR_INFO_REQ |-> ipa_mhi_prime_aggr_info_req_msg_v01,
     MHI_PRIME_AGGR_INFO_RESP |-> ipa_mhi_prime_aggr_info_resp_msg_v01,
     ADD_OFFLOAD_CONNECTION_REQ |-> ipa_add_offload_connection_req_msg_v01,
     ADD_OFFLOAD_CONNECTION_RESP |-> ipa_add_offload_connection_resp_msg_v01,
     REMOVE_OFFLOAD_CONNECTION_REQ |-> ipa_remove_offload_connection_req_msg_v01,
     REMOVE_OFFLOAD_CONNECTION_RESP |-> ipa_remove_offload_connection_resp_msg_v01,
     BW_CHANGE_INDICATION |-> ipa_bw_change_ind_msg_v01,
     MOVE_NAT_REQ |-> ipa_move_nat_req_msg_v01,
     MOVE_NAT_RESP |-> ipa_move_nat_resp_msg_v01,
     MOVE_NAT_COMPLETE_IND |-> ipa_move_nat_table_complt_ind_msg_v01,
     ETH_BACKHAUL_INFO_REQ |-> ipa_eth_backhaul_info_req_msg_v01,
     ETH_BACKHAUL_INFO_RESP |-> ipa_eth_backhaul_info_resp_msg_v01,
     RMNET_ETH_INFO_INDICATION |-> ipa_rmnet_eth_info_indication_msg_v01]

\* "The largest MAX_MSG_LEN we have for all the messages we expect to receive".
QMI_IPA_MAX_MSG_LEN == 22685
=============================================================================
