------------------------------ MODULE MiDisp ------------------------------
(*************************************************************************)
(* The structures and ioctls of src/include/display/drm/mi_disp.h, the   *)
(* user interface of Xiaomi's display features, with the header's names. *)
(*************************************************************************)
EXTENDS UapiLayout

-----------------------------------------------------------------------------
disp_base == Struct(<<<<"flag", U32>>, <<"disp_id", U32>>>>)
disp_version == Struct(<<<<"base", disp_base>>, <<"version", U32>>>>)
disp_feature_req ==
    Struct(<<<<"base", disp_base>>, <<"feature_id", U32>>, <<"feature_val", U32>>, <<"tx_len", U32>>,
      <<"tx_ptr", U64>>, <<"rx_len", U32>>, <<"rx_ptr", U64>>>>)
disp_doze_brightness_req == Struct(<<<<"base", disp_base>>, <<"doze_brightness", U32>>>>)
disp_local_hbm_req == Struct(<<<<"base", disp_base>>, <<"local_hbm_value", U32>>>>)
disp_brightness_req == Struct(<<<<"base", disp_base>>, <<"brightness", U32>>, <<"brightness_clone", U32>>>>)
disp_panel_info == Struct(<<<<"base", disp_base>>, <<"info_len", U32>>, <<"info", Ptr>>>>)
disp_wp_info == Struct(<<<<"base", disp_base>>, <<"info_len", U32>>, <<"info", Ptr>>>>)
disp_manufacturer_info_req ==
    Struct(<<<<"base", disp_base>>, <<"wp_info", Ptr>>, <<"maxbrightness", Ptr>>, <<"manufacturer_time", Ptr>>,
      <<"wp_info_len", U32>>, <<"max_brightness_len", U32>>, <<"manufacturer_time_len", U32>>>>)
disp_fps_info == Struct(<<<<"base", disp_base>>, <<"fps", U32>>>>)
disp_event_req == Struct(<<<<"base", disp_base>>, <<"type", U32>>>>)
disp_event == Struct(<<<<"disp_id", U32>>, <<"type", U32>>, <<"length", U32>>>>)
disp_event_resp == Struct(<<<<"base", disp_event>>, <<"data", Flex(U8)>>>>)
disp_dsi_cmd_req ==
    Struct(<<<<"base", disp_base>>, <<"tx_state", U8>>, <<"tx_len", U32>>, <<"tx_ptr", U64>>,
      <<"rx_state", U8>>, <<"rx_len", U32>>, <<"rx_ptr", U64>>>>)

-----------------------------------------------------------------------------
MI_DISP_IOCTL == [
    VERSION |-> IOR(68, 0, Val(disp_version)), SET_FEATURE |-> IOWR(68, 1, Val(disp_feature_req)),
    SET_DOZE_BRIGHTNESS |-> IOW(68, 2, Val(disp_doze_brightness_req)),
    GET_DOZE_BRIGHTNESS |-> IOR(68, 3, Val(disp_doze_brightness_req)),
    GET_PANEL_INFO |-> IOWR(68, 4, Val(disp_panel_info)), GET_WP_INFO |-> IOWR(68, 5, Val(disp_wp_info)),
    GET_FPS |-> IOR(68, 6, Val(disp_fps_info)), REGISTER_EVENT |-> IOW(68, 7, Val(disp_event_req)),
    DEREGISTER_EVENT |-> IOW(68, 8, Val(disp_event_req)), WRITE_DSI_CMD |-> IOW(68, 9, Val(disp_dsi_cmd_req)),
    READ_DSI_CMD |-> IOWR(68, 10, Val(disp_dsi_cmd_req)),
    GET_BRIGHTNESS |-> IOR(68, 11, Val(disp_brightness_req)),
    SET_BRIGHTNESS |-> IOW(68, 12, Val(disp_brightness_req)),
    GET_MANUFACTURER_INFO |-> IOWR(68, 13, Val(disp_manufacturer_info_req)),
    SET_LOCAL_HBM |-> IOW(68, 14, Val(disp_local_hbm_req)), GET_FEATURE |-> IOWR(68, 15, Val(disp_feature_req))]
=============================================================================
