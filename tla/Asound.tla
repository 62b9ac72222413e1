------------------------------ MODULE Asound ------------------------------
(*************************************************************************)
(* The structures and ioctls of src/include/sound/asound.h, the user     *)
(* interface of the audio devices, with the names of the header.  The    *)
(* ioctl types are the characters of the header as ASCII codes.          *)
(*************************************************************************)
EXTENDS UapiLayout, TLC

\* From time.h: seconds and nanoseconds, a machine word each.
timespec == Struct(<<<<"tv_sec", Long>>, <<"tv_nsec", Long>>>>)

SNDRV_CTL_ELEM_ID_NAME_MAXLEN == 44
-----------------------------------------------------------------------------
snd_aes_iec958 ==
    Struct(<<<<"status", Arr(U8, 24)>>, <<"subcode", Arr(U8, 147)>>, <<"pad", U8>>,
      <<"dig_subframe", Arr(U8, 4)>>>>)
snd_cea_861_aud_if ==
    Struct(<<<<"db1_ct_cc", U8>>, <<"db2_sf_ss", U8>>, <<"db3", U8>>, <<"db4_ca", U8>>,
      <<"db5_dminh_lsv", U8>>>>)
snd_hwdep_info ==
    Struct(<<<<"device", U32>>, <<"card", U32>>, <<"id", Arr(U8, 64)>>, <<"name", Arr(U8, 80)>>,
      <<"iface", U32>>, <<"reserved", Arr(U8, 64)>>>>)
snd_hwdep_dsp_status ==
    Struct(<<<<"version", U32>>, <<"id", Arr(U8, 32)>>, <<"num_dsps", U32>>, <<"dsp_loaded", U32>>,
      <<"chip_ready", U32>>, <<"reserved", Arr(U8, 16)>>>>)
snd_hwdep_dsp_image ==
    Struct(<<<<"index", U32>>, <<"name", Arr(U8, 64)>>, <<"image", Ptr>>, <<"length", Long>>,
      <<"driver_data", Long>>>>)
snd_pcm_sync_id == Union(<<<<"id", Arr(U8, 16)>>, <<"id16", Arr(U16, 8)>>, <<"id32", Arr(U32, 4)>>>>)
snd_pcm_info ==
    Struct(<<<<"device", U32>>, <<"subdevice", U32>>, <<"stream", U32>>, <<"card", U32>>, <<"id", Arr(U8, 64)>>,
      <<"name", Arr(U8, 80)>>, <<"subname", Arr(U8, 32)>>, <<"dev_class", U32>>, <<"dev_subclass", U32>>,
      <<"subdevices_count", U32>>, <<"subdevices_avail", U32>>, <<"sync", snd_pcm_sync_id>>,
      <<"reserved", Arr(U8, 64)>>>>)
snd_interval == Struct(<<<<"min", U32>>, <<"max", U32>>, <<"openmin:1 openmax:1 integer:1 empty:1", U32>>>>)
snd_mask == Struct(<<<<"bits", Arr(U32, 8)>>>>)
snd_pcm_hw_params ==
    Struct(<<<<"flags", U32>>, <<"masks", Arr(snd_mask, 3)>>, <<"mres", Arr(snd_mask, 5)>>,
      <<"intervals", Arr(snd_interval, 12)>>, <<"ires", Arr(snd_interval, 9)>>, <<"rmask", U32>>,
      <<"cmask", U32>>, <<"info", U32>>, <<"msbits", U32>>, <<"rate_num", U32>>, <<"rate_den", U32>>,
      <<"fifo_size", Long>>, <<"reserved", Arr(U8, 64)>>>>)
snd_pcm_sw_params ==
    Struct(<<<<"tstamp_mode", U32>>, <<"period_step", U32>>, <<"sleep_min", U32>>, <<"avail_min", Long>>,
      <<"xfer_align", Long>>, <<"start_threshold", Long>>, <<"stop_threshold", Long>>,
      <<"silence_threshold", Long>>, <<"silence_size", Long>>, <<"boundary", Long>>, <<"proto", U32>>,
      <<"tstamp_type", U32>>, <<"reserved", Arr(U8, 56)>>>>)
snd_pcm_channel_info == Struct(<<<<"channel", U32>>, <<"offset", Long>>, <<"first", U32>>, <<"step", U32>>>>)
snd_pcm_status ==
    Struct(<<<<"state", U32>>, <<"pad1", PadBytes(4, 0)>>,
      <<"trigger_tstamp", timespec>>,
      <<"tstamp", timespec>>, <<"appl_ptr", Long>>,
      <<"hw_ptr", Long>>, <<"delay", Long>>, <<"avail", Long>>, <<"avail_max", Long>>, <<"overrange", Long>>,
      <<"suspended_state", U32>>, <<"audio_tstamp_data", U32>>, <<"audio_tstamp", timespec>>, <<"driver_tstamp", timespec>>,
      <<"audio_tstamp_accuracy", U32>>, <<"reserved", PadBytes(20, 36)>>>>)
__snd_timespec64 == Struct(<<<<"tv_sec", U64>>, <<"tv_nsec", U64>>>>)
snd_pcm_mmap_status ==
    Struct(<<<<"state", U32>>, <<"pad1", U32>>, <<"hw_ptr", Long>>, <<"tstamp", timespec>>, <<"suspended_state", U32>>, <<"audio_tstamp", timespec>>>>)
snd_pcm_mmap_control == Struct(<<<<"appl_ptr", Long>>, <<"avail_min", Long>>>>)
snd_pcm_sync_ptr ==
    Struct(<<<<"flags", U32>>, <<"s", Union(<<<<"status", snd_pcm_mmap_status>>,
      <<"reserved", Arr(U8, 64)>>>>)>>, <<"c", Union(<<<<"control", snd_pcm_mmap_control>>,
      <<"reserved", Arr(U8, 64)>>>>)>>>>)
__snd_pcm_mmap_status64 ==
    Struct(<<<<"state", U32>>, <<"pad1", U32>>, <<"hw_ptr", PaddedTo64(Long)>>, <<"tstamp", __snd_timespec64>>,
      <<"suspended_state", U32>>, <<"pad3", U32>>, <<"audio_tstamp", __snd_timespec64>>>>)
\* The padding behind appl_ptr is __pad_before_uframe, which has no bytes here.
__snd_pcm_mmap_control64 == Struct(<<<<"appl_ptr", Long>>, <<"avail_min", PaddedTo64(Long)>>>>)
__snd_pcm_sync_ptr64 ==
    Struct(<<<<"flags", U32>>, <<"pad1", U32>>, <<"s", Union(<<<<"status", __snd_pcm_mmap_status64>>,
      <<"reserved", Arr(U8, 64)>>>>)>>, <<"c", Union(<<<<"control", __snd_pcm_mmap_control64>>,
      <<"reserved", Arr(U8, 64)>>>>)>>>>)
snd_xferi == Struct(<<<<"result", Long>>, <<"buf", Ptr>>, <<"frames", Long>>>>)
snd_xfern == Struct(<<<<"result", Long>>, <<"bufs", Ptr>>, <<"frames", Long>>>>)
snd_rawmidi_info ==
    Struct(<<<<"device", U32>>, <<"subdevice", U32>>, <<"stream", U32>>, <<"card", U32>>, <<"flags", U32>>,
      <<"id", Arr(U8, 64)>>, <<"name", Arr(U8, 80)>>, <<"subname", Arr(U8, 32)>>, <<"subdevices_count", U32>>,
      <<"subdevices_avail", U32>>, <<"reserved", Arr(U8, 64)>>>>)
snd_rawmidi_params ==
    Struct(<<<<"stream", U32>>, <<"buffer_size", Long>>, <<"avail_min", Long>>, <<"no_active_sensing:1", U8>>,
      <<"reserved", Arr(U8, 16)>>>>)
snd_rawmidi_status ==
    Struct(<<<<"stream", U32>>, <<"pad1", PadBytes(4, 0)>>,
      <<"tstamp", timespec>>, <<"avail", Long>>, <<"xruns", Long>>,
      <<"reserved", Arr(U8, 16)>>>>)
snd_timer_id ==
    Struct(<<<<"dev_class", U32>>, <<"dev_sclass", U32>>, <<"card", U32>>, <<"device", U32>>,
      <<"subdevice", U32>>>>)
snd_timer_ginfo ==
    Struct(<<<<"tid", snd_timer_id>>, <<"flags", U32>>, <<"card", U32>>, <<"id", Arr(U8, 64)>>,
      <<"name", Arr(U8, 80)>>, <<"reserved0", Long>>, <<"resolution", Long>>, <<"resolution_min", Long>>,
      <<"resolution_max", Long>>, <<"clients", U32>>, <<"reserved", Arr(U8, 32)>>>>)
snd_timer_gparams ==
    Struct(<<<<"tid", snd_timer_id>>, <<"period_num", Long>>, <<"period_den", Long>>,
      <<"reserved", Arr(U8, 32)>>>>)
snd_timer_gstatus ==
    Struct(<<<<"tid", snd_timer_id>>, <<"resolution", Long>>, <<"resolution_num", Long>>,
      <<"resolution_den", Long>>, <<"reserved", Arr(U8, 32)>>>>)
snd_timer_select == Struct(<<<<"id", snd_timer_id>>, <<"reserved", Arr(U8, 32)>>>>)
snd_timer_info ==
    Struct(<<<<"flags", U32>>, <<"card", U32>>, <<"id", Arr(U8, 64)>>, <<"name", Arr(U8, 80)>>,
      <<"reserved0", Long>>, <<"resolution", Long>>, <<"reserved", Arr(U8, 64)>>>>)
snd_timer_params ==
    Struct(<<<<"flags", U32>>, <<"ticks", U32>>, <<"queue_size", U32>>, <<"reserved0", U32>>, <<"filter", U32>>,
      <<"reserved", Arr(U8, 60)>>>>)
snd_timer_status ==
    Struct(<<<<"tstamp", timespec>>, <<"resolution", U32>>,
      <<"lost", U32>>, <<"overrun", U32>>, <<"queue", U32>>, <<"reserved", Arr(U8, 64)>>>>)
snd_timer_read == Struct(<<<<"resolution", U32>>, <<"ticks", U32>>>>)
snd_timer_tread ==
    Struct(<<<<"event", U32>>, <<"pad1", PadBytes(4, 0)>>,
      <<"tstamp", timespec>>, <<"val", U32>>,
      <<"pad2", PadBytes(4, 0)>>>>)
snd_ctl_card_info ==
    Struct(<<<<"card", U32>>, <<"pad", U32>>, <<"id", Arr(U8, 16)>>, <<"driver", Arr(U8, 16)>>,
      <<"name", Arr(U8, 32)>>, <<"longname", Arr(U8, 80)>>, <<"reserved_", Arr(U8, 16)>>,
      <<"mixername", Arr(U8, 80)>>, <<"components", Arr(U8, 128)>>>>)
snd_ctl_elem_id ==
    Struct(<<<<"numid", U32>>, <<"iface", U32>>, <<"device", U32>>, <<"subdevice", U32>>,
      <<"name", Arr(U8, SNDRV_CTL_ELEM_ID_NAME_MAXLEN)>>, <<"index", U32>>>>)
snd_ctl_elem_list ==
    Struct(<<<<"offset", U32>>, <<"space", U32>>, <<"used", U32>>, <<"count", U32>>, <<"pids", Ptr>>,
      <<"reserved", Arr(U8, 50)>>>>)
snd_ctl_elem_info ==
    Struct(<<<<"id", snd_ctl_elem_id>>, <<"type", U32>>, <<"access", U32>>, <<"count", U32>>, <<"owner", U32>>,
      <<"value", Union(<<<<"integer", Struct(<<<<"min", Long>>, <<"max", Long>>, <<"step", Long>>>>)>>,
      <<"integer64", Struct(<<<<"min", U64>>, <<"max", U64>>, <<"step", U64>>>>)>>,
      <<"enumerated", Struct(<<<<"items", U32>>, <<"item", U32>>, <<"name", Arr(U8, 64)>>, <<"names_ptr", U64>>,
      <<"names_length", U32>>>>)>>, <<"reserved", Arr(U8, 128)>>>>)>>, <<"reserved", Arr(U8, 64)>>>>)
snd_ctl_elem_value ==
    Struct(<<<<"id", snd_ctl_elem_id>>, <<"indirect:1", U32>>,
      <<"value", Union(<<<<"integer", Union(<<<<"value", Arr(Long, 128)>>, <<"value_ptr", Ptr>>>>)>>,
      <<"integer64", Union(<<<<"value", Arr(U64, 64)>>, <<"value_ptr", Ptr>>>>)>>,
      <<"enumerated", Union(<<<<"item", Arr(U32, 128)>>, <<"item_ptr", Ptr>>>>)>>,
      <<"bytes", Union(<<<<"data", Arr(U8, 512)>>, <<"data_ptr", Ptr>>>>)>>, <<"iec958", snd_aes_iec958>>>>)>>,
      <<"reserved", Arr(U8, 128)>>>>)
snd_ctl_tlv == Struct(<<<<"numid", U32>>, <<"length", U32>>, <<"tlv", Flex(U32)>>>>)
snd_ctl_event ==
    Struct(<<<<"type", U32>>, <<"data", Union(<<<<"elem", Struct(<<<<"mask", U32>>,
      <<"id", snd_ctl_elem_id>>>>)>>, <<"data8", Arr(U8, 60)>>>>)>>>>)

-----------------------------------------------------------------------------
SNDRV_HWDEP_IOCTL == [
    HWDEP_PVERSION |-> IOR(72, 0, Val(U32)), HWDEP_INFO |-> IOR(72, 1, Val(snd_hwdep_info)),
    HWDEP_DSP_STATUS |-> IOR(72, 2, Val(snd_hwdep_dsp_status)),
    HWDEP_DSP_LOAD |-> IOW(72, 3, Val(snd_hwdep_dsp_image))]
SNDRV_PCM_IOCTL == [
    PCM_PVERSION |-> IOR(65, 0, Val(U32)), PCM_INFO |-> IOR(65, 1, Val(snd_pcm_info)),
    PCM_TSTAMP |-> IOW(65, 2, Val(U32)), PCM_TTSTAMP |-> IOW(65, 3, Val(U32)),
    PCM_USER_PVERSION |-> IOW(65, 4, Val(U32)), PCM_HW_REFINE |-> IOWR(65, 16, Val(snd_pcm_hw_params)),
    PCM_HW_PARAMS |-> IOWR(65, 17, Val(snd_pcm_hw_params)), PCM_HW_FREE |-> IO(65, 18),
    PCM_SW_PARAMS |-> IOWR(65, 19, Val(snd_pcm_sw_params)), PCM_STATUS |-> IOR(65, 32, Val(snd_pcm_status)),
    PCM_DELAY |-> IOR(65, 33, Val(Long)), PCM_HWSYNC |-> IO(65, 34),
    __PCM_SYNC_PTR |-> IOWR(65, 35, Val(snd_pcm_sync_ptr)),
    __PCM_SYNC_PTR64 |-> IOWR(65, 35, Val(__snd_pcm_sync_ptr64)),
    PCM_SYNC_PTR |-> IOWR(65, 35, Val(snd_pcm_sync_ptr)), PCM_STATUS_EXT |-> IOWR(65, 36, Val(snd_pcm_status)),
    PCM_CHANNEL_INFO |-> IOR(65, 50, Val(snd_pcm_channel_info)), PCM_PREPARE |-> IO(65, 64),
    PCM_RESET |-> IO(65, 65), PCM_START |-> IO(65, 66), PCM_DROP |-> IO(65, 67), PCM_DRAIN |-> IO(65, 68),
    PCM_PAUSE |-> IOW(65, 69, Val(U32)), PCM_REWIND |-> IOW(65, 70, Val(Long)), PCM_RESUME |-> IO(65, 71),
    PCM_XRUN |-> IO(65, 72), PCM_FORWARD |-> IOW(65, 73, Val(Long)),
    PCM_WRITEI_FRAMES |-> IOW(65, 80, Val(snd_xferi)), PCM_READI_FRAMES |-> IOR(65, 81, Val(snd_xferi)),
    PCM_WRITEN_FRAMES |-> IOW(65, 82, Val(snd_xfern)), PCM_READN_FRAMES |-> IOR(65, 83, Val(snd_xfern)),
    PCM_LINK |-> IOW(65, 96, Val(U32)), PCM_UNLINK |-> IO(65, 97)]
SNDRV_RAWMIDI_IOCTL == [
    RAWMIDI_PVERSION |-> IOR(87, 0, Val(U32)), RAWMIDI_INFO |-> IOR(87, 1, Val(snd_rawmidi_info)),
    RAWMIDI_PARAMS |-> IOWR(87, 16, Val(snd_rawmidi_params)),
    RAWMIDI_STATUS |-> IOWR(87, 32, Val(snd_rawmidi_status)), RAWMIDI_DROP |-> IOW(87, 48, Val(U32)),
    RAWMIDI_DRAIN |-> IOW(87, 49, Val(U32))]
SNDRV_TIMER_IOCTL == [
    TIMER_PVERSION |-> IOR(84, 0, Val(U32)), TIMER_NEXT_DEVICE |-> IOWR(84, 1, Val(snd_timer_id)),
    TIMER_TREAD_OLD |-> IOW(84, 2, Val(U32)), TIMER_GINFO |-> IOWR(84, 3, Val(snd_timer_ginfo)),
    TIMER_GPARAMS |-> IOW(84, 4, Val(snd_timer_gparams)), TIMER_GSTATUS |-> IOWR(84, 5, Val(snd_timer_gstatus)),
    TIMER_SELECT |-> IOW(84, 16, Val(snd_timer_select)), TIMER_INFO |-> IOR(84, 17, Val(snd_timer_info)),
    TIMER_PARAMS |-> IOW(84, 18, Val(snd_timer_params)), TIMER_STATUS |-> IOR(84, 20, Val(snd_timer_status)),
    TIMER_START |-> IO(84, 160), TIMER_STOP |-> IO(84, 161), TIMER_CONTINUE |-> IO(84, 162),
    TIMER_PAUSE |-> IO(84, 163), TIMER_TREAD64 |-> IOW(84, 164, Val(U32))]
SNDRV_CTL_IOCTL == [
    CTL_PVERSION |-> IOR(85, 0, Val(U32)), CTL_CARD_INFO |-> IOR(85, 1, Val(snd_ctl_card_info)),
    CTL_ELEM_LIST |-> IOWR(85, 16, Val(snd_ctl_elem_list)),
    CTL_ELEM_INFO |-> IOWR(85, 17, Val(snd_ctl_elem_info)),
    CTL_ELEM_READ |-> IOWR(85, 18, Val(snd_ctl_elem_value)),
    CTL_ELEM_WRITE |-> IOWR(85, 19, Val(snd_ctl_elem_value)),
    CTL_ELEM_LOCK |-> IOW(85, 20, Val(snd_ctl_elem_id)), CTL_ELEM_UNLOCK |-> IOW(85, 21, Val(snd_ctl_elem_id)),
    CTL_SUBSCRIBE_EVENTS |-> IOWR(85, 22, Val(U32)), CTL_ELEM_ADD |-> IOWR(85, 23, Val(snd_ctl_elem_info)),
    CTL_ELEM_REPLACE |-> IOWR(85, 24, Val(snd_ctl_elem_info)),
    CTL_ELEM_REMOVE |-> IOWR(85, 25, Val(snd_ctl_elem_id)), CTL_TLV_READ |-> IOWR(85, 26, Val(snd_ctl_tlv)),
    CTL_TLV_WRITE |-> IOWR(85, 27, Val(snd_ctl_tlv)), CTL_TLV_COMMAND |-> IOWR(85, 28, Val(snd_ctl_tlv)),
    CTL_HWDEP_NEXT_DEVICE |-> IOWR(85, 32, Val(U32)), CTL_HWDEP_INFO |-> IOR(85, 33, Val(snd_hwdep_info)),
    CTL_PCM_NEXT_DEVICE |-> IOR(85, 48, Val(U32)), CTL_PCM_INFO |-> IOWR(85, 49, Val(snd_pcm_info)),
    CTL_PCM_PREFER_SUBDEVICE |-> IOW(85, 50, Val(U32)), CTL_RAWMIDI_NEXT_DEVICE |-> IOWR(85, 64, Val(U32)),
    CTL_RAWMIDI_INFO |-> IOWR(85, 65, Val(snd_rawmidi_info)),
    CTL_RAWMIDI_PREFER_SUBDEVICE |-> IOW(85, 66, Val(U32)), CTL_POWER |-> IOWR(85, 208, Val(U32)),
    CTL_POWER_STATE |-> IOR(85, 209, Val(U32))]
SoundIoctls == SNDRV_HWDEP_IOCTL @@ SNDRV_PCM_IOCTL @@ SNDRV_RAWMIDI_IOCTL @@ SNDRV_TIMER_IOCTL @@ SNDRV_CTL_IOCTL
=============================================================================
