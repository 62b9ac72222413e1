------------------------------ MODULE MsmKgsl ------------------------------
(*************************************************************************)
(* The structures and ioctls of src/include/linux/msm_kgsl.h, the user   *)
(* interface of the GPU driver, with the names of the header.            *)
(*************************************************************************)
EXTENDS UapiLayout

KGSL_IOC_TYPE == 9

-----------------------------------------------------------------------------
kgsl_devinfo ==
    Struct(<<<<"device_id", U32>>, <<"chip_id", U32>>, <<"mmu_enabled", U32>>, <<"gmem_gpubaseaddr", Long>>,
      <<"gpu_id", U32>>, <<"gmem_sizebytes", Long>>>>)
kgsl_devmemstore ==
    Struct(<<<<"soptimestamp", U32>>, <<"sbz", U32>>, <<"eoptimestamp", U32>>, <<"sbz2", U32>>,
      <<"preempted", U32>>, <<"sbz3", U32>>, <<"ref_wait_ts", U32>>, <<"sbz4", U32>>,
      <<"current_context", U32>>, <<"sbz5", U32>>>>)
kgsl_capabilities_properties == Struct(<<<<"list", U64>>, <<"count", U32>>>>)
kgsl_capabilities == Struct(<<<<"data", U64>>, <<"size", U64>>, <<"querytype", U32>>>>)
kgsl_shadowprop == Struct(<<<<"gpuaddr", Long>>, <<"size", Long>>, <<"flags", U32>>>>)
kgsl_qdss_stm_prop == Struct(<<<<"gpuaddr", U64>>, <<"size", U64>>>>)
kgsl_qtimer_prop == Struct(<<<<"gpuaddr", U64>>, <<"size", U64>>>>)
kgsl_version ==
    Struct(<<<<"drv_major", U32>>, <<"drv_minor", U32>>, <<"dev_major", U32>>, <<"dev_minor", U32>>>>)
kgsl_sp_generic_mem == Struct(<<<<"local", U64>>, <<"pvt", U64>>>>)
kgsl_ucode_version == Struct(<<<<"pfp", U32>>, <<"pm4", U32>>>>)
kgsl_gpmu_version == Struct(<<<<"major", U32>>, <<"minor", U32>>, <<"features", U32>>>>)
kgsl_context_property == Struct(<<<<"data", U64>>, <<"size", U32>>, <<"type", U32>>, <<"contextid", U32>>>>)
kgsl_context_property_fault == Struct(<<<<"faults", U32>>, <<"timestamp", U32>>>>)
kgsl_gpu_model == Struct(<<<<"gpu_model", Arr(U8, 32)>>>>)
kgsl_ibdesc == Struct(<<<<"gpuaddr", Long>>, <<"__pad", Long>>, <<"sizedwords", Long>>, <<"ctrl", U32>>>>)
kgsl_cmdbatch_profiling_buffer ==
    Struct(<<<<"wall_clock_s", U64>>, <<"wall_clock_ns", U64>>, <<"gpu_ticks_queued", U64>>,
      <<"gpu_ticks_submitted", U64>>, <<"gpu_ticks_retired", U64>>>>)
kgsl_device_getproperty == Struct(<<<<"type", U32>>, <<"value", Ptr>>, <<"sizebytes", Long>>>>)
kgsl_device_waittimestamp == Struct(<<<<"timestamp", U32>>, <<"timeout", U32>>>>)
kgsl_device_waittimestamp_ctxtid == Struct(<<<<"context_id", U32>>, <<"timestamp", U32>>, <<"timeout", U32>>>>)
kgsl_ringbuffer_issueibcmds ==
    Struct(<<<<"drawctxt_id", U32>>, <<"ibdesc_addr", Long>>, <<"numibs", U32>>, <<"timestamp", U32>>,
      <<"flags", U32>>>>)
kgsl_cmdstream_readtimestamp == Struct(<<<<"type", U32>>, <<"timestamp", U32>>>>)
kgsl_cmdstream_freememontimestamp == Struct(<<<<"gpuaddr", Long>>, <<"type", U32>>, <<"timestamp", U32>>>>)
kgsl_drawctxt_create == Struct(<<<<"flags", U32>>, <<"drawctxt_id", U32>>>>)
kgsl_drawctxt_destroy == Struct(<<<<"drawctxt_id", U32>>>>)
kgsl_map_user_mem ==
    Struct(<<<<"fd", U32>>, <<"gpuaddr", Long>>, <<"len", Long>>, <<"offset", Long>>, <<"hostptr", Long>>,
      <<"memtype", Enum>>, <<"flags", U32>>>>)
kgsl_cmdstream_readtimestamp_ctxtid == Struct(<<<<"context_id", U32>>, <<"type", U32>>, <<"timestamp", U32>>>>)
kgsl_cmdstream_freememontimestamp_ctxtid ==
    Struct(<<<<"context_id", U32>>, <<"gpuaddr", Long>>, <<"type", U32>>, <<"timestamp", U32>>>>)
kgsl_sharedmem_from_pmem ==
    Struct(<<<<"pmem_fd", U32>>, <<"gpuaddr", Long>>, <<"len", U32>>, <<"offset", U32>>>>)
kgsl_sharedmem_free == Struct(<<<<"gpuaddr", Long>>>>)
kgsl_cff_user_event ==
    Struct(<<<<"cff_opcode", U8>>, <<"op1", U32>>, <<"op2", U32>>, <<"op3", U32>>, <<"op4", U32>>,
      <<"op5", U32>>, <<"__pad", Arr(U32, 2)>>>>)
kgsl_gmem_desc == Struct(<<<<"x", U32>>, <<"y", U32>>, <<"width", U32>>, <<"height", U32>>, <<"pitch", U32>>>>)
kgsl_buffer_desc ==
    Struct(<<<<"hostptr", Ptr>>, <<"gpuaddr", Long>>, <<"size", U32>>, <<"format", U32>>, <<"pitch", U32>>,
      <<"(offset: 0): enabled", U32>>>>)
kgsl_bind_gmem_shadow ==
    Struct(<<<<"drawctxt_id", U32>>, <<"gmem_desc", kgsl_gmem_desc>>, <<"shadow_x", U32>>, <<"shadow_y", U32>>,
      <<"shadow_buffer", kgsl_buffer_desc>>, <<"buffer_id", U32>>>>)
kgsl_sharedmem_from_vmalloc == Struct(<<<<"gpuaddr", Long>>, <<"hostptr", U32>>, <<"flags", U32>>>>)
kgsl_drawctxt_set_bin_base_offset == Struct(<<<<"drawctxt_id", U32>>, <<"offset", U32>>>>)
kgsl_cmdwindow_write == Struct(<<<<"target", Enum>>, <<"addr", U32>>, <<"data", U32>>>>)
kgsl_gpumem_alloc == Struct(<<<<"gpuaddr", Long>>, <<"size", Long>>, <<"flags", U32>>>>)
kgsl_cff_syncmem == Struct(<<<<"gpuaddr", Long>>, <<"len", Long>>, <<"__pad", Arr(U32, 2)>>>>)
kgsl_timestamp_event ==
    Struct(<<<<"type", U32>>, <<"timestamp", U32>>, <<"context_id", U32>>, <<"priv", Ptr>>, <<"len", Long>>>>)
kgsl_timestamp_event_genlock == Struct(<<<<"handle", U32>>>>)
kgsl_timestamp_event_fence == Struct(<<<<"fence_fd", U32>>>>)
kgsl_gpumem_alloc_id ==
    Struct(<<<<"id", U32>>, <<"flags", U32>>, <<"size", Long>>, <<"mmapsize", Long>>, <<"gpuaddr", Long>>,
      <<"__pad", Arr(Long, 2)>>>>)
kgsl_gpumem_free_id == Struct(<<<<"id", U32>>, <<"__pad", U32>>>>)
kgsl_gpumem_get_info ==
    Struct(<<<<"gpuaddr", Long>>, <<"id", U32>>, <<"flags", U32>>, <<"size", Long>>, <<"mmapsize", Long>>,
      <<"useraddr", Long>>, <<"__pad", Arr(Long, 4)>>>>)
kgsl_gpumem_sync_cache ==
    Struct(<<<<"gpuaddr", Long>>, <<"id", U32>>, <<"op", U32>>, <<"offset", Long>>, <<"length", Long>>>>)
kgsl_perfcounter_get ==
    Struct(<<<<"groupid", U32>>, <<"countable", U32>>, <<"offset", U32>>, <<"offset_hi", U32>>,
      <<"__pad", U32>>>>)
kgsl_perfcounter_put == Struct(<<<<"groupid", U32>>, <<"countable", U32>>, <<"__pad", Arr(U32, 2)>>>>)
kgsl_perfcounter_query ==
    Struct(<<<<"groupid", U32>>, <<"countables", Ptr>>, <<"count", U32>>, <<"max_counters", U32>>,
      <<"__pad", Arr(U32, 2)>>>>)
kgsl_perfcounter_read_group == Struct(<<<<"groupid", U32>>, <<"countable", U32>>, <<"value", U64>>>>)
kgsl_perfcounter_read == Struct(<<<<"reads", Ptr>>, <<"count", U32>>, <<"__pad", Arr(U32, 2)>>>>)
kgsl_gpumem_sync_cache_bulk ==
    Struct(<<<<"id_list", Ptr>>, <<"count", U32>>, <<"op", U32>>, <<"__pad", Arr(U32, 2)>>>>)
kgsl_cmd_syncpoint_timestamp == Struct(<<<<"context_id", U32>>, <<"timestamp", U32>>>>)
kgsl_cmd_syncpoint_fence == Struct(<<<<"fd", U32>>>>)
kgsl_cmd_syncpoint_timeline == Struct(<<<<"timelines", U64>>, <<"count", U32>>, <<"timelines_size", U32>>>>)
kgsl_cmd_syncpoint == Struct(<<<<"type", U32>>, <<"priv", Ptr>>, <<"size", Long>>>>)
kgsl_submit_commands ==
    Struct(<<<<"context_id", U32>>, <<"flags", U32>>, <<"cmdlist", Ptr>>, <<"numcmds", U32>>,
      <<"synclist", Ptr>>, <<"numsyncs", U32>>, <<"timestamp", U32>>, <<"__pad", Arr(U32, 4)>>>>)
kgsl_device_constraint == Struct(<<<<"type", U32>>, <<"context_id", U32>>, <<"data", Ptr>>, <<"size", Long>>>>)
kgsl_device_constraint_pwrlevel == Struct(<<<<"level", U32>>>>)
kgsl_syncsource_create == Struct(<<<<"id", U32>>, <<"__pad", Arr(U32, 3)>>>>)
kgsl_syncsource_destroy == Struct(<<<<"id", U32>>, <<"__pad", Arr(U32, 3)>>>>)
kgsl_syncsource_create_fence == Struct(<<<<"id", U32>>, <<"fence_fd", U32>>, <<"__pad", Arr(U32, 4)>>>>)
kgsl_syncsource_signal_fence == Struct(<<<<"id", U32>>, <<"fence_fd", U32>>, <<"__pad", Arr(U32, 4)>>>>)
kgsl_cff_sync_gpuobj == Struct(<<<<"offset", U64>>, <<"length", U64>>, <<"id", U32>>>>)
kgsl_gpuobj_alloc ==
    Struct(<<<<"size", U64>>, <<"flags", U64>>, <<"va_len", U64>>, <<"mmapsize", U64>>, <<"id", U32>>,
      <<"metadata_len", U32>>, <<"metadata", U64>>>>)
kgsl_gpuobj_free ==
    Struct(<<<<"flags", U64>>, <<"priv", U64>>, <<"id", U32>>, <<"type", U32>>, <<"len", U32>>>>)
kgsl_gpu_event_timestamp == Struct(<<<<"context_id", U32>>, <<"timestamp", U32>>>>)
kgsl_gpu_event_fence == Struct(<<<<"fd", U32>>>>)
kgsl_gpuobj_info ==
    Struct(<<<<"gpuaddr", U64>>, <<"flags", U64>>, <<"size", U64>>, <<"va_len", U64>>, <<"va_addr", U64>>,
      <<"id", U32>>>>)
kgsl_gpuobj_import ==
    Struct(<<<<"priv", U64>>, <<"priv_len", U64>>, <<"flags", U64>>, <<"type", U32>>, <<"id", U32>>>>)
kgsl_gpuobj_import_dma_buf == Struct(<<<<"fd", U32>>>>)
kgsl_gpuobj_import_useraddr == Struct(<<<<"virtaddr", U64>>>>)
kgsl_gpuobj_sync_obj == Struct(<<<<"offset", U64>>, <<"length", U64>>, <<"id", U32>>, <<"op", U32>>>>)
kgsl_gpuobj_sync == Struct(<<<<"objs", U64>>, <<"obj_len", U32>>, <<"count", U32>>>>)
kgsl_command_object ==
    Struct(<<<<"offset", U64>>, <<"gpuaddr", U64>>, <<"size", U64>>, <<"flags", U32>>, <<"id", U32>>>>)
kgsl_command_syncpoint == Struct(<<<<"priv", U64>>, <<"size", U64>>, <<"type", U32>>>>)
kgsl_gpu_command ==
    Struct(<<<<"flags", U64>>, <<"cmdlist", U64>>, <<"cmdsize", U32>>, <<"numcmds", U32>>, <<"objlist", U64>>,
      <<"objsize", U32>>, <<"numobjs", U32>>, <<"synclist", U64>>, <<"syncsize", U32>>, <<"numsyncs", U32>>,
      <<"context_id", U32>>, <<"timestamp", U32>>>>)
kgsl_preemption_counters_query ==
    Struct(<<<<"counters", U64>>, <<"size_user", U32>>, <<"size_priority_level", U32>>,
      <<"max_priority_level", U32>>>>)
kgsl_gpuobj_set_info ==
    Struct(<<<<"flags", U64>>, <<"metadata", U64>>, <<"id", U32>>, <<"metadata_len", U32>>, <<"type", U32>>>>)
kgsl_sparse_phys_alloc == Struct(<<<<"size", U64>>, <<"pagesize", U64>>, <<"flags", U64>>, <<"id", U32>>>>)
kgsl_sparse_phys_free == Struct(<<<<"id", U32>>>>)
kgsl_sparse_virt_alloc ==
    Struct(<<<<"size", U64>>, <<"pagesize", U64>>, <<"flags", U64>>, <<"gpuaddr", U64>>, <<"id", U32>>>>)
kgsl_sparse_virt_free == Struct(<<<<"id", U32>>>>)
kgsl_sparse_binding_object ==
    Struct(<<<<"virtoffset", U64>>, <<"physoffset", U64>>, <<"size", U64>>, <<"flags", U64>>, <<"id", U32>>>>)
kgsl_sparse_bind == Struct(<<<<"list", U64>>, <<"id", U32>>, <<"size", U32>>, <<"count", U32>>>>)
kgsl_gpu_sparse_command ==
    Struct(<<<<"flags", U64>>, <<"sparselist", U64>>, <<"synclist", U64>>, <<"sparsesize", U32>>,
      <<"numsparse", U32>>, <<"syncsize", U32>>, <<"numsyncs", U32>>, <<"context_id", U32>>,
      <<"timestamp", U32>>, <<"id", U32>>>>)
kgsl_gpumem_bind_range ==
    Struct(<<<<"child_offset", U64>>, <<"target_offset", U64>>, <<"length", U64>>, <<"child_id", U32>>,
      <<"op", U32>>>>)
kgsl_gpumem_bind_ranges ==
    Struct(<<<<"ranges", U64>>, <<"ranges_nents", U32>>, <<"ranges_size", U32>>, <<"id", U32>>,
      <<"flags", U32>>, <<"fence_id", U32>>, <<"padding", U32>>>>)
kgsl_gpu_aux_command_bind ==
    Struct(<<<<"rangeslist", U64>>, <<"numranges", U64>>, <<"rangesize", U64>>, <<"target", U32>>,
      <<"padding", U32>>>>)
kgsl_gpu_aux_command_generic ==
    Struct(<<<<"priv", U64>>, <<"size", U64>>, <<"type", U32>>, <<"padding", U32>>>>)
kgsl_gpu_aux_command ==
    Struct(<<<<"flags", U64>>, <<"cmdlist", U64>>, <<"cmdsize", U32>>, <<"numcmds", U32>>, <<"synclist", U64>>,
      <<"syncsize", U32>>, <<"numsyncs", U32>>, <<"context_id", U32>>, <<"timestamp", U32>>>>)
kgsl_timeline_create == Struct(<<<<"seqno", U64>>, <<"id", U32>>, <<"padding", U32>>>>)
kgsl_timeline_val == Struct(<<<<"seqno", U64>>, <<"timeline", U32>>, <<"padding", U32>>>>)
kgsl_timeline_wait ==
    Struct(<<<<"tv_sec", U64>>, <<"tv_nsec", U64>>, <<"timelines", U64>>, <<"count", U32>>,
      <<"timelines_size", U32>>, <<"flags", U32>>, <<"padding", U32>>>>)
kgsl_timeline_signal == Struct(<<<<"timelines", U64>>, <<"count", U32>>, <<"timelines_size", U32>>>>)
kgsl_timeline_fence_get == Struct(<<<<"seqno", U64>>, <<"timeline", U32>>, <<"handle", U32>>>>)
kgsl_gpu_aux_command_timeline == Struct(<<<<"timelines", U64>>, <<"count", U32>>, <<"timelines_size", U32>>>>)
kgsl_pagefault_report ==
    Struct(<<<<"fault_addr", U64>>, <<"reserved", Arr(U64, 2)>>, <<"fault_type", U32>>, <<"__pad", U32>>>>)
kgsl_fault ==
    Struct(<<<<"fault", U64>>, <<"type", U32>>, <<"count", U32>>, <<"size", U32>>, <<"padding", U32>>>>)
kgsl_fault_report ==
    Struct(<<<<"faultlist", U64>>, <<"faultnents", U32>>, <<"faultsize", U32>>, <<"context_id", U32>>,
      <<"padding", U32>>>>)
kgsl_recurring_command ==
    Struct(<<<<"flags", U64>>, <<"cmdlist", U64>>, <<"cmdsize", U32>>, <<"numcmds", U32>>, <<"objlist", U64>>,
      <<"objsize", U32>>, <<"numobjs", U32>>, <<"context_id", U32>>, <<"padding", U32>>>>)

-----------------------------------------------------------------------------
IOCTL_KGSL_DEVICE_GETPROPERTY == IOWR(KGSL_IOC_TYPE, 2, Val(kgsl_device_getproperty))
IOCTL_KGSL_DEVICE_WAITTIMESTAMP == IOW(KGSL_IOC_TYPE, 6, Val(kgsl_device_waittimestamp))
IOCTL_KGSL_DEVICE_WAITTIMESTAMP_CTXTID == IOW(KGSL_IOC_TYPE, 7, Val(kgsl_device_waittimestamp_ctxtid))
IOCTL_KGSL_RINGBUFFER_ISSUEIBCMDS == IOWR(KGSL_IOC_TYPE, 16, Val(kgsl_ringbuffer_issueibcmds))
IOCTL_KGSL_CMDSTREAM_READTIMESTAMP_OLD == IOR(KGSL_IOC_TYPE, 17, Val(kgsl_cmdstream_readtimestamp))
IOCTL_KGSL_CMDSTREAM_READTIMESTAMP == IOWR(KGSL_IOC_TYPE, 17, Val(kgsl_cmdstream_readtimestamp))
IOCTL_KGSL_CMDSTREAM_FREEMEMONTIMESTAMP == IOW(KGSL_IOC_TYPE, 18, Val(kgsl_cmdstream_freememontimestamp))
IOCTL_KGSL_CMDSTREAM_FREEMEMONTIMESTAMP_OLD == IOR(KGSL_IOC_TYPE, 18, Val(kgsl_cmdstream_freememontimestamp))
IOCTL_KGSL_DRAWCTXT_CREATE == IOWR(KGSL_IOC_TYPE, 19, Val(kgsl_drawctxt_create))
IOCTL_KGSL_DRAWCTXT_DESTROY == IOW(KGSL_IOC_TYPE, 20, Val(kgsl_drawctxt_destroy))
IOCTL_KGSL_MAP_USER_MEM == IOWR(KGSL_IOC_TYPE, 21, Val(kgsl_map_user_mem))
IOCTL_KGSL_CMDSTREAM_READTIMESTAMP_CTXTID == IOWR(KGSL_IOC_TYPE, 22, Val(kgsl_cmdstream_readtimestamp_ctxtid))
IOCTL_KGSL_CMDSTREAM_FREEMEMONTIMESTAMP_CTXTID == IOW(KGSL_IOC_TYPE, 23, Val(kgsl_cmdstream_freememontimestamp_ctxtid))
IOCTL_KGSL_SHAREDMEM_FROM_PMEM == IOWR(KGSL_IOC_TYPE, 32, Val(kgsl_sharedmem_from_pmem))
IOCTL_KGSL_SHAREDMEM_FREE == IOW(KGSL_IOC_TYPE, 33, Val(kgsl_sharedmem_free))
IOCTL_KGSL_CFF_USER_EVENT == IOW(KGSL_IOC_TYPE, 49, Val(kgsl_cff_user_event))
IOCTL_KGSL_DRAWCTXT_BIND_GMEM_SHADOW == IOW(KGSL_IOC_TYPE, 34, Val(kgsl_bind_gmem_shadow))
IOCTL_KGSL_SHAREDMEM_FROM_VMALLOC == IOWR(KGSL_IOC_TYPE, 35, Val(kgsl_sharedmem_from_vmalloc))
IOCTL_KGSL_SHAREDMEM_FLUSH_CACHE == IOW(KGSL_IOC_TYPE, 36, Val(kgsl_sharedmem_free))
IOCTL_KGSL_DRAWCTXT_SET_BIN_BASE_OFFSET == IOW(KGSL_IOC_TYPE, 37, Val(kgsl_drawctxt_set_bin_base_offset))
IOCTL_KGSL_CMDWINDOW_WRITE == IOW(KGSL_IOC_TYPE, 46, Val(kgsl_cmdwindow_write))
IOCTL_KGSL_GPUMEM_ALLOC == IOWR(KGSL_IOC_TYPE, 47, Val(kgsl_gpumem_alloc))
IOCTL_KGSL_CFF_SYNCMEM == IOW(KGSL_IOC_TYPE, 48, Val(kgsl_cff_syncmem))
IOCTL_KGSL_TIMESTAMP_EVENT_OLD == IOW(KGSL_IOC_TYPE, 49, Val(kgsl_timestamp_event))
IOCTL_KGSL_SETPROPERTY == IOW(KGSL_IOC_TYPE, 50, Val(kgsl_device_getproperty))
IOCTL_KGSL_TIMESTAMP_EVENT == IOWR(KGSL_IOC_TYPE, 51, Val(kgsl_timestamp_event))
IOCTL_KGSL_GPUMEM_ALLOC_ID == IOWR(KGSL_IOC_TYPE, 52, Val(kgsl_gpumem_alloc_id))
IOCTL_KGSL_GPUMEM_FREE_ID == IOWR(KGSL_IOC_TYPE, 53, Val(kgsl_gpumem_free_id))
IOCTL_KGSL_GPUMEM_GET_INFO == IOWR(KGSL_IOC_TYPE, 54, Val(kgsl_gpumem_get_info))
IOCTL_KGSL_GPUMEM_SYNC_CACHE == IOW(KGSL_IOC_TYPE, 55, Val(kgsl_gpumem_sync_cache))
IOCTL_KGSL_PERFCOUNTER_GET == IOWR(KGSL_IOC_TYPE, 56, Val(kgsl_perfcounter_get))
IOCTL_KGSL_PERFCOUNTER_PUT == IOW(KGSL_IOC_TYPE, 57, Val(kgsl_perfcounter_put))
IOCTL_KGSL_PERFCOUNTER_QUERY == IOWR(KGSL_IOC_TYPE, 58, Val(kgsl_perfcounter_query))
IOCTL_KGSL_PERFCOUNTER_READ == IOWR(KGSL_IOC_TYPE, 59, Val(kgsl_perfcounter_read))
IOCTL_KGSL_GPUMEM_SYNC_CACHE_BULK == IOWR(KGSL_IOC_TYPE, 60, Val(kgsl_gpumem_sync_cache_bulk))
IOCTL_KGSL_SUBMIT_COMMANDS == IOWR(KGSL_IOC_TYPE, 61, Val(kgsl_submit_commands))
IOCTL_KGSL_SYNCSOURCE_CREATE == IOWR(KGSL_IOC_TYPE, 64, Val(kgsl_syncsource_create))
IOCTL_KGSL_SYNCSOURCE_DESTROY == IOWR(KGSL_IOC_TYPE, 65, Val(kgsl_syncsource_destroy))
IOCTL_KGSL_SYNCSOURCE_CREATE_FENCE == IOWR(KGSL_IOC_TYPE, 66, Val(kgsl_syncsource_create_fence))
IOCTL_KGSL_SYNCSOURCE_SIGNAL_FENCE == IOWR(KGSL_IOC_TYPE, 67, Val(kgsl_syncsource_signal_fence))
IOCTL_KGSL_CFF_SYNC_GPUOBJ == IOW(KGSL_IOC_TYPE, 68, Val(kgsl_cff_sync_gpuobj))
IOCTL_KGSL_GPUOBJ_ALLOC == IOWR(KGSL_IOC_TYPE, 69, Val(kgsl_gpuobj_alloc))
IOCTL_KGSL_GPUOBJ_FREE == IOW(KGSL_IOC_TYPE, 70, Val(kgsl_gpuobj_free))
IOCTL_KGSL_GPUOBJ_INFO == IOWR(KGSL_IOC_TYPE, 71, Val(kgsl_gpuobj_info))
IOCTL_KGSL_GPUOBJ_IMPORT == IOWR(KGSL_IOC_TYPE, 72, Val(kgsl_gpuobj_import))
IOCTL_KGSL_GPUOBJ_SYNC == IOW(KGSL_IOC_TYPE, 73, Val(kgsl_gpuobj_sync))
IOCTL_KGSL_GPU_COMMAND == IOWR(KGSL_IOC_TYPE, 74, Val(kgsl_gpu_command))
IOCTL_KGSL_PREEMPTIONCOUNTER_QUERY == IOWR(KGSL_IOC_TYPE, 75, Val(kgsl_preemption_counters_query))
IOCTL_KGSL_GPUOBJ_SET_INFO == IOW(KGSL_IOC_TYPE, 76, Val(kgsl_gpuobj_set_info))
IOCTL_KGSL_SPARSE_PHYS_ALLOC == IOWR(KGSL_IOC_TYPE, 80, Val(kgsl_sparse_phys_alloc))
IOCTL_KGSL_SPARSE_PHYS_FREE == IOW(KGSL_IOC_TYPE, 81, Val(kgsl_sparse_phys_free))
IOCTL_KGSL_SPARSE_VIRT_ALLOC == IOWR(KGSL_IOC_TYPE, 82, Val(kgsl_sparse_virt_alloc))
IOCTL_KGSL_SPARSE_VIRT_FREE == IOW(KGSL_IOC_TYPE, 83, Val(kgsl_sparse_virt_free))
IOCTL_KGSL_SPARSE_BIND == IOW(KGSL_IOC_TYPE, 84, Val(kgsl_sparse_bind))
IOCTL_KGSL_GPU_SPARSE_COMMAND == IOWR(KGSL_IOC_TYPE, 85, Val(kgsl_gpu_sparse_command))
IOCTL_KGSL_GPUMEM_BIND_RANGES == IOWR(KGSL_IOC_TYPE, 86, Val(kgsl_gpumem_bind_ranges))
IOCTL_KGSL_GPU_AUX_COMMAND == IOWR(KGSL_IOC_TYPE, 87, Val(kgsl_gpu_aux_command))
IOCTL_KGSL_TIMELINE_CREATE == IOWR(KGSL_IOC_TYPE, 88, Val(kgsl_timeline_create))
IOCTL_KGSL_TIMELINE_WAIT == IOW(KGSL_IOC_TYPE, 89, Val(kgsl_timeline_wait))
IOCTL_KGSL_TIMELINE_QUERY == IOWR(KGSL_IOC_TYPE, 90, Val(kgsl_timeline_val))
IOCTL_KGSL_TIMELINE_SIGNAL == IOW(KGSL_IOC_TYPE, 91, Val(kgsl_timeline_signal))
IOCTL_KGSL_TIMELINE_FENCE_GET == IOWR(KGSL_IOC_TYPE, 92, Val(kgsl_timeline_fence_get))
IOCTL_KGSL_TIMELINE_DESTROY == IOW(KGSL_IOC_TYPE, 93, Val(U32))
IOCTL_KGSL_GET_FAULT_REPORT == IOWR(KGSL_IOC_TYPE, 94, Val(kgsl_fault_report))
IOCTL_KGSL_RECURRING_COMMAND == IOWR(KGSL_IOC_TYPE, 95, Val(kgsl_recurring_command))

KgslIoctls == [
    DEVICE_GETPROPERTY |-> IOCTL_KGSL_DEVICE_GETPROPERTY,
    DEVICE_WAITTIMESTAMP |-> IOCTL_KGSL_DEVICE_WAITTIMESTAMP,
    DEVICE_WAITTIMESTAMP_CTXTID |-> IOCTL_KGSL_DEVICE_WAITTIMESTAMP_CTXTID,
    RINGBUFFER_ISSUEIBCMDS |-> IOCTL_KGSL_RINGBUFFER_ISSUEIBCMDS,
    CMDSTREAM_READTIMESTAMP_OLD |-> IOCTL_KGSL_CMDSTREAM_READTIMESTAMP_OLD,
    CMDSTREAM_READTIMESTAMP |-> IOCTL_KGSL_CMDSTREAM_READTIMESTAMP,
    CMDSTREAM_FREEMEMONTIMESTAMP |-> IOCTL_KGSL_CMDSTREAM_FREEMEMONTIMESTAMP,
    CMDSTREAM_FREEMEMONTIMESTAMP_OLD |-> IOCTL_KGSL_CMDSTREAM_FREEMEMONTIMESTAMP_OLD,
    DRAWCTXT_CREATE |-> IOCTL_KGSL_DRAWCTXT_CREATE, DRAWCTXT_DESTROY |-> IOCTL_KGSL_DRAWCTXT_DESTROY,
    MAP_USER_MEM |-> IOCTL_KGSL_MAP_USER_MEM,
    CMDSTREAM_READTIMESTAMP_CTXTID |-> IOCTL_KGSL_CMDSTREAM_READTIMESTAMP_CTXTID,
    CMDSTREAM_FREEMEMONTIMESTAMP_CTXTID |-> IOCTL_KGSL_CMDSTREAM_FREEMEMONTIMESTAMP_CTXTID,
    SHAREDMEM_FROM_PMEM |-> IOCTL_KGSL_SHAREDMEM_FROM_PMEM, SHAREDMEM_FREE |-> IOCTL_KGSL_SHAREDMEM_FREE,
    CFF_USER_EVENT |-> IOCTL_KGSL_CFF_USER_EVENT,
    DRAWCTXT_BIND_GMEM_SHADOW |-> IOCTL_KGSL_DRAWCTXT_BIND_GMEM_SHADOW,
    SHAREDMEM_FROM_VMALLOC |-> IOCTL_KGSL_SHAREDMEM_FROM_VMALLOC,
    SHAREDMEM_FLUSH_CACHE |-> IOCTL_KGSL_SHAREDMEM_FLUSH_CACHE,
    DRAWCTXT_SET_BIN_BASE_OFFSET |-> IOCTL_KGSL_DRAWCTXT_SET_BIN_BASE_OFFSET,
    CMDWINDOW_WRITE |-> IOCTL_KGSL_CMDWINDOW_WRITE, GPUMEM_ALLOC |-> IOCTL_KGSL_GPUMEM_ALLOC,
    CFF_SYNCMEM |-> IOCTL_KGSL_CFF_SYNCMEM, TIMESTAMP_EVENT_OLD |-> IOCTL_KGSL_TIMESTAMP_EVENT_OLD,
    SETPROPERTY |-> IOCTL_KGSL_SETPROPERTY, TIMESTAMP_EVENT |-> IOCTL_KGSL_TIMESTAMP_EVENT,
    GPUMEM_ALLOC_ID |-> IOCTL_KGSL_GPUMEM_ALLOC_ID, GPUMEM_FREE_ID |-> IOCTL_KGSL_GPUMEM_FREE_ID,
    GPUMEM_GET_INFO |-> IOCTL_KGSL_GPUMEM_GET_INFO, GPUMEM_SYNC_CACHE |-> IOCTL_KGSL_GPUMEM_SYNC_CACHE,
    PERFCOUNTER_GET |-> IOCTL_KGSL_PERFCOUNTER_GET, PERFCOUNTER_PUT |-> IOCTL_KGSL_PERFCOUNTER_PUT,
    PERFCOUNTER_QUERY |-> IOCTL_KGSL_PERFCOUNTER_QUERY, PERFCOUNTER_READ |-> IOCTL_KGSL_PERFCOUNTER_READ,
    GPUMEM_SYNC_CACHE_BULK |-> IOCTL_KGSL_GPUMEM_SYNC_CACHE_BULK,
    SUBMIT_COMMANDS |-> IOCTL_KGSL_SUBMIT_COMMANDS, SYNCSOURCE_CREATE |-> IOCTL_KGSL_SYNCSOURCE_CREATE,
    SYNCSOURCE_DESTROY |-> IOCTL_KGSL_SYNCSOURCE_DESTROY,
    SYNCSOURCE_CREATE_FENCE |-> IOCTL_KGSL_SYNCSOURCE_CREATE_FENCE,
    SYNCSOURCE_SIGNAL_FENCE |-> IOCTL_KGSL_SYNCSOURCE_SIGNAL_FENCE,
    CFF_SYNC_GPUOBJ |-> IOCTL_KGSL_CFF_SYNC_GPUOBJ, GPUOBJ_ALLOC |-> IOCTL_KGSL_GPUOBJ_ALLOC,
    GPUOBJ_FREE |-> IOCTL_KGSL_GPUOBJ_FREE, GPUOBJ_INFO |-> IOCTL_KGSL_GPUOBJ_INFO,
    GPUOBJ_IMPORT |-> IOCTL_KGSL_GPUOBJ_IMPORT, GPUOBJ_SYNC |-> IOCTL_KGSL_GPUOBJ_SYNC,
    GPU_COMMAND |-> IOCTL_KGSL_GPU_COMMAND, PREEMPTIONCOUNTER_QUERY |-> IOCTL_KGSL_PREEMPTIONCOUNTER_QUERY,
    GPUOBJ_SET_INFO |-> IOCTL_KGSL_GPUOBJ_SET_INFO, SPARSE_PHYS_ALLOC |-> IOCTL_KGSL_SPARSE_PHYS_ALLOC,
    SPARSE_PHYS_FREE |-> IOCTL_KGSL_SPARSE_PHYS_FREE, SPARSE_VIRT_ALLOC |-> IOCTL_KGSL_SPARSE_VIRT_ALLOC,
    SPARSE_VIRT_FREE |-> IOCTL_KGSL_SPARSE_VIRT_FREE, SPARSE_BIND |-> IOCTL_KGSL_SPARSE_BIND,
    GPU_SPARSE_COMMAND |-> IOCTL_KGSL_GPU_SPARSE_COMMAND, GPUMEM_BIND_RANGES |-> IOCTL_KGSL_GPUMEM_BIND_RANGES,
    GPU_AUX_COMMAND |-> IOCTL_KGSL_GPU_AUX_COMMAND, TIMELINE_CREATE |-> IOCTL_KGSL_TIMELINE_CREATE,
    TIMELINE_WAIT |-> IOCTL_KGSL_TIMELINE_WAIT, TIMELINE_QUERY |-> IOCTL_KGSL_TIMELINE_QUERY,
    TIMELINE_SIGNAL |-> IOCTL_KGSL_TIMELINE_SIGNAL, TIMELINE_FENCE_GET |-> IOCTL_KGSL_TIMELINE_FENCE_GET,
    TIMELINE_DESTROY |-> IOCTL_KGSL_TIMELINE_DESTROY, GET_FAULT_REPORT |-> IOCTL_KGSL_GET_FAULT_REPORT,
    RECURRING_COMMAND |-> IOCTL_KGSL_RECURRING_COMMAND]
=============================================================================
