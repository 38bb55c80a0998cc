--------------------------- MODULE SystemIncludes ---------------------------
(***************************************************************************)
(* The structures of the system that the assembler includes and the C      *)
(* headers both describe, as the lines of the assembler give them: exec,   *)
(* utility, hardware, graphics, devices, resources, dos.  A field that has *)
(* a name in C has that name.  A STRUCT is given by its size; what is      *)
(* assembled only if V1_3 is defined is left out.                          *)
(***************************************************************************)
EXTENDS Layouts

LN_i == Structure(0, <<
     <<APTR, "ln_Succ", "ln_Pred">>, <<UBYTE, "ln_Type">>, <<BYTE, "ln_Pri">>,
     <<APTR, "ln_Name">>, <<LABEL, "LN_SIZE">> >>)

LH_i == Structure(0, <<
     <<APTR, "lh_Head", "lh_Tail", "lh_TailPred">>, <<UBYTE, "lh_Type", "l_pad">>,
     <<LABEL, "LH_SIZE">> >>)

MP_i == Structure(symbols.LN_SIZE, <<
     <<UBYTE, "mp_Flags", "mp_SigBit">>, <<APTR, "mp_SigTask">>,
     <<symbols.LH_SIZE, "mp_MsgList">>, <<LABEL, "MP_SIZE">> >>)

UNIT_i == Structure(symbols.MP_SIZE, <<
     <<UBYTE, "unit_flags", "unit_pad">>, <<UWORD, "unit_OpenCnt">>, <<LABEL, "UNIT_SIZE">> >>)

LIB_i == Structure(symbols.LN_SIZE, <<
     <<UBYTE, "lib_Flags", "lib_pad">>,
     <<UWORD, "lib_NegSize", "lib_PosSize", "lib_Version", "lib_Revision">>,
     <<APTR, "lib_IdString">>, <<ULONG, "lib_Sum">>, <<UWORD, "lib_OpenCnt">>,
     <<LABEL, "LIB_SIZE">> >>)

IV_i == Structure(0, << <<APTR, "iv_Data", "iv_Code", "iv_Node">>, <<LABEL, "IV_SIZE">> >>)

SH_i == Structure(symbols.LH_SIZE, << <<UWORD, "sh_Pad">>, <<LABEL, "SH_SIZE">> >>)

MLH_i == Structure(0, <<
     <<APTR, "mlh_Head", "mlh_Tail", "mlh_TailPred">>, <<LABEL, "MLH_SIZE">> >>)

ExecBase_i == Structure(symbols.LIB_SIZE, <<
     <<UWORD, "SoftVer">>, <<WORD, "LowMemChkSum">>, <<ULONG, "ChkBase">>,
     <<APTR, "ColdCapture", "CoolCapture", "WarmCapture", "SysStkUpper", "SysStkLower">>,
     <<ULONG, "MaxLocMem">>, <<APTR, "DebugEntry", "DebugData", "AlertData", "MaxExtMem">>,
     <<WORD, "ChkSum">>, <<LABEL, "IntVects">>,
     <<symbols.IV_SIZE, "IVTBE", "IVDSKBLK", "IVSOFTINT", "IVPORTS", "IVCOPER", "IVVERTB", "IVBLIT", "IVAUD0", "IVAUD1", "IVAUD2", "IVAUD3", "IVRBF", "IVDSKSYNC", "IVEXTER", "IVINTEN", "IVNMI">>,
     <<APTR, "ThisTask">>, <<ULONG, "IdleCount", "DispCount">>,
     <<UWORD, "Quantum", "Elapsed", "SysFlags">>, <<BYTE, "IDNestCnt", "TDNestCnt">>,
     <<UWORD, "AttnFlags", "AttnResched">>,
     <<APTR, "ResModules", "TaskTrapCode", "TaskExceptCode", "TaskExitCode">>,
     <<ULONG, "TaskSigAlloc">>, <<UWORD, "TaskTrapAlloc">>,
     <<symbols.LH_SIZE, "MemList", "ResourceList", "DeviceList", "IntrList", "LibList", "PortList", "TaskReady", "TaskWait">>,
     <<symbols.SH_SIZE * 5, "SoftInts">>, <<4 * 4, "LastAlert">>,
     <<UBYTE, "VBlankFrequency", "PowerSupplyFrequency">>,
     <<symbols.LH_SIZE, "SemaphoreList">>,
     <<APTR, "KickMemPtr", "KickTagPtr", "KickCheckSum">>, <<UWORD, "ex_Pad0">>,
     <<ULONG, "ex_LaunchPoint">>, <<APTR, "ex_RamLibPrivate">>,
     <<ULONG, "ex_EClockFrequency", "ex_CacheControl", "ex_TaskID">>,
     <<5 * 4, "ex_Reserved1">>, <<APTR, "ex_MMULock">>, <<3 * 4, "ex_Reserved2">>,
     <<symbols.MLH_SIZE, "ex_MemHandlers">>, <<APTR, "ex_MemHandler">>,
     <<LABEL, "SYSBASESIZE">> >>)

IS_i == Structure(symbols.LN_SIZE, << <<APTR, "is_Data", "is_Code">>, <<LABEL, "IS_SIZE">> >>)

MN_i == Structure(symbols.LN_SIZE, <<
     <<APTR, "mn_ReplyPort">>, <<UWORD, "mn_Length">>, <<LABEL, "MN_SIZE">> >>)

IO_i == Structure(symbols.MN_SIZE, <<
     <<APTR, "io_Device", "io_Unit">>, <<UWORD, "io_Command">>, <<UBYTE, "io_Flags">>,
     <<BYTE, "io_Error">>, <<LABEL, "IO_SIZE">>, <<ULONG, "io_Actual", "io_Length">>,
     <<APTR, "io_Data">>, <<ULONG, "io_Offset">>, <<LABEL, "IOSTD_SIZE">> >>)

ME_i == Structure(0, <<
     <<LABEL, "ME_REQS">>, <<APTR, "me_Un">>, <<ULONG, "me_Length">>, <<LABEL, "ME_SIZE">> >>)

ML_i == Structure(symbols.LN_SIZE, <<
     <<UWORD, "ml_NumEntries">>, <<LABEL, "ml_ME", "ML_SIZE">> >>)

MemHandlerData_i == Structure(0, <<
     <<ULONG, "memh_RequestSize", "memh_RequestFlags", "memh_Flags">>,
     <<LABEL, "memh_SIZEOF">> >>)

MH_i == Structure(symbols.LN_SIZE, <<
     <<UWORD, "mh_Attributes">>, <<APTR, "mh_First", "mh_Lower", "mh_Upper">>,
     <<ULONG, "mh_Free">>, <<LABEL, "MH_SIZE">> >>)

MC_i == Structure(0, << <<APTR, "mc_Next">>, <<ULONG, "mc_Bytes">>, <<APTR, "MC_SIZE">> >>)

MLN_i == Structure(0, << <<APTR, "mln_Succ", "mln_Pred">>, <<LABEL, "MLN_SIZE">> >>)

RT_i == Structure(0, <<
     <<UWORD, "rt_MatchWord">>, <<APTR, "rt_MatchTag", "rt_EndSkip">>,
     <<UBYTE, "rt_Flags", "rt_Version", "rt_Type">>, <<BYTE, "rt_Pri">>,
     <<APTR, "rt_Name", "rt_IdString", "rt_Init">>, <<LABEL, "RT_SIZE">> >>)

SSR_i == Structure(symbols.MLN_SIZE, << <<APTR, "sr_Waiter">>, <<LABEL, "SSR_SIZE">> >>)

SS_i == Structure(symbols.LN_SIZE, <<
     <<WORD, "ss_NestCount">>, <<symbols.MLH_SIZE, "ss_WaitQueue">>,
     <<symbols.SSR_SIZE, "ss_MultipleLink">>, <<APTR, "ss_Owner">>, <<WORD, "ss_QueueCount">>,
     <<LABEL, "SS_SIZE">> >>)

SemaphoreMessage_i == Structure(symbols.MN_SIZE, <<
     <<APTR, "ssm_Semaphore">>, <<LABEL, "SSM_SIZEOF">> >>)

SM_i == Structure(symbols.MP_SIZE, << <<WORD, "sm_Bids">>, <<LABEL, "SM_SIZE">> >>)

TC_Struct_i == Structure(symbols.LN_SIZE, <<
     <<UBYTE, "tc_Flags", "tc_State">>, <<BYTE, "tc_IDNestCnt", "tc_TDNestCnt">>,
     <<ULONG, "tc_SigAlloc", "tc_SigWait", "tc_SigRecvd", "tc_SigExcept">>,
     <<APTR, "tc_ETask", "tc_ExceptData", "tc_ExceptCode", "tc_TrapData", "tc_TrapCode", "tc_SPReg", "tc_SPLower", "tc_SPUpper">>,
     <<FPTR, "tc_Switch", "tc_Launch">>, <<symbols.LH_SIZE, "tc_MemEntry">>,
     <<APTR, "tc_UserData">>, <<LABEL, "TC_SIZE">> >>)

StackSwapStruct_i == Structure(0, <<
     <<APTR, "stk_Lower">>, <<ULONG, "stk_Upper">>, <<APTR, "stk_Pointer">>,
     <<LABEL, "StackSwapStruct_SIZEOF">> >>)

CLOCKDATA_i == Structure(0, <<
     <<UWORD, "sec", "min", "hour", "mday", "month", "year", "wday">>, <<LABEL, "CD_SIZE">> >>)

HOOK_i == Structure(symbols.MLN_SIZE, <<
     <<APTR, "h_Entry", "h_SubEntry", "h_Data">>, <<LABEL, "h_SIZEOF">> >>)

NamedObject_i == Structure(0, << <<APTR, "no_Object">>, <<LABEL, "NamedObject_End">> >>)

TagItem_i == Structure(0, << <<ULONG, "ti_Tag", "ti_Data">>, <<LABEL, "ti_SIZEOF">> >>)

UtilityBase_i == Structure(symbols.LIB_SIZE, << <<UBYTE, "ub_Language", "ub_Reserved">> >>)

bltnode_i == Structure(0, <<
     <<LONG, "n", "function">>, <<BYTE, "stat", "bn_dummy">>, <<WORD, "blitsize", "beamsync">>,
     <<LONG, "cleanup">>, <<LABEL, "bn_SIZEOF">> >>)

Rectangle_i == Structure(0, <<
     <<WORD, "MinX", "MinY", "MaxX", "MaxY">>, <<LABEL, "ra_SIZEOF">> >>)

Layer_i == Structure(0, <<
     <<LONG, "front", "back", "ClipRect", "rp">>,
     <<WORD, "bounds", "lr_MinY", "lr_MaxX", "lr_MaxY">>, <<4, "reserved">>,
     <<WORD, "priority", "Flags">>, <<LONG, "SuperBitMap", "SuperClipRect">>,
     <<APTR, "Window">>, <<WORD, "Scroll_X", "Scroll_Y">>,
     <<APTR, "cr", "cr2", "crnew", "SuperSaveClipRects", "_cliprects", "LayerInfo">>,
     <<symbols.SS_SIZE, "Lock">>, <<APTR, "BackFill">>, <<ULONG, "reserved1">>,
     <<APTR, "ClipRegion", "saveClipRects">>, <<22, "reserved2">>, <<APTR, "DamageList">>,
     <<LABEL, "lr_SIZEOF">> >>)

ClipRect_i == Structure(0, <<
     <<LONG, "Next", "prev", "lobs", "BitMap">>,
     <<WORD, "bounds", "cr_MinY", "cr_MaxX", "cr_MaxY">>, <<APTR, "_p1", "_p2">>,
     <<LONG, "reserved", "Flags">>, <<LABEL, "cr_SIZEOF">> >>)

CopIns_i == Structure(0, <<
     <<WORD, "OpCode">>, <<0, "nxtlist", "VWaitPos">>, <<2, "DestAddr">>, <<0, "HWaitPos">>,
     <<2, "DestData">>, <<LABEL, "ci_SIZEOF">> >>)

cprlist_i == Structure(0, <<
     <<APTR, "Next", "start">>, <<WORD, "MaxCount">>, <<LABEL, "crl_SIZEOF">> >>)

CopList_i == Structure(0, <<
     <<APTR, "Next", "_CopList", "_ViewPort", "CopIns", "CopPtr", "CopLStart", "CopSStart">>,
     <<WORD, "Count", "MaxCount", "DyOffset", "SLRepeat", "Flags">>,
     <<LABEL, "cl_SIZEOF">> >>)

UCopList_i == Structure(0, <<
     <<APTR, "Next", "FirstCopList", "CopList">>, <<LABEL, "ucl_SIZEOF">> >>)

copinit_i == Structure(0, <<
     <<4, "vsync_hblank">>, <<24, "diagstrt">>, <<4, "fm0">>, <<20, "diwstart">>,
     <<4, "bplcon2">>, <<8 * 2 * 2, "sprfix">>, <<2 * (2 * 8 * 2), "sprstrtup">>,
     <<2 * 2, "wait14", "norm_hblank", "jump">>, <<6 * 2, "wait_forever">>,
     <<8 * 2, "sprstop">>, <<LABEL, "copinit_SIZEOF">> >>)

QueryHeader_i == Structure(0, <<
     <<ULONG, "StructID", "DisplayID", "SkipID", "Length">>, <<LABEL, "qh_SIZEOF">> >>)

tPoint_i == Structure(0, << <<WORD, "x", "y">>, <<LABEL, "tpt_SIZEOF">> >>)

DisplayInfo_i == Structure(symbols.qh_SIZEOF, <<
     <<UWORD, "NotAvailable">>, <<ULONG, "PropertyFlags">>,
     <<symbols.tpt_SIZEOF, "Resolution">>,
     <<UWORD, "PixelSpeed", "NumStdSprites", "PaletteRange">>,
     <<symbols.tpt_SIZEOF, "SpriteResolution">>, <<4, "pad">>,
     <<UBYTE, "RedBits", "GreenBits", "BlueBits">>, <<5, "pad2">>, <<8, "reserved">>,
     <<LABEL, "dis_SIZEOF">> >>)

DimensionInfo_i == Structure(symbols.qh_SIZEOF, <<
     <<UWORD, "MaxDepth", "MinRasterWidth", "MinRasterHeight", "MaxRasterWidth", "MaxRasterHeight">>,
     <<symbols.ra_SIZEOF, "Nominal", "MaxOScan", "VideoOScan", "TxtOScan", "StdOScan">>,
     <<14, "pad">>, <<8, "reserved">>, <<LABEL, "dim_SIZEOF">> >>)

MonitorInfo_i == Structure(symbols.qh_SIZEOF, <<
     <<APTR, "Mspc">>, <<symbols.tpt_SIZEOF, "ViewPosition", "ViewResolution">>,
     <<symbols.ra_SIZEOF, "ViewPositionRange">>,
     <<UWORD, "TotalRows", "TotalColorClocks", "MinRow">>, <<WORD, "Compatibility">>,
     <<32, "pad">>, <<symbols.tpt_SIZEOF, "MouseTicks", "DefaultViewPosition">>,
     <<ULONG, "PreferredModeID">>, <<8, "reserved">>, <<LABEL, "mtr_SIZEOF">> >>)

NameInfo_i == Structure(symbols.qh_SIZEOF, <<
     <<32, "Name">>, <<8, "reserved">>, <<LABEL, "nif_SIZEOF">> >>)

VecInfo_i == Structure(symbols.qh_SIZEOF, <<
     <<APTR, "Vec", "Data">>, <<UWORD, "Type">>, <<6, "pad">>, <<8, "reserved">>,
     <<LABEL, "vec_SIZEOF">> >>)

VS_i == Structure(0, <<
     <<APTR, "NextVSprite", "PrevVSprite", "DrawPath", "ClearPath">>,
     <<WORD, "OldY", "OldX", "Flags", "Y", "X", "Height", "Width", "Depth", "MeMask", "HitMask">>,
     <<APTR, "ImageData", "BorderLine", "CollMask", "SprColors", "VSBob">>,
     <<BYTE, "PlanePick", "PlaneOnOff">>, <<LABEL, "vs_SUserExt", "vs_SIZEOF">> >>)

BOB_i == Structure(0, <<
     <<WORD, "Flags">>,
     <<APTR, "SaveBuffer", "ImageShadow", "Before", "After", "BobVSprite", "BobComp", "DBuffer">>,
     <<LABEL, "bob_BUserExt", "bob_SIZEOF">> >>)

AC_i == Structure(0, <<
     <<WORD, "Flags", "Timer", "TimeSet">>,
     <<APTR, "NextComp", "PrevComp", "NextSeq", "PrevSeq", "AnimCRoutine">>,
     <<WORD, "YTrans", "XTrans">>, <<APTR, "HeadOb", "AnimBob">>, <<LABEL, "ac_SIZE">> >>)

AO_i == Structure(0, <<
     <<APTR, "NextOb", "PrevOb">>, <<LONG, "Clock">>,
     <<WORD, "AnOldY", "AnOldX", "AnY", "AnX", "YVel", "XVel", "XAccel", "YAccel", "RingYTrans", "RingXTrans">>,
     <<APTR, "AnimORoutine", "HeadComp">>, <<LABEL, "ao_AUserExt", "ao_SIZEOF">> >>)

DBP_i == Structure(0, <<
     <<WORD, "BufY", "BufX">>, <<APTR, "BufPath", "BufBuffer", "dbp_BufPlanes">>,
     <<LABEL, "dbp_SIZEOF">> >>)

BitMap_i == Structure(0, <<
     <<WORD, "BytesPerRow", "Rows">>, <<BYTE, "Flags", "Depth">>, <<WORD, "pad">>,
     <<8 * 4, "Planes">>, <<LABEL, "bm_SIZEOF">> >>)

Rect32_i == Structure(0, <<
     <<LONG, "MinX", "MinY", "MaxX", "MaxY">>, <<LABEL, "r32_SIZEOF">> >>)

AnalogSignalInterval_i == Structure(0, <<
     <<UWORD, "asi_Start", "asi_Stop">>, <<LABEL, "asi_SIZEOF">> >>)

GfxBase_i == Structure(symbols.LIB_SIZE, <<
     <<APTR, "ActiView", "copinit", "cia", "blitter", "LOFlist", "SHFlist", "blthd", "blttl", "bsblthd", "bsblttl">>,
     <<symbols.IS_SIZE, "vbsrv", "timsrv", "bltsrv">>, <<symbols.LH_SIZE, "TextFonts">>,
     <<APTR, "DefaultFont">>, <<UWORD, "Modes">>, <<BYTE, "VBlank", "Debug">>,
     <<UWORD, "BeamSync">>, <<WORD, "system_bplcon0">>,
     <<BYTE, "SpriteReserved", "bytereserved">>, <<WORD, "Flags", "BlitLock", "BlitNest">>,
     <<symbols.LH_SIZE, "BlitWaitQ">>, <<APTR, "BlitOwner">>, <<symbols.LH_SIZE, "TOF_WaitQ">>,
     <<WORD, "DisplayFlags">>, <<APTR, "SimpleSprites">>,
     <<WORD, "MaxDisplayRow", "MaxDisplayColumn", "NormalDisplayRows", "NormalDisplayColumns", "NormalDPMX", "NormalDPMY">>,
     <<APTR, "LastChanceMemory", "LCMptr">>, <<WORD, "MicrosPerLine", "MinDisplayColumn">>,
     <<UBYTE, "ChipRevBits0", "MemType">>, <<4, "crb_reserved">>, <<2, "monitor_id">>,
     <<4 * 8, "hedley", "hedley_sprites", "hedley_sprites1">>,
     <<WORD, "hedley_count", "hedley_flags", "hedley_tmp">>, <<APTR, "hash_table">>,
     <<UWORD, "current_tot_rows", "current_tot_cclks">>,
     <<UBYTE, "hedley_hint", "hedley_hint2">>, <<4 * 4, "nreserved">>,
     <<APTR, "a2024_sync_raster">>, <<UWORD, "control_delta_pal", "control_delta_ntsc">>,
     <<APTR, "current_monitor">>, <<symbols.LH_SIZE, "MonitorList">>,
     <<APTR, "default_monitor", "MonitorListSemaphore", "DisplayInfoDataBase">>,
     <<UWORD, "TopLine">>,
     <<APTR, "ActiViewCprSemaphore", "UtilBase", "ExecBase", "bwshifts", "StrtFetchMasks", "StopFetchMasks", "Overrun", "RealStops">>,
     <<WORD, "SpriteWidth", "SpriteFMode">>, <<BYTE, "SoftSprites", "arraywidth">>,
     <<WORD, "DefaultSpriteWidth">>, <<BYTE, "SprMoveDisable", "WantChips">>,
     <<UBYTE, "BoardMemType", "Bugs">>, <<ULONG, "gb_LayersBase", "ColorMask">>,
     <<APTR, "IVector", "IData">>, <<ULONG, "SpecialCounter">>, <<APTR, "DBList">>,
     <<UWORD, "MonitorFlags">>, <<BYTE, "ScanDoubledSprites", "BP3Bits">>,
     <<symbols.asi_SIZEOF, "MonitorVBlank">>, <<APTR, "natural_monitor", "ProgData">>,
     <<BYTE, "ExtSprites">>, <<UBYTE, "pad3">>, <<WORD, "GfxFlags">>, <<ULONG, "VBCounter">>,
     <<APTR, "HashTableSemaphore">>, <<9 * 4, "HWEmul">>, <<LABEL, "gb_SIZE">> >>)

XLN_i == Structure(0, <<
     <<APTR, "xln_Succ", "xln_Pred">>, <<UBYTE, "xln_Type">>, <<BYTE, "xln_Pri">>,
     <<APTR, "xln_Name">>, <<UBYTE, "xln_Subsystem", "xln_Subtype">>,
     <<LONG, "xln_Library", "xln_Init">>, <<LABEL, "XLN_SIZE">> >>)

Layer_Info_i == Structure(0, <<
     <<APTR, "top_layer", "check_lp", "obs", "FreeClipRects">>,
     <<LONG, "PrivateReserve1", "PrivateReserve2">>, <<symbols.SS_SIZE, "Lock">>,
     <<symbols.MLH_SIZE, "gs_Head">>, <<WORD, "PrivateReserve3">>, <<APTR, "PrivateReserve4">>,
     <<WORD, "Flags">>, <<BYTE, "fatten_count", "LockLayersCount">>,
     <<WORD, "PrivateReserve5">>, <<APTR, "BlankHook", "LayerInfo_extra">>,
     <<LABEL, "li_SIZEOF">> >>)

SpecialMonitor_i == Structure(symbols.XLN_SIZE, <<
     <<UWORD, "spm_Flags">>, <<APTR, "do_monitor", "reserved1", "reserved2", "reserved3">>,
     <<symbols.asi_SIZEOF, "hblank", "vblank", "hsync", "vsync">>, <<LABEL, "spm_SIZEOF">> >>)

MonitorSpec_i == Structure(symbols.XLN_SIZE, <<
     <<UWORD, "ms_Flags">>, <<LONG, "ratioh", "ratiov">>,
     <<UWORD, "total_rows", "total_colorclocks", "DeniseMaxDisplayColumn", "BeamCon0", "min_row">>,
     <<APTR, "ms_Special">>, <<UWORD, "ms_OpenCount">>,
     <<APTR, "ms_transform", "ms_translate", "ms_scale">>,
     <<UWORD, "ms_xoffset", "ms_yoffset">>, <<symbols.ra_SIZEOF, "ms_LegalView">>,
     <<APTR, "ms_maxoscan", "ms_videoscan">>, <<UWORD, "DeniseMinDisplayColumn">>,
     <<ULONG, "DisplayCompatible">>, <<symbols.LH_SIZE, "DisplayInfoDataBase">>,
     <<symbols.SS_SIZE, "DisplayInfoDataBaseSemaphore">>,
     <<ULONG, "ms_MrgCop", "ms_LoadView", "ms_KillView">>, <<LABEL, "ms_SIZEOF">> >>)

TmpRas_i == Structure(0, << <<APTR, "RasPtr">>, <<LONG, "Size">>, <<LABEL, "tr_SIZEOF">> >>)

GelsInfo_i == Structure(0, <<
     <<BYTE, "sprRsrvd", "Flags">>,
     <<APTR, "gelHead", "gelTail", "nextLine", "lastColor", "collHandler">>,
     <<WORD, "leftmost", "rightmost", "topmost", "bottommost">>,
     <<APTR, "firstBlissObj", "lastBlissObj">>, <<LABEL, "gi_SIZEOF">> >>)

RastPort_i == Structure(0, <<
     <<LONG, "Layer", "BitMap", "AreaPtrn", "TmpRas", "AreaInfo", "GelsInfo">>,
     <<BYTE, "Mask", "FgPen", "BgPen", "AOlPen", "DrawMode", "AreaPtSz", "linpatcnt", "dummy">>,
     <<WORD, "Flags", "LinePtrn", "cp_x", "cp_y">>, <<8, "minterms">>,
     <<WORD, "PenWidth", "PenHeight">>, <<LONG, "Font">>, <<BYTE, "AlgoStyle", "TxFlags">>,
     <<WORD, "TxHeight", "TxWidth", "TxBaseline", "TxSpacing">>, <<APTR, "RP_User">>,
     <<8, "longreserved">>, <<14, "wordreserved">>, <<8, "reserved">>, <<LABEL, "rp_SIZEOF">> >>)

AreaInfo_i == Structure(0, <<
     <<LONG, "VctrTbl", "VctrPtr", "FlagTbl", "FlagPtr">>,
     <<WORD, "Count", "MaxCount", "FirstX", "FirstY">>, <<LABEL, "ai_SIZEOF">> >>)

Region_i == Structure(0, <<
     <<symbols.ra_SIZEOF, "bounds">>, <<APTR, "RegionRectangle">>, <<LABEL, "rg_SIZEOF">> >>)

RegionRectangle_i == Structure(0, <<
     <<APTR, "Next", "Prev">>, <<symbols.ra_SIZEOF, "bounds">>, <<LABEL, "rr_SIZEOF">> >>)

BitScaleArgs_i == Structure(0, <<
     <<UWORD, "bsa_SrcX", "bsa_SrcY", "bsa_SrcWidth", "bsa_SrcHeight", "bsa_XSrcFactor", "bsa_YSrcFactor", "bsa_DestX", "bsa_DestY", "bsa_DestWidth", "bsa_DestHeight", "bsa_XDestFactor", "bsa_YDestFactor">>,
     <<APTR, "bsa_SrcBitMap", "bsa_DestBitMap">>, <<ULONG, "bsa_Flags">>,
     <<UWORD, "bsa_XDDA", "bsa_YDDA">>, <<LONG, "bsa_Reserved1", "bsa_Reserved2">>,
     <<LABEL, "bsa_SIZEOF">> >>)

SimpleSprite_i == Structure(0, <<
     <<APTR, "posctldata">>, <<WORD, "height", "x", "y", "num">>, <<LABEL, "ss_SIZEOF">> >>)

ExtSprite_i == Structure(0, <<
     <<symbols.ss_SIZEOF, "es_SimpleSprite">>, <<WORD, "es_wordwidth", "es_flags">>,
     <<LABEL, "ExtSprite_SIZEOF">> >>)

TextAttr_i == Structure(0, <<
     <<APTR, "ta_Name">>, <<UWORD, "ta_YSize">>, <<UBYTE, "ta_Style", "ta_Flags">>,
     <<LABEL, "ta_SIZEOF">> >>)

TTextAttr_i == Structure(0, <<
     <<APTR, "tta_Name">>, <<UWORD, "tta_YSize">>, <<UBYTE, "tta_Style", "tta_Flags">>,
     <<APTR, "tta_Tags">>, <<LABEL, "tta_SIZEOF">> >>)

TextFont_i == Structure(symbols.MN_SIZE, <<
     <<UWORD, "tf_YSize">>, <<UBYTE, "tf_Style", "tf_Flags">>,
     <<UWORD, "tf_XSize", "tf_Baseline", "tf_BoldSmear", "tf_Accessors">>,
     <<UBYTE, "tf_LoChar", "tf_HiChar">>, <<APTR, "tf_CharData">>, <<UWORD, "tf_Modulo">>,
     <<APTR, "tf_CharLoc", "tf_CharSpace", "tf_CharKern">>, <<LABEL, "tf_SIZEOF">> >>)

TextFontExtension_i == Structure(0, <<
     <<UWORD, "tfe_MatchWord">>, <<UBYTE, "tfe_Flags0", "tfe_Flags1">>,
     <<APTR, "tfe_BackPtr", "tfe_OrigReplyPort", "tfe_Tags", "tfe_OFontPatchS", "tfe_OFontPatchK">>,
     <<LABEL, "tfe_SIZEOF">> >>)

ColorFontColors_i == Structure(0, <<
     <<UWORD, "cfc_Reserved", "cfc_Count">>, <<APTR, "cfc_ColorTable">>,
     <<LABEL, "cfc_SIZEOF">> >>)

ColorTextFont_i == Structure(symbols.tf_SIZEOF, <<
     <<UWORD, "ctf_Flags">>,
     <<UBYTE, "ctf_Depth", "ctf_FgColor", "ctf_Low", "ctf_High", "ctf_PlanePick", "ctf_PlaneOnOff">>,
     <<APTR, "ctf_ColorFontColors">>, <<8 * 4, "ctf_CharData">>, <<LABEL, "ctf_SIZEOF">> >>)

TextExtent_i == Structure(0, <<
     <<UWORD, "te_Width", "te_Height">>, <<8, "te_Extent">>, <<LABEL, "te_SIZEOF">> >>)

ColorMap_i == Structure(0, <<
     <<UBYTE, "Flags", "Type">>, <<UWORD, "Count">>,
     <<APTR, "ColorTable", "cm_vpe", "LowColorBits">>,
     <<UBYTE, "TransparencyPlane", "SpriteResolution", "SpriteResDefault", "AuxFlags">>,
     <<APTR, "cm_vp", "NormalDisplayInfo", "CoerceDisplayInfo", "cm_batch_items">>,
     <<ULONG, "VPModeID">>, <<APTR, "PalExtra">>,
     <<UWORD, "SpriteBase_Even", "SpriteBase_Odd", "Bp_0_base", "Bp_1_base">>,
     <<LABEL, "cm_SIZEOF">> >>)

PaletteExtra_i == Structure(0, <<
     <<symbols.SS_SIZE, "pe_Semaphore">>,
     <<UWORD, "pe_FirstFree", "pe_NFree", "pe_FirstShared", "pe_NShared">>,
     <<APTR, "pe_RefCnt", "pe_AllocList", "pe_ViewPort">>, <<UWORD, "pe_SharableColors">>,
     <<LABEL, "pe_SIZEOF">> >>)

ViewPort_i == Structure(0, <<
     <<LONG, "Next", "ColorMap", "DspIns", "SprIns", "ClrIns", "UCopIns">>,
     <<WORD, "DWidth", "DHeight", "DxOffset", "DyOffset", "Modes">>,
     <<BYTE, "SpritePriorities", "ExtendedModes">>, <<APTR, "RasInfo">>,
     <<LABEL, "vp_SIZEOF">> >>)

View_i == Structure(0, <<
     <<LONG, "ViewPort", "LOFCprList", "SHFCprList">>,
     <<WORD, "DyOffset", "DxOffset", "Modes">>, <<LABEL, "v_SIZEOF">> >>)

ViewExtra_i == Structure(symbols.XLN_SIZE, <<
     <<APTR, "View", "Monitor">>, <<WORD, "TopLine">>, <<LABEL, "ve_SIZEOF">> >>)

ViewPortExtra_i == Structure(symbols.XLN_SIZE, <<
     <<APTR, "ViewPort">>, <<symbols.ra_SIZEOF, "DisplayClip">>, <<APTR, "VecTable">>,
     <<8, "DriverData">>, <<UWORD, "Flags">>, <<(symbols.tpt_SIZEOF * 2), "Origin">>,
     <<ULONG, "cop1ptr", "cop2ptr">>, <<LABEL, "vpe_SIZEOF">> >>)

collTable_i == Structure(0, << <<LONG, "collPtrs">>, <<LABEL, "cp_SIZEOF">> >>)

RasInfo_i == Structure(0, <<
     <<APTR, "Next">>, <<LONG, "BitMap">>, <<WORD, "RxOffset", "RyOffset">>,
     <<LABEL, "ri_SIZEOF">> >>)

DBufInfo_i == Structure(0, <<
     <<APTR, "dbi_Link1">>, <<ULONG, "dbi_Count1">>, <<symbols.MN_SIZE, "dbi_SafeMessage">>,
     <<APTR, "dbi_UserData1", "dbi_Link2">>, <<ULONG, "dbi_Count2">>,
     <<symbols.MN_SIZE, "dbi_DispMessage">>, <<APTR, "dbi_UserData2">>,
     <<ULONG, "dbi_MatchLong">>, <<APTR, "dbi_CopPtr1", "dbi_CopPtr2", "dbi_CopPtr3">>,
     <<UWORD, "dbi_BeamPos1", "dbi_BeamPos2">>, <<LABEL, "dbi_SIZEOF">> >>)

IOAudio_i == Structure(symbols.IO_SIZE, <<
     <<WORD, "ioa_AllocKey">>, <<APTR, "ioa_Data">>, <<ULONG, "ioa_Length">>,
     <<UWORD, "ioa_Period", "ioa_Volume", "ioa_Cycles">>, <<symbols.MN_SIZE, "ioa_WriteMsg">>,
     <<LABEL, "ioa_SIZEOF">> >>)

BB_i == Structure(0, <<
     <<4, "bb_id">>, <<LONG, "bb_chksum", "bb_dosblock">>, <<LABEL, "BB_ENTRY", "BB_SIZE">> >>)

CDINFO_i == Structure(0, <<
     <<UWORD, "PlaySpeed", "ReadSpeed", "ReadXLSpeed", "SectorSize", "XLECC", "EjectReset">>,
     <<8, "Reserved1">>, <<UWORD, "MaxSpeed", "AudioPrecision", "Status">>, <<8, "Reserved2">>,
     <<LABEL, "CDINFO_SIZE">> >>)

RMSF_i == Structure(0, <<
     <<UBYTE, "Reserved", "Minute", "Second", "Frame">>, <<LABEL, "RMSF_SIZE">> >>)

CDXL_i == Structure(0, <<
     <<symbols.MLN_SIZE, "Node">>, <<APTR, "Buffer">>, <<LONG, "Length", "Actual">>,
     <<APTR, "IntData", "IntCode">>, <<LABEL, "CDXL_SIZE">> >>)

TOCSummary_i == Structure(0, <<
     <<UBYTE, "FirstTrack", "LastTrack">>, <<4, "LeadOut">>, <<LABEL, "TOCSummary_SIZE">> >>)

TOCEntry_i == Structure(0, <<
     <<UBYTE, "CtlAdr", "Track">>, <<4, "Position">>, <<LABEL, "TOCEntry_SIZE">> >>)

QCODE_i == Structure(0, <<
     <<UBYTE, "CtlAdr", "Track", "Index", "Zero">>, <<4, "TrackPosition", "DiskPosition">>,
     <<LABEL, "QCODE_SIZE">> >>)

ClipboardUnitPartial_i == Structure(0, <<
     <<symbols.LN_SIZE, "cu_Node">>, <<ULONG, "cu_UnitNum">> >>)

IOClipReq_i == Structure(0, <<
     <<symbols.MN_SIZE, "io_Message">>, <<APTR, "io_Device", "io_Unit">>,
     <<UWORD, "io_Command">>, <<UBYTE, "io_Flags">>, <<BYTE, "io_Error">>,
     <<ULONG, "io_Actual", "io_Length">>, <<APTR, "io_Data">>, <<ULONG, "io_Offset">>,
     <<LONG, "io_ClipID">>, <<LABEL, "iocr_SIZEOF">> >>)

SatisfyMsg_i == Structure(0, <<
     <<symbols.MN_SIZE, "sm_Msg">>, <<UWORD, "sm_Unit">>, <<LONG, "sm_ClipID">>,
     <<LABEL, "satisfyMsg_SIZEOF">> >>)

ClipHookMsg_i == Structure(0, <<
     <<ULONG, "chm_Type">>, <<LONG, "chm_ChangeCmd", "chm_ClipID">> >>)

KeyMap_i == Structure(0, <<
     <<APTR, "km_LoKeyMapTypes", "km_LoKeyMap", "km_LoCapsable", "km_LoRepeatable", "km_HiKeyMapTypes", "km_HiKeyMap", "km_HiCapsable", "km_HiRepeatable">>,
     <<LABEL, "km_SIZEOF">> >>)

ConUnit_i == Structure(symbols.MP_SIZE, <<
     <<APTR, "cu_Window">>,
     <<WORD, "cu_XCP", "cu_YCP", "cu_XMax", "cu_YMax", "cu_XRSize", "cu_YRSize", "cu_XROrigin", "cu_YROrigin", "cu_XRExtant", "cu_YRExtant", "cu_XMinShrink", "cu_YMinShrink", "cu_XCCP", "cu_YCCP">>,
     <<symbols.km_SIZEOF, "cu_KeyMapStruct">>, <<2 * 80, "cu_TabStops">>,
     <<BYTE, "cu_Mask", "cu_FgPen", "cu_BgPen", "cu_AOLPen", "cu_DrawMode", "cu_Obsolete1">>,
     <<APTR, "cu_Obsolete2">>, <<8, "cu_Minterms">>, <<APTR, "cu_Font">>,
     <<UBYTE, "cu_AlgoStyle", "cu_TxFlags">>,
     <<UWORD, "cu_TxHeight", "cu_TxWidth", "cu_TxBaseline">>, <<WORD, "cu_TxSpacing">>,
     <<(22 + 7) \div 8, "cu_Modes">>, <<(21 + 8) \div 8, "cu_RawEvents">>, <<ALIGNWORD>>,
     <<LABEL, "ConUnit_SIZEOF">> >>)

GamePortTrigger_i == Structure(0, <<
     <<UWORD, "gpt_Keys", "gpt_Timeout", "gpt_XDelta", "gpt_YDelta">>, <<LABEL, "gpt_SIZEOF">> >>)

RigidDiskBlock_i == Structure(0, <<
     <<ULONG, "rdb_ID", "rdb_SummedLongs">>, <<LONG, "rdb_ChkSum">>,
     <<ULONG, "rdb_HostID", "rdb_BlockBytes", "rdb_Flags", "rdb_BadBlockList", "rdb_PartitionList", "rdb_FileSysHeaderList", "rdb_DriveInit">>,
     <<6 * 4, "rdb_Reserved1">>,
     <<ULONG, "rdb_Cylinders", "rdb_Sectors", "rdb_Heads", "rdb_Interleave", "rdb_Park">>,
     <<3 * 4, "rdb_Reserved2">>,
     <<ULONG, "rdb_WritePreComp", "rdb_ReducedWrite", "rdb_StepRate">>,
     <<5 * 4, "rdb_Reserved3">>,
     <<ULONG, "rdb_RDBBlocksLo", "rdb_RDBBlocksHi", "rdb_LoCylinder", "rdb_HiCylinder", "rdb_CylBlocks", "rdb_AutoParkSeconds", "rdb_HighRDSKBlock">>,
     <<1 * 4, "rdb_Reserved4">>, <<8, "rdb_DiskVendor">>, <<16, "rdb_DiskProduct">>,
     <<4, "rdb_DiskRevision">>, <<8, "rdb_ControllerVendor">>, <<16, "rdb_ControllerProduct">>,
     <<4, "rdb_ControllerRevision">>, <<10 * 4, "rdb_DriveInitName">>,
     <<LABEL, "RigidDiskBlock_SIZEOF">> >>)

BadBlockEntry_i == Structure(0, <<
     <<ULONG, "bbe_BadBlock", "bbe_GoodBlock">>, <<LABEL, "BadBlockEntry_SIZEOF">> >>)

BadBlockBlock_i == Structure(0, <<
     <<ULONG, "bbb_ID", "bbb_SummedLongs">>, <<LONG, "bbb_ChkSum">>,
     <<ULONG, "bbb_HostID", "bbb_Next", "bbb_Reserved">>,
     <<61 * symbols.BadBlockEntry_SIZEOF, "bbb_BlockPairs">> >>)

PartitionBlock_i == Structure(0, <<
     <<ULONG, "pb_ID", "pb_SummedLongs">>, <<LONG, "pb_ChkSum">>,
     <<ULONG, "pb_HostID", "pb_Next", "pb_Flags">>, <<2 * 4, "pb_Reserved1">>,
     <<ULONG, "pb_DevFlags">>, <<32, "pb_DriveName">>, <<15 * 4, "pb_Reserved2">>,
     <<17 * 4, "pb_Environment">>, <<15 * 4, "pb_EReserved">>,
     <<LABEL, "PartitionBlock_SIZEOF">> >>)

FileSysHeaderBlock_i == Structure(0, <<
     <<ULONG, "fhb_ID", "fhb_SummedLongs">>, <<LONG, "fhb_ChkSum">>,
     <<ULONG, "fhb_HostID", "fhb_Next", "fhb_Flags">>, <<2 * 4, "fhb_Reserved1">>,
     <<ULONG, "fhb_DosType", "fhb_Version", "fhb_PatchFlags", "fhb_Type", "fhb_Task", "fhb_Lock", "fhb_Handler", "fhb_StackSize">>,
     <<LONG, "fhb_Priority", "fhb_Startup", "fhb_SegListBlocks", "fhb_GlobalVec">>,
     <<23 * 4, "fhb_Reserved2">>, <<21 * 4, "fhb_FileSysName">>,
     <<LABEL, "FileSysHeader_SIZEOF">> >>)

LoadSegBlock_i == Structure(0, <<
     <<ULONG, "lsb_ID", "lsb_SummedLongs">>, <<LONG, "lsb_ChkSum">>,
     <<ULONG, "lsb_HostID", "lsb_Next">>, <<123 * 4, "lsb_LoadData">> >>)

IEPointerPixel_i == Structure(0, <<
     <<APTR, "iepp_Screen">>, <<LABEL, "iepp_Position">>,
     <<WORD, "iepp_PositionX", "iepp_PositionY">>, <<LABEL, "IEPointerPixel_SIZEOF">> >>)

IEPointerTablet_i == Structure(0, <<
     <<LABEL, "iept_Range">>, <<UWORD, "iept_RangeX", "iept_RangeY">>, <<LABEL, "iept_Value">>,
     <<UWORD, "iept_ValueX", "iept_ValueY">>, <<WORD, "iept_Pressure">>,
     <<LABEL, "IEPointerTablet_SIZEOF">> >>)

IENewTablet_i == Structure(0, <<
     <<APTR, "ient_CallBack">>,
     <<UWORD, "ient_ScaledX", "ient_ScaledY", "ient_ScaledXFraction", "ient_ScaledYFraction">>,
     <<ULONG, "ient_TabletX", "ient_TabletY", "ient_RangeX", "ient_RangeY">>,
     <<APTR, "ient_TagList">>, <<LABEL, "IENewTablet_SIZEOF">> >>)

TIMEVAL_i == Structure(0, << <<ULONG, "tv_secs", "tv_micro">>, <<LABEL, "TV_SIZE">> >>)

InputEvent_i == Structure(0, <<
     <<APTR, "ie_NextEvent">>, <<UBYTE, "ie_Class", "ie_SubClass">>,
     <<UWORD, "ie_Code", "ie_Qualifier">>, <<LABEL, "ie_EventAddress", "ie_x">>,
     <<UBYTE, "ie_prev1DownCode", "ie_prev1DownQual">>, <<LABEL, "ie_y">>,
     <<UBYTE, "ie_prev2DownCode", "ie_prev2DownQual">>, <<symbols.TV_SIZE, "ie_TimeStamp">>,
     <<LABEL, "ie_SIZEOF">> >>)

KeyMapNode_i == Structure(0, <<
     <<symbols.LN_SIZE, "kn_Node">>, <<symbols.km_SIZEOF, "kn_KeyMap">>,
     <<LABEL, "kn_SIZEOF">> >>)

KeyMapResource_i == Structure(0, <<
     <<symbols.LN_SIZE, "kr_Node">>, <<symbols.LH_SIZE, "kr_List">>, <<LABEL, "kr_SIZEOF">> >>)

NDI_i == Structure(symbols.IOSTD_SIZE, <<
     <<UWORD, "rate", "pitch", "mode", "sex">>, <<APTR, "ch_masks">>,
     <<UWORD, "nm_masks", "volume", "sampfreq">>,
     <<UBYTE, "mouths", "chanmask", "numchan", "flags", "F0enthusiasm">>,
     <<BYTE, "F0perturb", "F1adj", "F2adj", "F3adj", "A1adj", "A2adj", "A3adj">>,
     <<UBYTE, "articulate", "centralize">>, <<APTR, "centphon">>,
     <<BYTE, "AVbias", "AFbias", "priority", "pad1">>, <<LABEL, "NDI_SIZE">> >>)

MRB_i == Structure(symbols.NDI_SIZE, <<
     <<UBYTE, "width", "height", "shape", "sync">>, <<LABEL, "MRB_SIZE">> >>)

PTERMARRAY_i == Structure(0, <<
     <<ULONG, "PTermArray0", "PTermArray1">>, <<LABEL, "PTERMARRAY_SIZE">> >>)

IOEXTPAR_i == Structure(symbols.IOSTD_SIZE, <<
     <<ULONG, "io_PExtFlags">>, <<UBYTE, "io_Status", "io_ParFlags">>,
     <<symbols.PTERMARRAY_SIZE, "io_PTermArray">>, <<LABEL, "IOEXTPar_SIZE">> >>)

IOPrtCmdReq_i == Structure(symbols.IO_SIZE, <<
     <<UWORD, "io_PrtCommand">>, <<UBYTE, "io_Parm0", "io_Parm1", "io_Parm2", "io_Parm3">>,
     <<LABEL, "iopcr_SIZEOF">> >>)

IODRPReq_i == Structure(symbols.IO_SIZE, <<
     <<APTR, "io_RastPort", "io_ColorMap">>, <<ULONG, "io_Modes">>,
     <<UWORD, "io_SrcX", "io_SrcY", "io_SrcWidth", "io_SrcHeight">>,
     <<LONG, "io_DestCols", "io_DestRows">>, <<UWORD, "io_Special">>,
     <<LABEL, "iodrpr_SIZEOF">> >>)

IODRPTagsReq_i == Structure(symbols.IO_SIZE, <<
     <<APTR, "io_RastPort", "io_ColorMap">>, <<ULONG, "io_Modes">>,
     <<UWORD, "io_SrcX", "io_SrcY", "io_SrcWidth", "io_SrcHeight">>,
     <<LONG, "io_DestCols", "io_DestRows">>, <<UWORD, "io_Special">>, <<APTR, "io_TagList">>,
     <<LABEL, "iodrpr_SIZEOF">> >>)

DRPSourceMsg_i == Structure(0, <<
     <<LONG, "x", "y", "width", "height">>, <<APTR, "buf">>, <<LABEL, "drpsm_SIZEOF">> >>)

IOPrtPrefsReq_i == Structure(symbols.IO_SIZE, <<
     <<APTR, "io_TagList">>, <<LABEL, "ioppr_SIZEOF">> >>)

IOPrtErrReq_i == Structure(symbols.IO_SIZE, <<
     <<APTR, "io_Hook">>, <<LABEL, "ioper_SIZEOF">> >>)

PrtErrMsg_i == Structure(0, <<
     <<ULONG, "pe_Version", "pe_ErrorLevel">>,
     <<APTR, "pe_Window", "pe_ES", "pe_IDCMP", "pe_ArgList">>, <<LABEL, "pem_SIZEOF">> >>)

IOPrefsReq_i == Structure(symbols.IO_SIZE, <<
     <<APTR, "io_TxtPrefs", "io_UnitPrefs", "io_DevUnitPrefs", "io_GfxPrefs">>,
     <<LABEL, "iopr_SIZEOF">> >>)

DeviceData_i == Structure(symbols.LIB_SIZE, <<
     <<APTR, "dd_Segment", "dd_ExecBase", "dd_CmdVectors", "dd_CmdBytes">>,
     <<UWORD, "dd_NumCommands">>, <<LABEL, "dd_SIZEOF">> >>)

TERMARRAY_i == Structure(0, <<
     <<ULONG, "TermArray0", "TermArray1">>, <<LABEL, "TERMARRAY_SIZE">> >>)

IOEXTSER_i == Structure(symbols.IOSTD_SIZE, <<
     <<ULONG, "io_CtlChar", "io_RBufLen", "io_ExtFlags", "io_Baud", "io_BrkTime">>,
     <<symbols.TERMARRAY_SIZE, "io_TermArray">>,
     <<UBYTE, "io_ReadLen", "io_WriteLen", "io_StopBits", "io_SerFlags">>,
     <<UWORD, "io_Status">>, <<LABEL, "IOEXTSER_SIZE">> >>)

TIMEREQUEST_i == Structure(symbols.IO_SIZE, <<
     <<symbols.TV_SIZE, "tr_time">>, <<LABEL, "IOTV_SIZE">> >>)

PrinterData_i == Structure(symbols.dd_SIZEOF, <<
     <<symbols.MP_SIZE, "pd_Unit">>, <<BPTR, "pd_PrinterSegment">>,
     <<UWORD, "pd_PrinterType">>,
     <<APTR, "pd_SegmentData", "pd_PrintBuf", "pd_PWrite", "pd_PBothReady">>,
     <<Larger(symbols.IOEXTPar_SIZE, symbols.IOEXTSER_SIZE), "pd_ior0", "pd_ior1">>,
     <<symbols.IOTV_SIZE, "pd_TIOR">>, <<symbols.MP_SIZE, "pd_IORPort">>,
     <<symbols.TC_SIZE, "pd_TC">>, <<2048, "pd_OldStk">>, <<UBYTE, "pd_Flags", "pd_pad">>,
     <<symbols.pf_SIZEOF, "pd_Preferences">>, <<UBYTE, "pd_PWaitEnabled", "pd_Flags1">>,
     <<4096, "pd_Stk">>, <<APTR, "pd_PUnit", "pd_PRead", "pd_CallErrHook">>,
     <<ULONG, "pd_UnitNumber">>, <<APTR, "pd_DriverName", "pd_PQuery">>,
     <<LABEL, "pd_SIZEOF">> >>)

PrinterExtendedData_i == Structure(0, <<
     <<APTR, "ped_PrinterName", "ped_Init", "ped_Expunge", "ped_Open", "ped_Close">>,
     <<UBYTE, "ped_PrinterClass", "ped_ColorClass", "ped_MaxColumns", "ped_NumCharSets">>,
     <<UWORD, "ped_NumRows">>, <<ULONG, "ped_MaxXDots", "ped_MaxYDots">>,
     <<UWORD, "ped_XDotsInch", "ped_YDotsInch">>,
     <<APTR, "ped_Commands", "ped_DoSpecial", "ped_Render">>, <<LONG, "ped_TimeoutSecs">>,
     <<APTR, "ped_8BitChars">>, <<LONG, "ped_PrintMode">>,
     <<APTR, "ped_ConvFunc", "ped_TagList", "ped_DoPreferences", "ped_CallErrHook">>,
     <<LABEL, "ped_SIZEOF">> >>)

PrinterSegment_i == Structure(0, <<
     <<ULONG, "ps_NextSegment", "ps_runAlert">>, <<UWORD, "ps_Version", "ps_Revision">>,
     <<LABEL, "ps_PED">> >>)

PrtDriverPreferences_i == Structure(0, <<
     <<UWORD, "pdp_Version">>, <<32, "pdp_PrinterID">>, <<UBYTE, "pdp_PrefName">>,
     <<ULONG, "pdp_Length">>, <<LABEL, "pdp_SIZEOF">> >>)

colorEntry_i == Structure(0, <<
     <<LABEL, "colorLong", "colorSByte">>, <<4, "colorByte">>, <<LABEL, "ce_SIZEOF">> >>)

PrtInfo_i == Structure(0, <<
     <<APTR, "pi_render", "pi_rp", "pi_temprp", "pi_RowBuf", "pi_HamBuf", "pi_ColorMap", "pi_ColorInt", "pi_HamInt", "pi_Dest1Int", "pi_Dest2Int", "pi_ScaleX", "pi_ScaleXAlt", "pi_dmatrix", "pi_TopBuf", "pi_BotBuf">>,
     <<UWORD, "pi_RowBufSize", "pi_HamBufSize", "pi_ColorMapSize", "pi_ColorIntSize", "pi_HamIntSize", "pi_Dest1IntSize", "pi_Dest2IntSize", "pi_ScaleXSize", "pi_ScaleXAltSize", "pi_PrefsFlags">>,
     <<ULONG, "pi_special">>, <<UWORD, "pi_xstart", "pi_ystart", "pi_width", "pi_height">>,
     <<ULONG, "pi_pc", "pi_pr">>,
     <<UWORD, "pi_ymult", "pi_ymod", "pi_ety", "pi_xpos", "pi_threshold", "pi_tempwidth", "pi_flags">>,
     <<APTR, "pi_ReduceBuf">>, <<UWORD, "pi_ReduceBufSize">>,
     <<APTR, "pi_SourceHook", "pi_InvertHookBuf">>, <<LABEL, "prtinfo_SIZEOF">> >>)

SCSICmd_i == Structure(0, <<
     <<APTR, "scsi_Data">>, <<ULONG, "scsi_Length", "scsi_Actual">>, <<APTR, "scsi_Command">>,
     <<UWORD, "scsi_CmdLength", "scsi_CmdActual">>, <<UBYTE, "scsi_Flags", "scsi_Status">>,
     <<APTR, "scsi_SenseData">>, <<UWORD, "scsi_SenseLength", "scsi_SenseActual">>,
     <<LABEL, "scsi_SIZEOF">> >>)

ECLOCKVAL_i == Structure(0, << <<ULONG, "ev_hi", "ev_lo">>, <<LABEL, "EV_SIZE">> >>)

IOEXTTD_i == Structure(symbols.IOSTD_SIZE, <<
     <<ULONG, "iotd_Count", "iotd_SecLabel">>, <<LABEL, "IOTD_SIZE">> >>)

DriveGeometry_i == Structure(0, <<
     <<ULONG, "dg_SectorSize", "dg_TotalSectors", "dg_Cylinders", "dg_CylSectors", "dg_Heads", "dg_TrackSectors", "dg_BufMemType">>,
     <<UBYTE, "dg_DeviceType", "dg_Flags">>, <<UWORD, "dg_Reserved">>, <<LABEL, "dg_SIZEOF">> >>)

TDU_PUBLICUNIT_i == Structure(symbols.UNIT_SIZE, <<
     <<UWORD, "tdu_Comp01Track", "tdu_Comp10Track", "tdu_Comp11Track">>,
     <<ULONG, "tdu_StepDelay", "tdu_SettleDelay">>, <<UBYTE, "tdu_RetryCnt", "tdu_PubFlags">>,
     <<UWORD, "tdu_CurrTrk">>, <<ULONG, "tdu_CalibrateDelay", "tdu_Counter">>,
     <<LABEL, "TDU_PUBLICUNITSIZE">> >>)

CardHandle_i == Structure(0, <<
     <<symbols.LN_SIZE, "cah_CardNode">>,
     <<APTR, "cah_CardRemoved", "cah_CardInserted", "cah_CardStatus">>,
     <<UBYTE, "cah_CardFlags">>, <<ALIGNWORD>>, <<LABEL, "CardHandle_SIZEOF">> >>)

DeviceTData_i == Structure(0, <<
     <<ULONG, "dtd_DTsize", "dtd_DTspeed">>, <<UBYTE, "dtd_DTtype", "dtd_DTflags">>,
     <<ALIGNWORD>>, <<LABEL, "DeviceTData_SIZEOF">> >>)

CardMemoryMap_i == Structure(0, <<
     <<APTR, "cmm_CommonMemory", "cmm_AttributeMemory", "cmm_IOMemory">>,
     <<ULONG, "cmm_CommonMemSize", "cmm_AttributeMemSize", "cmm_IOMemSize">>,
     <<LABEL, "CardMemoryMap_SIZEOF">> >>)

TP_AmigaXIP_i == Structure(0, <<
     <<2, "tp_AmigaXIP">>, <<4, "TP_XIPLOC">>, <<1, "TP_XIPFLAGS", "TP_XIPRESRV">>,
     <<LABEL, "TP_AmigaXIP_SIZEOF">> >>)

DISCRESOURCEUNIT_i == Structure(symbols.MN_SIZE, <<
     <<symbols.IS_SIZE, "dru_DiscBlock", "dru_DiscSync", "dru_Index">>, <<LABEL, "DRU_SIZE">> >>)

DISCRESOURCE_i == Structure(symbols.LIB_SIZE, <<
     <<APTR, "dr_Current">>, <<UBYTE, "dr_Flags", "dr_pad">>,
     <<APTR, "dr_SysLib", "dr_CiaResource">>, <<4 * 4, "dr_UnitID">>,
     <<symbols.LH_SIZE, "dr_Waiting">>,
     <<symbols.IS_SIZE, "dr_DiscBlock", "dr_DiscSync", "dr_Index">>, <<APTR, "dr_CurrTask">>,
     <<LABEL, "DR_SIZE">> >>)

FileSysResource_i == Structure(symbols.LN_SIZE, <<
     <<CPTR, "fsr_Creator">>, <<symbols.LH_SIZE, "fsr_FileSysEntries">>,
     <<LABEL, "FileSysResource_SIZEOF">> >>)

FileSysEntry_i == Structure(symbols.LN_SIZE, <<
     <<ULONG, "fse_DosType", "fse_Version", "fse_PatchFlags", "fse_Type">>,
     <<CPTR, "fse_Task">>, <<BPTR, "fse_Lock">>, <<BSTR, "fse_Handler">>,
     <<ULONG, "fse_StackSize">>, <<LONG, "fse_Priority">>,
     <<BPTR, "fse_Startup", "fse_SegList", "fse_GlobalVec">> >>)

resources_MathIEEEResourceResource_i == Structure(0, <<
     <<symbols.LN_SIZE, "MathIEEEResource_Node">>, <<USHORT, "MathIEEEResource_Flags">>,
     <<APTR, "MathIEEEResource_BaseAddr", "MathIEEEResource_DblBasInit", "MathIEEEResource_DblTransInit", "MathIEEEResource_SglBasInit", "MathIEEEResource_SglTransInit", "MathIEEEResource_ExtBasInit", "MathIEEEResource_ExtTransInit">>,
     <<LABEL, "MathIEEEResourceResource_SIZE">> >>)

DateStamp_i == Structure(0, <<
     <<LONG, "ds_Days", "ds_Minute", "ds_Tick">>, <<LABEL, "ds_SIZEOF">> >>)

DateTime_i == Structure(0, <<
     <<symbols.ds_SIZEOF, "dat_Stamp">>, <<UBYTE, "dat_Format", "dat_Flags">>,
     <<CPTR, "dat_StrDay", "dat_StrDate", "dat_StrTime">>, <<LABEL, "dat_SIZEOF">> >>)

FileInfoBlock_i == Structure(0, <<
     <<LONG, "fib_DiskKey", "fib_DirEntryType">>, <<108, "fib_FileName">>,
     <<LONG, "fib_Protection", "fib_EntryType", "fib_Size", "fib_NumBlocks">>,
     <<symbols.ds_SIZEOF, "fib_Date">>, <<80, "fib_Comment">>,
     <<UWORD, "fib_OwnerUID", "fib_OwnerGID">>, <<32, "fib_Reserved">>,
     <<LABEL, "fib_SIZEOF">> >>)

InfoData_i == Structure(0, <<
     <<LONG, "id_NumSoftErrors", "id_UnitNumber", "id_DiskState", "id_NumBlocks", "id_NumBlocksUsed", "id_BytesPerBlock", "id_DiskType">>,
     <<BPTR, "id_VolumeNode">>, <<LONG, "id_InUse">>, <<LABEL, "id_SIZEOF">> >>)

AnchorPath_i == Structure(0, <<
     <<LABEL, "ap_First">>, <<CPTR, "ap_Base">>, <<LABEL, "ap_Current">>, <<CPTR, "ap_Last">>,
     <<LONG, "ap_BreakBits", "ap_FoundBreak">>, <<LABEL, "ap_Length">>,
     <<BYTE, "ap_Flags", "ap_Reserved">>, <<WORD, "ap_Strlen">>,
     <<symbols.fib_SIZEOF, "ap_Info">>, <<LABEL, "ap_Buf", "ap_SIZEOF">> >>)

AChain_i == Structure(0, <<
     <<CPTR, "an_Child", "an_Parent">>, <<LONG, "an_Lock">>, <<symbols.fib_SIZEOF, "an_Info">>,
     <<BYTE, "an_Flags">>, <<LABEL, "an_String", "an_SIZEOF">> >>)

Process_i == Structure(0, <<
     <<symbols.TC_SIZE, "pr_Task">>, <<symbols.MP_SIZE, "pr_MsgPort">>, <<WORD, "pr_Pad">>,
     <<BPTR, "pr_SegList">>, <<LONG, "pr_StackSize">>, <<APTR, "pr_GlobVec">>,
     <<LONG, "pr_TaskNum">>, <<BPTR, "pr_StackBase">>, <<LONG, "pr_Result2">>,
     <<BPTR, "pr_CurrentDir", "pr_CIS", "pr_COS">>,
     <<APTR, "pr_ConsoleTask", "pr_FileSystemTask">>, <<BPTR, "pr_CLI">>,
     <<APTR, "pr_ReturnAddr", "pr_PktWait", "pr_WindowPtr">>, <<BPTR, "pr_HomeDir">>,
     <<LONG, "pr_Flags">>, <<APTR, "pr_ExitCode">>, <<LONG, "pr_ExitData">>,
     <<APTR, "pr_Arguments">>, <<symbols.MLH_SIZE, "pr_LocalVars">>,
     <<APTR, "pr_ShellPrivate">>, <<BPTR, "pr_CES">>, <<LABEL, "pr_SIZEOF">> >>)

FileHandle_i == Structure(0, <<
     <<APTR, "fh_Link", "fh_Port", "fh_Type">>,
     <<LONG, "fh_Buf", "fh_Pos", "fh_End", "fh_Funcs", "fh_Func2", "fh_Func3", "fh_Args", "fh_Arg2">>,
     <<LABEL, "fh_SIZEOF">> >>)

DosPacket_i == Structure(0, <<
     <<APTR, "dp_Link", "dp_Port">>,
     <<LONG, "dp_Type", "dp_Res1", "dp_Res2", "dp_Arg1", "dp_Arg2", "dp_Arg3", "dp_Arg4", "dp_Arg5", "dp_Arg6", "dp_Arg7">>,
     <<LABEL, "dp_SIZEOF">> >>)

StandardPacket_i == Structure(0, <<
     <<symbols.MN_SIZE, "sp_Msg">>, <<symbols.dp_SIZEOF, "sp_Pkt">>, <<LABEL, "sp_SIZEOF">> >>)

ErrorString_i == Structure(0, <<
     <<APTR, "estr_Nums", "estr_Strings">>, <<LABEL, "ErrorString_SIZEOF">> >>)

DosLibrary_i == Structure(0, <<
     <<symbols.LIB_SIZE, "dl_lib">>, <<APTR, "dl_Root", "dl_GV">>,
     <<LONG, "dl_A2", "dl_A5", "dl_A6">>,
     <<APTR, "dl_Errors", "dl_TimeReq", "dl_UtilityBase", "dl_IntuitionBase">>,
     <<LABEL, "dl_SIZEOF">> >>)

RootNode_i == Structure(0, <<
     <<BPTR, "rn_TaskArray", "rn_ConsoleSegment">>, <<symbols.ds_SIZEOF, "rn_Time">>,
     <<LONG, "rn_RestartSeg">>, <<BPTR, "rn_Info", "rn_FileHandlerSegment">>,
     <<symbols.MLH_SIZE, "rn_CliList">>, <<APTR, "rn_BootProc">>, <<BPTR, "rn_ShellSegment">>,
     <<LONG, "rn_Flags">>, <<LABEL, "rn_SIZEOF">> >>)

CliProcList_i == Structure(0, <<
     <<symbols.MLN_SIZE, "cpl_Node">>, <<LONG, "cpl_First">>, <<APTR, "cpl_Array">>,
     <<LABEL, "cpl_SIZEOF">> >>)

DosInfo_i == Structure(0, <<
     <<BPTR, "di_McName", "di_DevInfo", "di_Devices", "di_Handlers">>, <<APTR, "di_NetHand">>,
     <<symbols.SS_SIZE, "di_DevLock", "di_EntryLock", "di_DeleteLock">>,
     <<LABEL, "di_SIZEOF">> >>)

Segment_i == Structure(0, <<
     <<BPTR, "seg_Next">>, <<LONG, "seg_UC">>, <<BPTR, "seg_Seg">>, <<4, "seg_Name">>,
     <<LABEL, "seg_SIZEOF">> >>)

CommandLineInterface_i == Structure(0, <<
     <<LONG, "cli_Result2">>, <<BSTR, "cli_SetName">>, <<BPTR, "cli_CommandDir">>,
     <<LONG, "cli_ReturnCode">>, <<BSTR, "cli_CommandName">>, <<LONG, "cli_FailLevel">>,
     <<BSTR, "cli_Prompt">>, <<BPTR, "cli_StandardInput", "cli_CurrentInput">>,
     <<BSTR, "cli_CommandFile">>, <<LONG, "cli_Interactive", "cli_Background">>,
     <<BPTR, "cli_CurrentOutput">>, <<LONG, "cli_DefaultStack">>,
     <<BPTR, "cli_StandardOutput", "cli_Module">>, <<LABEL, "cli_SIZEOF">> >>)

DevList_i == Structure(0, <<
     <<BPTR, "dl_Next">>, <<LONG, "dl_Type">>, <<APTR, "dl_Task">>, <<BPTR, "dl_Lock">>,
     <<symbols.ds_SIZEOF, "dl_VolumeDate">>, <<BPTR, "dl_LockList">>,
     <<LONG, "dl_DiskType", "dl_unused">>, <<BSTR, "dl_Name">>, <<LABEL, "DevList_SIZEOF">> >>)

DevInfo_i == Structure(0, <<
     <<BPTR, "dvi_Next">>, <<LONG, "dvi_Type">>, <<APTR, "dvi_Task">>, <<BPTR, "dvi_Lock">>,
     <<BSTR, "dvi_Handler">>, <<LONG, "dvi_StackSize", "dvi_Priority", "dvi_Startup">>,
     <<BPTR, "dvi_SegList", "dvi_GlobVec">>, <<BSTR, "dvi_Name">>, <<LABEL, "dvi_SIZEOF">> >>)

DosList_i == Structure(0, <<
     <<BPTR, "dol_Next">>, <<LONG, "dol_Type">>, <<APTR, "dol_Task">>, <<BPTR, "dol_Lock">>,
     <<0, "dol_VolumeDate", "dol_AssignName">>, <<BSTR, "dol_handler">>, <<0, "dol_List">>,
     <<LONG, "dol_StackSize", "dol_Priority">>, <<0, "dol_LockList">>,
     <<ULONG, "dol_Startup">>, <<0, "dol_DiskType">>, <<BPTR, "dol_SegList", "dol_GlobVec">>,
     <<BSTR, "dol_Name">>, <<LABEL, "DosList_SIZEOF">> >>)

DevProc_i == Structure(0, <<
     <<APTR, "dvp_Port">>, <<BPTR, "dvp_Lock">>, <<ULONG, "dvp_Flags">>,
     <<APTR, "dvp_DevNode">>, <<LABEL, "dvp_SIZEOF">> >>)

FileLock_i == Structure(0, <<
     <<BPTR, "fl_Link">>, <<LONG, "fl_Key", "fl_Access">>, <<APTR, "fl_Task">>,
     <<BPTR, "fl_Volume">>, <<LABEL, "fl_SIZEOF">> >>)

ExAllData_i == Structure(0, <<
     <<APTR, "ed_Next", "ed_Name">>, <<LONG, "ed_Type">>,
     <<ULONG, "ed_Size", "ed_Prot", "ed_Days", "ed_Mins", "ed_Ticks">>, <<APTR, "ed_Comment">>,
     <<UWORD, "ed_OwnerUID", "ed_OwnerGID">>, <<LABEL, "ed_Strings", "ExAllData_SIZEOF">> >>)

ExAllControl_i == Structure(0, <<
     <<ULONG, "eac_Entries", "eac_LastKey">>, <<APTR, "eac_MatchString", "eac_MatchFunc">>,
     <<LABEL, "ExAllControl_SIZEOF">> >>)

DosEnvec_i == Structure(0, <<
     <<ULONG, "de_TableSize", "de_SizeBlock", "de_SecOrg", "de_Surfaces", "de_SectorPerBlock", "de_BlocksPerTrack", "de_Reserved", "de_PreAlloc", "de_Interleave", "de_LowCyl", "de_HighCyl", "de_NumBuffers", "de_BufMemType", "de_MaxTransfer", "de_Mask">>,
     <<LONG, "de_BootPri">>, <<ULONG, "de_DosType", "de_Baud", "de_Control", "de_BootBlocks">>,
     <<LABEL, "DosEnvec_SIZEOF">> >>)

FileSysStartupMsg_i == Structure(0, <<
     <<ULONG, "fssm_Unit">>, <<BSTR, "fssm_Device">>, <<BPTR, "fssm_Environ">>,
     <<ULONG, "fssm_Flags">>, <<LABEL, "FileSysStartupMsg_SIZEOF">> >>)

DeviceNode_i == Structure(0, <<
     <<BPTR, "dn_Next">>, <<ULONG, "dn_Type">>, <<CPTR, "dn_Task">>, <<BPTR, "dn_Lock">>,
     <<BSTR, "dn_Handler">>, <<ULONG, "dn_StackSize">>, <<LONG, "dn_Priority">>,
     <<BPTR, "dn_Startup", "dn_SegList", "dn_GlobalVec">>, <<BSTR, "dn_Name">>,
     <<LABEL, "DeviceNode_SIZEOF">> >>)

NotifyMessage_i == Structure(0, <<
     <<symbols.MN_SIZE, "nm_ExecMessage">>, <<ULONG, "nm_Class">>, <<UWORD, "nm_Code">>,
     <<APTR, "nm_NReq">>, <<ULONG, "nm_DoNotTouch", "nm_DoNotTouch2">>,
     <<LABEL, "NotifyMessage_SIZEOF">> >>)

NotifyRequest_i == Structure(0, <<
     <<CPTR, "nr_Name", "nr_FullName">>, <<ULONG, "nr_UserData", "nr_Flags">>,
     <<APTR, "nr_Port">>, <<UBYTE, "nr_SignalNum">>, <<3, "nr_pad">>, <<4 * 4, "nr_Reserved">>,
     <<ULONG, "nr_MsgCount">>, <<APTR, "nr_Handler">>, <<LABEL, "NotifyRequest_SIZEOF">> >>)

CSource_i == Structure(0, <<
     <<APTR, "CS_Buffer">>, <<LONG, "CS_Length", "CS_CurChr">>, <<LABEL, "CS_SIZEOF">> >>)

RDArgs_i == Structure(0, <<
     <<symbols.CS_SIZEOF, "RDA_Source">>, <<APTR, "RDA_DAList">>,
     <<LONG, "RDA_Buffer", "RDA_BufSiz">>, <<APTR, "RDA_ExtHelp">>, <<LONG, "RDA_Flags">>,
     <<LABEL, "RDA_SIZEOF">> >>)

RecordLock_i == Structure(0, <<
     <<BPTR, "rec_FH">>, <<ULONG, "rec_Offset", "rec_Length", "rec_Mode">>,
     <<LABEL, "RecordLock_SIZEOF">> >>)

LocalVar_i == Structure(0, <<
     <<symbols.LN_SIZE, "lv_Node">>, <<UWORD, "lv_Flags">>, <<APTR, "lv_Value">>,
     <<ULONG, "lv_Len">>, <<LABEL, "LocalVar_SIZEOF">> >>)
=============================================================================
