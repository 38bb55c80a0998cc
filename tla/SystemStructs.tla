--------------------------- MODULE SystemStructs ----------------------------
(***************************************************************************)
(* The structures of SystemIncludes as the C headers declare them, when    *)
(* the program defines none of the macros that some members depend on.     *)
(***************************************************************************)
EXTENDS Layouts

Node_h == Struct(<<
     <<Ptr, "ln_Succ", "ln_Pred">>, <<Byte, "ln_Type", "ln_Pri">>, <<Ptr, "ln_Name">> >>)

List_h == Struct(<<
     <<Ptr, "lh_Head", "lh_Tail", "lh_TailPred">>, <<Byte, "lh_Type", "l_pad">> >>)

MsgPort_h == Struct(<<
     <<tags.Node, "mp_Node">>, <<Byte, "mp_Flags", "mp_SigBit">>, <<Ptr, "mp_SigTask">>,
     <<tags.List, "mp_MsgList">> >>)

Unit_h == Struct(<<
     <<tags.MsgPort, "unit_MsgPort">>, <<Byte, "unit_flags", "unit_pad">>,
     <<Word, "unit_OpenCnt">> >>)

Library_h == Struct(<<
     <<tags.Node, "lib_Node">>, <<Byte, "lib_Flags", "lib_pad">>,
     <<Word, "lib_NegSize", "lib_PosSize", "lib_Version", "lib_Revision">>,
     <<Ptr, "lib_IdString">>, <<Long, "lib_Sum">>, <<Word, "lib_OpenCnt">> >>)

IntVector_h == Struct(<< <<Ptr, "iv_Data", "iv_Code", "iv_Node">> >>)

SoftIntList_h == Struct(<< <<tags.List, "sh_List">>, <<Word, "sh_Pad">> >>)

MinList_h == Struct(<< <<Ptr, "mlh_Head", "mlh_Tail", "mlh_TailPred">> >>)

ExecBase_h == Struct(<<
     <<tags.Library, "LibNode">>, <<Word, "SoftVer", "LowMemChkSum">>, <<Long, "ChkBase">>,
     <<Ptr, "ColdCapture", "CoolCapture", "WarmCapture", "SysStkUpper", "SysStkLower">>,
     <<Long, "MaxLocMem">>, <<Ptr, "DebugEntry", "DebugData", "AlertData", "MaxExtMem">>,
     <<Word, "ChkSum">>, <<Array(tags.IntVector, 16), "IntVects">>, <<Ptr, "ThisTask">>,
     <<Long, "IdleCount", "DispCount">>, <<Word, "Quantum", "Elapsed", "SysFlags">>,
     <<Byte, "IDNestCnt", "TDNestCnt">>, <<Word, "AttnFlags", "AttnResched">>,
     <<Ptr, "ResModules", "TaskTrapCode", "TaskExceptCode", "TaskExitCode">>,
     <<Long, "TaskSigAlloc">>, <<Word, "TaskTrapAlloc">>,
     <<tags.List, "MemList", "ResourceList", "DeviceList", "IntrList", "LibList", "PortList", "TaskReady", "TaskWait">>,
     <<Array(tags.SoftIntList, 5), "SoftInts">>, <<Array(Long, 4), "LastAlert">>,
     <<Byte, "VBlankFrequency", "PowerSupplyFrequency">>, <<tags.List, "SemaphoreList">>,
     <<Ptr, "KickMemPtr", "KickTagPtr", "KickCheckSum">>, <<Word, "ex_Pad0">>,
     <<Long, "ex_LaunchPoint">>, <<Ptr, "ex_RamLibPrivate">>,
     <<Long, "ex_EClockFrequency", "ex_CacheControl", "ex_TaskID">>,
     <<Array(Long, 5), "ex_Reserved1">>, <<Ptr, "ex_MMULock">>,
     <<Array(Long, 3), "ex_Reserved2">>, <<tags.MinList, "ex_MemHandlers">>,
     <<Ptr, "ex_MemHandler">> >>)

Interrupt_h == Struct(<< <<tags.Node, "is_Node">>, <<Ptr, "is_Data", "is_Code">> >>)

Message_h == Struct(<<
     <<tags.Node, "mn_Node">>, <<Ptr, "mn_ReplyPort">>, <<Word, "mn_Length">> >>)

IOStdReq_h == Struct(<<
     <<tags.Message, "io_Message">>, <<Ptr, "io_Device", "io_Unit">>, <<Word, "io_Command">>,
     <<Byte, "io_Flags", "io_Error">>, <<Long, "io_Actual", "io_Length">>, <<Ptr, "io_Data">>,
     <<Long, "io_Offset">> >>)

MemEntry_h == Struct(<<
     <<Inner(Union(<<<<Long, "meu_Reqs">>, <<Ptr, "meu_Addr">>>>)), "me_Un">>,
     <<Long, "me_Length">> >>)

MemList_h == Struct(<<
     <<tags.Node, "ml_Node">>, <<Word, "ml_NumEntries">>, <<tags.MemEntry, "ml_ME">> >>)

MemHandlerData_h == Struct(<<
     <<Long, "memh_RequestSize", "memh_RequestFlags", "memh_Flags">> >>)

MemHeader_h == Struct(<<
     <<tags.Node, "mh_Node">>, <<Word, "mh_Attributes">>,
     <<Ptr, "mh_First", "mh_Lower", "mh_Upper">>, <<Long, "mh_Free">> >>)

MemChunk_h == Struct(<< <<Ptr, "mc_Next">>, <<Long, "mc_Bytes">> >>)

MinNode_h == Struct(<< <<Ptr, "mln_Succ", "mln_Pred">> >>)

Resident_h == Struct(<<
     <<Word, "rt_MatchWord">>, <<Ptr, "rt_MatchTag", "rt_EndSkip">>,
     <<Byte, "rt_Flags", "rt_Version", "rt_Type", "rt_Pri">>,
     <<Ptr, "rt_Name", "rt_IdString", "rt_Init">> >>)

SemaphoreRequest_h == Struct(<< <<tags.MinNode, "sr_Link">>, <<Ptr, "sr_Waiter">> >>)

SignalSemaphore_h == Struct(<<
     <<tags.Node, "ss_Link">>, <<Word, "ss_NestCount">>, <<tags.MinList, "ss_WaitQueue">>,
     <<tags.SemaphoreRequest, "ss_MultipleLink">>, <<Ptr, "ss_Owner">>,
     <<Word, "ss_QueueCount">> >>)

SemaphoreMessage_h == Struct(<< <<tags.Message, "ssm_Message">>, <<Ptr, "ssm_Semaphore">> >>)

Semaphore_h == Struct(<< <<tags.MsgPort, "sm_MsgPort">>, <<Word, "sm_Bids">> >>)

Task_h == Struct(<<
     <<tags.Node, "tc_Node">>,
     <<Byte, "tc_Flags", "tc_State", "tc_IDNestCnt", "tc_TDNestCnt">>,
     <<Long, "tc_SigAlloc", "tc_SigWait", "tc_SigRecvd", "tc_SigExcept">>,
     <<Word, "tc_TrapAlloc", "tc_TrapAble">>,
     <<Ptr, "tc_ExceptData", "tc_ExceptCode", "tc_TrapData", "tc_TrapCode", "tc_SPReg", "tc_SPLower", "tc_SPUpper", "tc_Switch", "tc_Launch">>,
     <<tags.List, "tc_MemEntry">>, <<Ptr, "tc_UserData">> >>)

StackSwapStruct_h == Struct(<<
     <<Ptr, "stk_Lower">>, <<Long, "stk_Upper">>, <<Ptr, "stk_Pointer">> >>)

ClockData_h == Struct(<< <<Word, "sec", "min", "hour", "mday", "month", "year", "wday">> >>)

Hook_h == Struct(<<
     <<tags.MinNode, "h_MinNode">>, <<Ptr, "h_Entry", "h_SubEntry", "h_Data">> >>)

NamedObject_h == Struct(<< <<Ptr, "no_Object">> >>)

TagItem_h == Struct(<< <<Long, "ti_Tag", "ti_Data">> >>)

UtilityBase_h == Struct(<<
     <<tags.Library, "ub_LibNode">>, <<Byte, "ub_Language", "ub_Reserved">> >>)

bltnode_h == Struct(<<
     <<Ptr, "n", "function">>, <<Byte, "stat">>, <<Word, "blitsize", "beamsync">>,
     <<Ptr, "cleanup">> >>)

Rectangle_h == Struct(<< <<Word, "MinX", "MinY", "MaxX", "MaxY">> >>)

Layer_h == Struct(<<
     <<Ptr, "front", "back", "ClipRect", "rp">>, <<tags.Rectangle, "bounds">>,
     <<Array(Byte, 4), "reserved">>, <<Word, "priority", "Flags">>,
     <<Ptr, "SuperBitMap", "SuperClipRect", "Window">>, <<Word, "Scroll_X", "Scroll_Y">>,
     <<Ptr, "cr", "cr2", "crnew", "SuperSaveClipRects", "_cliprects", "LayerInfo">>,
     <<tags.SignalSemaphore, "Lock">>, <<Ptr, "BackFill">>, <<Long, "reserved1">>,
     <<Ptr, "ClipRegion", "saveClipRects">>, <<Word, "Width", "Height">>,
     <<Array(Byte, 18), "reserved2">>, <<Ptr, "DamageList">> >>)

ClipRect_h == Struct(<<
     <<Ptr, "Next", "prev", "lobs", "BitMap">>, <<tags.Rectangle, "bounds">>,
     <<Ptr, "_p1", "_p2">>, <<Long, "reserved">> >>)

CopIns_h == Struct(<<
     <<Word, "OpCode">>,
     <<Inner(Union(<<<<Ptr, "nxtlist">>, <<Inner(Struct(<<<<Inner(Union(<<<<Word, "VWaitPos", "DestAddr">>>>)), "u1">>, <<Inner(Union(<<<<Word, "HWaitPos", "DestData">>>>)), "u2">>>>)), "u4">>>>)), "u3">> >>)

cprlist_h == Struct(<< <<Ptr, "Next", "start">>, <<Word, "MaxCount">> >>)

CopList_h == Struct(<<
     <<Ptr, "Next", "_CopList", "_ViewPort", "CopIns", "CopPtr", "CopLStart", "CopSStart">>,
     <<Word, "Count", "MaxCount", "DyOffset", "SLRepeat", "Flags">> >>)

UCopList_h == Struct(<< <<Ptr, "Next", "FirstCopList", "CopList">> >>)

copinit_h == Struct(<<
     <<Array(Word, 2), "vsync_hblank">>, <<Array(Word, 12), "diagstrt">>,
     <<Array(Word, 2), "fm0">>, <<Array(Word, 10), "diwstart">>, <<Array(Word, 2), "bplcon2">>,
     <<Array(Ptr, 16), "sprfix">>, <<Array(Ptr, 32), "sprstrtup">>,
     <<Array(Word, 2), "wait14", "norm_hblank", "jump">>, <<Array(Word, 6), "wait_forever">>,
     <<Array(Word, 8), "sprstop">> >>)

QueryHeader_h == Struct(<< <<Long, "StructID", "DisplayID", "SkipID", "Length">> >>)

tPoint_h == Struct(<< <<Word, "x", "y">> >>)

DisplayInfo_h == Struct(<<
     <<tags.QueryHeader, "Header">>, <<Word, "NotAvailable">>,
     <<Long, "PropertyFlags", "Resolution">>,
     <<Word, "PixelSpeed", "NumStdSprites", "PaletteRange">>, <<Long, "SpriteResolution">>,
     <<Array(Byte, 4), "pad">>, <<Byte, "RedBits", "GreenBits", "BlueBits">>,
     <<Array(Byte, 5), "pad2">>, <<Array(Long, 2), "reserved">> >>)

DimensionInfo_h == Struct(<<
     <<tags.QueryHeader, "Header">>,
     <<Word, "MaxDepth", "MinRasterWidth", "MinRasterHeight", "MaxRasterWidth", "MaxRasterHeight">>,
     <<tags.Rectangle, "Nominal", "MaxOScan", "VideoOScan", "TxtOScan", "StdOScan">>,
     <<Array(Byte, 14), "pad">>, <<Array(Long, 2), "reserved">> >>)

MonitorInfo_h == Struct(<<
     <<tags.QueryHeader, "Header">>, <<Ptr, "Mspc">>,
     <<Long, "ViewPosition", "ViewResolution">>, <<tags.Rectangle, "ViewPositionRange">>,
     <<Word, "TotalRows", "TotalColorClocks", "MinRow", "Compatibility">>,
     <<Array(Byte, 32), "pad">>,
     <<Long, "MouseTicks", "DefaultViewPosition", "PreferredModeID">>,
     <<Array(Long, 2), "reserved">> >>)

NameInfo_h == Struct(<<
     <<tags.QueryHeader, "Header">>, <<Array(Byte, 32), "Name">>,
     <<Array(Long, 2), "reserved">> >>)

VecInfo_h == Struct(<<
     <<tags.QueryHeader, "Header">>, <<Ptr, "Vec", "Data">>, <<Word, "Type">>,
     <<Array(Word, 3), "pad">>, <<Array(Long, 2), "reserved">> >>)

VSprite_h == Struct(<<
     <<Ptr, "NextVSprite", "PrevVSprite", "DrawPath", "ClearPath">>,
     <<Word, "OldY", "OldX", "Flags", "Y", "X", "Height", "Width", "Depth", "MeMask", "HitMask">>,
     <<Ptr, "ImageData", "BorderLine", "CollMask", "SprColors", "VSBob">>,
     <<Byte, "PlanePick", "PlaneOnOff">>, <<Word, "VUserExt">> >>)

Bob_h == Struct(<<
     <<Word, "Flags">>,
     <<Ptr, "SaveBuffer", "ImageShadow", "Before", "After", "BobVSprite", "BobComp", "DBuffer">>,
     <<Word, "BUserExt">> >>)

AnimComp_h == Struct(<<
     <<Word, "Flags", "Timer", "TimeSet">>,
     <<Ptr, "NextComp", "PrevComp", "NextSeq", "PrevSeq", "AnimCRoutine">>,
     <<Word, "YTrans", "XTrans">>, <<Ptr, "HeadOb", "AnimBob">> >>)

AnimOb_h == Struct(<<
     <<Ptr, "NextOb", "PrevOb">>, <<Long, "Clock">>,
     <<Word, "AnOldY", "AnOldX", "AnY", "AnX", "YVel", "XVel", "YAccel", "XAccel", "RingYTrans", "RingXTrans">>,
     <<Ptr, "AnimORoutine", "HeadComp">>, <<Word, "AUserExt">> >>)

DBufPacket_h == Struct(<< <<Word, "BufY", "BufX">>, <<Ptr, "BufPath", "BufBuffer">> >>)

BitMap_h == Struct(<<
     <<Word, "BytesPerRow", "Rows">>, <<Byte, "Flags", "Depth">>, <<Word, "pad">>,
     <<Array(Ptr, 8), "Planes">> >>)

Rect32_h == Struct(<< <<Long, "MinX", "MinY", "MaxX", "MaxY">> >>)

AnalogSignalInterval_h == Struct(<< <<Word, "asi_Start", "asi_Stop">> >>)

GfxBase_h == Struct(<<
     <<tags.Library, "LibNode">>,
     <<Ptr, "ActiView", "copinit", "cia", "blitter", "LOFlist", "SHFlist", "blthd", "blttl", "bsblthd", "bsblttl">>,
     <<tags.Interrupt, "vbsrv", "timsrv", "bltsrv">>, <<tags.List, "TextFonts">>,
     <<Ptr, "DefaultFont">>, <<Word, "Modes">>, <<Byte, "VBlank", "Debug">>,
     <<Word, "BeamSync", "system_bplcon0">>, <<Byte, "SpriteReserved", "bytereserved">>,
     <<Word, "Flags", "BlitLock", "BlitNest">>, <<tags.List, "BlitWaitQ">>,
     <<Ptr, "BlitOwner">>, <<tags.List, "TOF_WaitQ">>, <<Word, "DisplayFlags">>,
     <<Ptr, "SimpleSprites">>,
     <<Word, "MaxDisplayRow", "MaxDisplayColumn", "NormalDisplayRows", "NormalDisplayColumns", "NormalDPMX", "NormalDPMY">>,
     <<Ptr, "LastChanceMemory", "LCMptr">>, <<Word, "MicrosPerLine", "MinDisplayColumn">>,
     <<Byte, "ChipRevBits0", "MemType">>, <<Array(Byte, 4), "crb_reserved">>,
     <<Word, "monitor_id">>, <<Array(Long, 8), "hedley", "hedley_sprites", "hedley_sprites1">>,
     <<Word, "hedley_count", "hedley_flags", "hedley_tmp">>, <<Ptr, "hash_table">>,
     <<Word, "current_tot_rows", "current_tot_cclks">>,
     <<Byte, "hedley_hint", "hedley_hint2">>, <<Array(Long, 4), "nreserved">>,
     <<Ptr, "a2024_sync_raster">>, <<Word, "control_delta_pal", "control_delta_ntsc">>,
     <<Ptr, "current_monitor">>, <<tags.List, "MonitorList">>,
     <<Ptr, "default_monitor", "MonitorListSemaphore", "DisplayInfoDataBase">>,
     <<Word, "TopLine">>,
     <<Ptr, "ActiViewCprSemaphore", "UtilBase", "ExecBase", "bwshifts", "StrtFetchMasks", "StopFetchMasks", "Overrun", "RealStops">>,
     <<Word, "SpriteWidth", "SpriteFMode">>, <<Byte, "SoftSprites", "arraywidth">>,
     <<Word, "DefaultSpriteWidth">>,
     <<Byte, "SprMoveDisable", "WantChips", "BoardMemType", "Bugs">>, <<Ptr, "gb_LayersBase">>,
     <<Long, "ColorMask">>, <<Ptr, "IVector", "IData">>, <<Long, "SpecialCounter">>,
     <<Ptr, "DBList">>, <<Word, "MonitorFlags">>, <<Byte, "ScanDoubledSprites", "BP3Bits">>,
     <<tags.AnalogSignalInterval, "MonitorVBlank">>, <<Ptr, "natural_monitor", "ProgData">>,
     <<Byte, "ExtSprites", "pad3">>, <<Word, "GfxFlags">>, <<Long, "VBCounter">>,
     <<Ptr, "HashTableSemaphore">>, <<Array(Ptr, 9), "HWEmul">> >>)

ExtendedNode_h == Struct(<<
     <<Ptr, "xln_Succ", "xln_Pred">>, <<Byte, "xln_Type", "xln_Pri">>, <<Ptr, "xln_Name">>,
     <<Byte, "xln_Subsystem", "xln_Subtype">>, <<Long, "xln_Library">>, <<Ptr, "xln_Init">> >>)

Layer_Info_h == Struct(<<
     <<Ptr, "top_layer", "check_lp", "obs", "FreeClipRects">>,
     <<Long, "PrivateReserve1", "PrivateReserve2">>, <<tags.SignalSemaphore, "Lock">>,
     <<tags.MinList, "gs_Head">>, <<Word, "PrivateReserve3">>, <<Ptr, "PrivateReserve4">>,
     <<Word, "Flags">>, <<Byte, "fatten_count", "LockLayersCount">>,
     <<Word, "PrivateReserve5">>, <<Ptr, "BlankHook", "LayerInfo_extra">> >>)

SpecialMonitor_h == Struct(<<
     <<tags.ExtendedNode, "spm_Node">>, <<Word, "spm_Flags">>,
     <<Ptr, "do_monitor", "reserved1", "reserved2", "reserved3">>,
     <<tags.AnalogSignalInterval, "hblank", "vblank", "hsync", "vsync">> >>)

MonitorSpec_h == Struct(<<
     <<tags.ExtendedNode, "ms_Node">>, <<Word, "ms_Flags">>, <<Long, "ratioh", "ratiov">>,
     <<Word, "total_rows", "total_colorclocks", "DeniseMaxDisplayColumn", "BeamCon0", "min_row">>,
     <<Ptr, "ms_Special">>, <<Word, "ms_OpenCount">>,
     <<Ptr, "ms_transform", "ms_translate", "ms_scale">>, <<Word, "ms_xoffset", "ms_yoffset">>,
     <<tags.Rectangle, "ms_LegalView">>, <<Ptr, "ms_maxoscan", "ms_videoscan">>,
     <<Word, "DeniseMinDisplayColumn">>, <<Long, "DisplayCompatible">>,
     <<tags.List, "DisplayInfoDataBase">>,
     <<tags.SignalSemaphore, "DisplayInfoDataBaseSemaphore">>,
     <<Ptr, "ms_MrgCop", "ms_LoadView", "ms_KillView">> >>)

TmpRas_h == Struct(<< <<Ptr, "RasPtr">>, <<Long, "Size">> >>)

GelsInfo_h == Struct(<<
     <<Byte, "sprRsrvd", "Flags">>,
     <<Ptr, "gelHead", "gelTail", "nextLine", "lastColor", "collHandler">>,
     <<Word, "leftmost", "rightmost", "topmost", "bottommost">>,
     <<Ptr, "firstBlissObj", "lastBlissObj">> >>)

RastPort_h == Struct(<<
     <<Ptr, "Layer", "BitMap", "AreaPtrn", "TmpRas", "AreaInfo", "GelsInfo">>,
     <<Byte, "Mask", "FgPen", "BgPen", "AOlPen", "DrawMode", "AreaPtSz", "linpatcnt", "dummy">>,
     <<Word, "Flags", "LinePtrn", "cp_x", "cp_y">>, <<Array(Byte, 8), "minterms">>,
     <<Word, "PenWidth", "PenHeight">>, <<Ptr, "Font">>, <<Byte, "AlgoStyle", "TxFlags">>,
     <<Word, "TxHeight", "TxWidth", "TxBaseline", "TxSpacing">>, <<Ptr, "RP_User">>,
     <<Array(Long, 2), "longreserved">>, <<Array(Word, 7), "wordreserved">>,
     <<Array(Byte, 8), "reserved">> >>)

AreaInfo_h == Struct(<<
     <<Ptr, "VctrTbl", "VctrPtr", "FlagTbl", "FlagPtr">>,
     <<Word, "Count", "MaxCount", "FirstX", "FirstY">> >>)

Region_h == Struct(<< <<tags.Rectangle, "bounds">>, <<Ptr, "RegionRectangle">> >>)

RegionRectangle_h == Struct(<< <<Ptr, "Next", "Prev">>, <<tags.Rectangle, "bounds">> >>)

BitScaleArgs_h == Struct(<<
     <<Word, "bsa_SrcX", "bsa_SrcY", "bsa_SrcWidth", "bsa_SrcHeight", "bsa_XSrcFactor", "bsa_YSrcFactor", "bsa_DestX", "bsa_DestY", "bsa_DestWidth", "bsa_DestHeight", "bsa_XDestFactor", "bsa_YDestFactor">>,
     <<Ptr, "bsa_SrcBitMap", "bsa_DestBitMap">>, <<Long, "bsa_Flags">>,
     <<Word, "bsa_XDDA", "bsa_YDDA">>, <<Long, "bsa_Reserved1", "bsa_Reserved2">> >>)

SimpleSprite_h == Struct(<< <<Ptr, "posctldata">>, <<Word, "height", "x", "y", "num">> >>)

ExtSprite_h == Struct(<<
     <<tags.SimpleSprite, "es_SimpleSprite">>, <<Word, "es_wordwidth", "es_flags">> >>)

TextAttr_h == Struct(<<
     <<Ptr, "ta_Name">>, <<Word, "ta_YSize">>, <<Byte, "ta_Style", "ta_Flags">> >>)

TTextAttr_h == Struct(<<
     <<Ptr, "tta_Name">>, <<Word, "tta_YSize">>, <<Byte, "tta_Style", "tta_Flags">>,
     <<Ptr, "tta_Tags">> >>)

TextFont_h == Struct(<<
     <<tags.Message, "tf_Message">>, <<Word, "tf_YSize">>, <<Byte, "tf_Style", "tf_Flags">>,
     <<Word, "tf_XSize", "tf_Baseline", "tf_BoldSmear", "tf_Accessors">>,
     <<Byte, "tf_LoChar", "tf_HiChar">>, <<Ptr, "tf_CharData">>, <<Word, "tf_Modulo">>,
     <<Ptr, "tf_CharLoc", "tf_CharSpace", "tf_CharKern">> >>)

TextFontExtension_h == Struct(<<
     <<Word, "tfe_MatchWord">>, <<Byte, "tfe_Flags0", "tfe_Flags1">>,
     <<Ptr, "tfe_BackPtr", "tfe_OrigReplyPort", "tfe_Tags", "tfe_OFontPatchS", "tfe_OFontPatchK">> >>)

ColorFontColors_h == Struct(<<
     <<Word, "cfc_Reserved", "cfc_Count">>, <<Ptr, "cfc_ColorTable">> >>)

ColorTextFont_h == Struct(<<
     <<tags.TextFont, "ctf_TF">>, <<Word, "ctf_Flags">>,
     <<Byte, "ctf_Depth", "ctf_FgColor", "ctf_Low", "ctf_High", "ctf_PlanePick", "ctf_PlaneOnOff">>,
     <<Ptr, "ctf_ColorFontColors">>, <<Array(Ptr, 8), "ctf_CharData">> >>)

TextExtent_h == Struct(<< <<Word, "te_Width", "te_Height">>, <<tags.Rectangle, "te_Extent">> >>)

ColorMap_h == Struct(<<
     <<Byte, "Flags", "Type">>, <<Word, "Count">>,
     <<Ptr, "ColorTable", "cm_vpe", "LowColorBits">>,
     <<Byte, "TransparencyPlane", "SpriteResolution", "SpriteResDefault", "AuxFlags">>,
     <<Ptr, "cm_vp", "NormalDisplayInfo", "CoerceDisplayInfo", "cm_batch_items">>,
     <<Long, "VPModeID">>, <<Ptr, "PalExtra">>,
     <<Word, "SpriteBase_Even", "SpriteBase_Odd", "Bp_0_base", "Bp_1_base">> >>)

PaletteExtra_h == Struct(<<
     <<tags.SignalSemaphore, "pe_Semaphore">>,
     <<Word, "pe_FirstFree", "pe_NFree", "pe_FirstShared", "pe_NShared">>,
     <<Ptr, "pe_RefCnt", "pe_AllocList", "pe_ViewPort">>, <<Word, "pe_SharableColors">> >>)

ViewPort_h == Struct(<<
     <<Ptr, "Next", "ColorMap", "DspIns", "SprIns", "ClrIns", "UCopIns">>,
     <<Word, "DWidth", "DHeight", "DxOffset", "DyOffset", "Modes">>,
     <<Byte, "SpritePriorities", "ExtendedModes">>, <<Ptr, "RasInfo">> >>)

View_h == Struct(<<
     <<Ptr, "ViewPort", "LOFCprList", "SHFCprList">>,
     <<Word, "DyOffset", "DxOffset", "Modes">> >>)

ViewExtra_h == Struct(<<
     <<tags.ExtendedNode, "n">>, <<Ptr, "View", "Monitor">>, <<Word, "TopLine">> >>)

ViewPortExtra_h == Struct(<<
     <<tags.ExtendedNode, "n">>, <<Ptr, "ViewPort">>, <<tags.Rectangle, "DisplayClip">>,
     <<Ptr, "VecTable">>, <<Array(Ptr, 2), "DriverData">>, <<Word, "Flags">>,
     <<Array(Long, 2), "Origin">>, <<Long, "cop1ptr", "cop2ptr">> >>)

collTable_h == Struct(<< <<Array(Ptr, 16), "collPtrs">> >>)

RasInfo_h == Struct(<< <<Ptr, "Next", "BitMap">>, <<Word, "RxOffset", "RyOffset">> >>)

DBufInfo_h == Struct(<<
     <<Ptr, "dbi_Link1">>, <<Long, "dbi_Count1">>, <<tags.Message, "dbi_SafeMessage">>,
     <<Ptr, "dbi_UserData1", "dbi_Link2">>, <<Long, "dbi_Count2">>,
     <<tags.Message, "dbi_DispMessage">>, <<Ptr, "dbi_UserData2">>, <<Long, "dbi_MatchLong">>,
     <<Ptr, "dbi_CopPtr1", "dbi_CopPtr2", "dbi_CopPtr3">>,
     <<Word, "dbi_BeamPos1", "dbi_BeamPos2">> >>)

IORequest_h == Struct(<<
     <<tags.Message, "io_Message">>, <<Ptr, "io_Device", "io_Unit">>, <<Word, "io_Command">>,
     <<Byte, "io_Flags", "io_Error">> >>)

IOAudio_h == Struct(<<
     <<tags.IORequest, "ioa_Request">>, <<Word, "ioa_AllocKey">>, <<Ptr, "ioa_Data">>,
     <<Long, "ioa_Length">>, <<Word, "ioa_Period", "ioa_Volume", "ioa_Cycles">>,
     <<tags.Message, "ioa_WriteMsg">> >>)

BootBlock_h == Struct(<< <<Array(Byte, 4), "bb_id">>, <<Long, "bb_chksum", "bb_dosblock">> >>)

CDInfo_h == Struct(<<
     <<Word, "PlaySpeed", "ReadSpeed", "ReadXLSpeed", "SectorSize", "XLECC", "EjectReset">>,
     <<Array(Word, 4), "Reserved1">>, <<Word, "MaxSpeed", "AudioPrecision", "Status">>,
     <<Array(Word, 4), "Reserved2">> >>)

RMSF_h == Struct(<< <<Byte, "Reserved", "Minute", "Second", "Frame">> >>)

CDXL_h == Struct(<<
     <<tags.MinNode, "Node">>, <<Ptr, "Buffer">>, <<Long, "Length", "Actual">>,
     <<Ptr, "IntData", "IntCode">> >>)

LSNMSF_h == Union(<< <<tags.RMSF, "MSF">>, <<Long, "LSN">> >>)

TOCSummary_h == Struct(<< <<Byte, "FirstTrack", "LastTrack">>, <<tags.LSNMSF, "LeadOut">> >>)

TOCEntry_h == Struct(<< <<Byte, "CtlAdr", "Track">>, <<tags.LSNMSF, "Position">> >>)

QCode_h == Struct(<<
     <<Byte, "CtlAdr", "Track", "Index", "Zero">>,
     <<tags.LSNMSF, "TrackPosition", "DiskPosition">> >>)

ClipboardUnitPartial_h == Struct(<< <<tags.Node, "cu_Node">>, <<Long, "cu_UnitNum">> >>)

IOClipReq_h == Struct(<<
     <<tags.Message, "io_Message">>, <<Ptr, "io_Device", "io_Unit">>, <<Word, "io_Command">>,
     <<Byte, "io_Flags", "io_Error">>, <<Long, "io_Actual", "io_Length">>, <<Ptr, "io_Data">>,
     <<Long, "io_Offset", "io_ClipID">> >>)

SatisfyMsg_h == Struct(<<
     <<tags.Message, "sm_Msg">>, <<Word, "sm_Unit">>, <<Long, "sm_ClipID">> >>)

ClipHookMsg_h == Struct(<< <<Long, "chm_Type", "chm_ChangeCmd", "chm_ClipID">> >>)

KeyMap_h == Struct(<<
     <<Ptr, "km_LoKeyMapTypes", "km_LoKeyMap", "km_LoCapsable", "km_LoRepeatable", "km_HiKeyMapTypes", "km_HiKeyMap", "km_HiCapsable", "km_HiRepeatable">> >>)

ConUnit_h == Struct(<<
     <<tags.MsgPort, "cu_MP">>, <<Ptr, "cu_Window">>,
     <<Word, "cu_XCP", "cu_YCP", "cu_XMax", "cu_YMax", "cu_XRSize", "cu_YRSize", "cu_XROrigin", "cu_YROrigin", "cu_XRExtant", "cu_YRExtant", "cu_XMinShrink", "cu_YMinShrink", "cu_XCCP", "cu_YCCP">>,
     <<tags.KeyMap, "cu_KeyMapStruct">>, <<Array(Word, 80), "cu_TabStops">>,
     <<Byte, "cu_Mask", "cu_FgPen", "cu_BgPen", "cu_AOLPen", "cu_DrawMode", "cu_Obsolete1">>,
     <<Ptr, "cu_Obsolete2">>, <<Array(Byte, 8), "cu_Minterms">>, <<Ptr, "cu_Font">>,
     <<Byte, "cu_AlgoStyle", "cu_TxFlags">>,
     <<Word, "cu_TxHeight", "cu_TxWidth", "cu_TxBaseline", "cu_TxSpacing">>,
     <<Array(Byte, 3), "cu_Modes", "cu_RawEvents">> >>)

GamePortTrigger_h == Struct(<<
     <<Word, "gpt_Keys", "gpt_Timeout", "gpt_XDelta", "gpt_YDelta">> >>)

RigidDiskBlock_h == Struct(<<
     <<Long, "rdb_ID", "rdb_SummedLongs", "rdb_ChkSum", "rdb_HostID", "rdb_BlockBytes", "rdb_Flags", "rdb_BadBlockList", "rdb_PartitionList", "rdb_FileSysHeaderList", "rdb_DriveInit">>,
     <<Array(Long, 6), "rdb_Reserved1">>,
     <<Long, "rdb_Cylinders", "rdb_Sectors", "rdb_Heads", "rdb_Interleave", "rdb_Park">>,
     <<Array(Long, 3), "rdb_Reserved2">>,
     <<Long, "rdb_WritePreComp", "rdb_ReducedWrite", "rdb_StepRate">>,
     <<Array(Long, 5), "rdb_Reserved3">>,
     <<Long, "rdb_RDBBlocksLo", "rdb_RDBBlocksHi", "rdb_LoCylinder", "rdb_HiCylinder", "rdb_CylBlocks", "rdb_AutoParkSeconds", "rdb_HighRDSKBlock", "rdb_Reserved4">>,
     <<Array(Byte, 8), "rdb_DiskVendor">>, <<Array(Byte, 16), "rdb_DiskProduct">>,
     <<Array(Byte, 4), "rdb_DiskRevision">>, <<Array(Byte, 8), "rdb_ControllerVendor">>,
     <<Array(Byte, 16), "rdb_ControllerProduct">>,
     <<Array(Byte, 4), "rdb_ControllerRevision">>, <<Array(Byte, 40), "rdb_DriveInitName">> >>)

BadBlockEntry_h == Struct(<< <<Long, "bbe_BadBlock", "bbe_GoodBlock">> >>)

BadBlockBlock_h == Struct(<<
     <<Long, "bbb_ID", "bbb_SummedLongs", "bbb_ChkSum", "bbb_HostID", "bbb_Next", "bbb_Reserved">>,
     <<Array(tags.BadBlockEntry, 61), "bbb_BlockPairs">> >>)

PartitionBlock_h == Struct(<<
     <<Long, "pb_ID", "pb_SummedLongs", "pb_ChkSum", "pb_HostID", "pb_Next", "pb_Flags">>,
     <<Array(Long, 2), "pb_Reserved1">>, <<Long, "pb_DevFlags">>,
     <<Array(Byte, 32), "pb_DriveName">>, <<Array(Long, 15), "pb_Reserved2">>,
     <<Array(Long, 20), "pb_Environment">>, <<Array(Long, 12), "pb_EReserved">> >>)

FileSysHeaderBlock_h == Struct(<<
     <<Long, "fhb_ID", "fhb_SummedLongs", "fhb_ChkSum", "fhb_HostID", "fhb_Next", "fhb_Flags">>,
     <<Array(Long, 2), "fhb_Reserved1">>,
     <<Long, "fhb_DosType", "fhb_Version", "fhb_PatchFlags", "fhb_Type", "fhb_Task", "fhb_Lock", "fhb_Handler", "fhb_StackSize", "fhb_Priority", "fhb_Startup", "fhb_SegListBlocks", "fhb_GlobalVec">>,
     <<Array(Long, 23), "fhb_Reserved2">>, <<Array(Byte, 84), "fhb_FileSysName">> >>)

LoadSegBlock_h == Struct(<<
     <<Long, "lsb_ID", "lsb_SummedLongs", "lsb_ChkSum", "lsb_HostID", "lsb_Next">>,
     <<Array(Long, 123), "lsb_LoadData">> >>)

IEPointerPixel_h == Struct(<<
     <<Ptr, "iepp_Screen">>, <<Inner(Struct(<<<<Word, "X", "Y">>>>)), "iepp_Position">> >>)

IEPointerTablet_h == Struct(<<
     <<Inner(Struct(<<<<Word, "X", "Y">>>>)), "iept_Range", "iept_Value">>,
     <<Word, "iept_Pressure">> >>)

IENewTablet_h == Struct(<<
     <<Ptr, "ient_CallBack">>,
     <<Word, "ient_ScaledX", "ient_ScaledY", "ient_ScaledXFraction", "ient_ScaledYFraction">>,
     <<Long, "ient_TabletX", "ient_TabletY", "ient_RangeX", "ient_RangeY">>,
     <<Ptr, "ient_TagList">> >>)

timeval_h == Struct(<< <<Long, "tv_secs", "tv_micro">> >>)

InputEvent_h == Struct(<<
     <<Ptr, "ie_NextEvent">>, <<Byte, "ie_Class", "ie_SubClass">>,
     <<Word, "ie_Code", "ie_Qualifier">>,
     <<Inner(Union(<<<<Inner(Struct(<<<<Word, "ie_x", "ie_y">>>>)), "ie_xy">>, <<Ptr, "ie_addr">>, <<Inner(Struct(<<<<Byte, "ie_prev1DownCode", "ie_prev1DownQual", "ie_prev2DownCode", "ie_prev2DownQual">>>>)), "ie_dead">>>>)), "ie_position">>,
     <<tags.timeval, "ie_TimeStamp">> >>)

KeyMapNode_h == Struct(<< <<tags.Node, "kn_Node">>, <<tags.KeyMap, "kn_KeyMap">> >>)

KeyMapResource_h == Struct(<< <<tags.Node, "kr_Node">>, <<tags.List, "kr_List">> >>)

narrator_rb_h == Struct(<<
     <<tags.IOStdReq, "message">>, <<Word, "rate", "pitch", "mode", "sex">>,
     <<Ptr, "ch_masks">>, <<Word, "nm_masks", "volume", "sampfreq">>,
     <<Byte, "mouths", "chanmask", "numchan", "flags", "F0enthusiasm", "F0perturb", "F1adj", "F2adj", "F3adj", "A1adj", "A2adj", "A3adj", "articulate", "centralize">>,
     <<Ptr, "centphon">>, <<Byte, "AVbias", "AFbias", "priority", "pad1">> >>)

mouth_rb_h == Struct(<<
     <<tags.narrator_rb, "voice">>, <<Byte, "width", "height", "shape", "sync">> >>)

IOPArray_h == Struct(<< <<Long, "PTermArray0", "PTermArray1">> >>)

IOExtPar_h == Struct(<<
     <<tags.IOStdReq, "IOPar">>, <<Long, "io_PExtFlags">>,
     <<Byte, "io_Status", "io_ParFlags">>, <<tags.IOPArray, "io_PTermArray">> >>)

IOPrtCmdReq_h == Struct(<<
     <<tags.Message, "io_Message">>, <<Ptr, "io_Device", "io_Unit">>, <<Word, "io_Command">>,
     <<Byte, "io_Flags", "io_Error">>, <<Word, "io_PrtCommand">>,
     <<Byte, "io_Parm0", "io_Parm1", "io_Parm2", "io_Parm3">> >>)

IODRPReq_h == Struct(<<
     <<tags.Message, "io_Message">>, <<Ptr, "io_Device", "io_Unit">>, <<Word, "io_Command">>,
     <<Byte, "io_Flags", "io_Error">>, <<Ptr, "io_RastPort", "io_ColorMap">>,
     <<Long, "io_Modes">>, <<Word, "io_SrcX", "io_SrcY", "io_SrcWidth", "io_SrcHeight">>,
     <<Long, "io_DestCols", "io_DestRows">>, <<Word, "io_Special">> >>)

IODRPTagsReq_h == Struct(<<
     <<tags.Message, "io_Message">>, <<Ptr, "io_Device", "io_Unit">>, <<Word, "io_Command">>,
     <<Byte, "io_Flags", "io_Error">>, <<Ptr, "io_RastPort", "io_ColorMap">>,
     <<Long, "io_Modes">>, <<Word, "io_SrcX", "io_SrcY", "io_SrcWidth", "io_SrcHeight">>,
     <<Long, "io_DestCols", "io_DestRows">>, <<Word, "io_Special">>, <<Ptr, "io_TagList">> >>)

DRPSourceMsg_h == Struct(<< <<Long, "x", "y", "width", "height">>, <<Ptr, "buf">> >>)

IOPrtPrefsReq_h == Struct(<<
     <<tags.Message, "io_Message">>, <<Ptr, "io_Device", "io_Unit">>, <<Word, "io_Command">>,
     <<Byte, "io_Flags", "io_Error">>, <<Ptr, "io_TagList">> >>)

IOPrtErrReq_h == Struct(<<
     <<tags.Message, "io_Message">>, <<Ptr, "io_Device", "io_Unit">>, <<Word, "io_Command">>,
     <<Byte, "io_Flags", "io_Error">>, <<Ptr, "io_Hook">> >>)

PrtErrMsg_h == Struct(<<
     <<Long, "pe_Version", "pe_ErrorLevel">>,
     <<Ptr, "pe_Window", "pe_ES", "pe_IDCMP", "pe_ArgList">> >>)

IOPrefsReq_h == Struct(<<
     <<tags.Message, "io_Message">>, <<Ptr, "io_Device", "io_Unit">>, <<Word, "io_Command">>,
     <<Byte, "io_Flags", "io_Error">>,
     <<Ptr, "io_TxtPrefs", "io_UnitPrefs", "io_DevUnitPrefs", "io_GfxPrefs">> >>)

DeviceData_h == Struct(<<
     <<tags.Library, "dd_Device">>,
     <<Ptr, "dd_Segment", "dd_ExecBase", "dd_CmdVectors", "dd_CmdBytes">>,
     <<Word, "dd_NumCommands">> >>)

IOTArray_h == Struct(<< <<Long, "TermArray0", "TermArray1">> >>)

IOExtSer_h == Struct(<<
     <<tags.IOStdReq, "IOSer">>,
     <<Long, "io_CtlChar", "io_RBufLen", "io_ExtFlags", "io_Baud", "io_BrkTime">>,
     <<tags.IOTArray, "io_TermArray">>,
     <<Byte, "io_ReadLen", "io_WriteLen", "io_StopBits", "io_SerFlags">>,
     <<Word, "io_Status">> >>)

timerequest_h == Struct(<< <<tags.IORequest, "tr_node">>, <<tags.timeval, "tr_time">> >>)

PrinterData_h == Struct(<<
     <<tags.DeviceData, "pd_Device">>, <<tags.MsgPort, "pd_Unit">>,
     <<Long, "pd_PrinterSegment">>, <<Word, "pd_PrinterType">>,
     <<Ptr, "pd_SegmentData", "pd_PrintBuf", "pd_PWrite", "pd_PBothReady">>,
     <<Inner(Union(<<<<tags.IOExtPar, "pd_p0">>, <<tags.IOExtSer, "pd_s0">>>>)), "pd_ior0">>,
     <<Inner(Union(<<<<tags.IOExtPar, "pd_p1">>, <<tags.IOExtSer, "pd_s1">>>>)), "pd_ior1">>,
     <<tags.timerequest, "pd_TIOR">>, <<tags.MsgPort, "pd_IORPort">>, <<tags.Task, "pd_TC">>,
     <<Array(Byte, 2048), "pd_OldStk">>, <<Byte, "pd_Flags", "pd_pad">>,
     <<tags.Preferences, "pd_Preferences">>, <<Byte, "pd_PWaitEnabled", "pd_Flags1">>,
     <<Array(Byte, 4096), "pd_Stk">>, <<Ptr, "pd_PUnit", "pd_PRead", "pd_CallErrHook">>,
     <<Long, "pd_UnitNumber">>, <<Ptr, "pd_DriverName", "pd_PQuery">> >>)

PrinterExtendedData_h == Struct(<<
     <<Ptr, "ped_PrinterName", "ped_Init", "ped_Expunge", "ped_Open", "ped_Close">>,
     <<Byte, "ped_PrinterClass", "ped_ColorClass", "ped_MaxColumns", "ped_NumCharSets">>,
     <<Word, "ped_NumRows">>, <<Long, "ped_MaxXDots", "ped_MaxYDots">>,
     <<Word, "ped_XDotsInch", "ped_YDotsInch">>,
     <<Ptr, "ped_Commands", "ped_DoSpecial", "ped_Render">>, <<Long, "ped_TimeoutSecs">>,
     <<Ptr, "ped_8BitChars">>, <<Long, "ped_PrintMode">>,
     <<Ptr, "ped_ConvFunc", "ped_TagList", "ped_DoPreferences", "ped_CallErrHook">> >>)

PrinterSegment_h == Struct(<<
     <<Long, "ps_NextSegment", "ps_runAlert">>, <<Word, "ps_Version", "ps_Revision">>,
     <<tags.PrinterExtendedData, "ps_PED">> >>)

PrtDriverPreferences_h == Struct(<<
     <<Word, "pdp_Version">>, <<Array(Byte, 32), "pdp_PrinterID">>,
     <<Array(Byte, 14), "pdp_PrefName">>, <<Long, "pdp_Length">> >>)

colorEntry_h == Union(<<
     <<Long, "colorLong">>, <<Array(Byte, 4), "colorByte", "colorSByte">> >>)

PrtInfo_h == Struct(<<
     <<Ptr, "pi_render", "pi_rp", "pi_temprp", "pi_RowBuf", "pi_HamBuf", "pi_ColorMap", "pi_ColorInt", "pi_HamInt", "pi_Dest1Int", "pi_Dest2Int", "pi_ScaleX", "pi_ScaleXAlt", "pi_dmatrix", "pi_TopBuf", "pi_BotBuf">>,
     <<Word, "pi_RowBufSize", "pi_HamBufSize", "pi_ColorMapSize", "pi_ColorIntSize", "pi_HamIntSize", "pi_Dest1IntSize", "pi_Dest2IntSize", "pi_ScaleXSize", "pi_ScaleXAltSize", "pi_PrefsFlags">>,
     <<Long, "pi_special">>, <<Word, "pi_xstart", "pi_ystart", "pi_width", "pi_height">>,
     <<Long, "pi_pc", "pi_pr">>,
     <<Word, "pi_ymult", "pi_ymod", "pi_ety", "pi_xpos", "pi_threshold", "pi_tempwidth", "pi_flags">>,
     <<Ptr, "pi_ReduceBuf">>, <<Word, "pi_ReduceBufSize">>,
     <<Ptr, "pi_SourceHook", "pi_InvertHookBuf">> >>)

SCSICmd_h == Struct(<<
     <<Ptr, "scsi_Data">>, <<Long, "scsi_Length", "scsi_Actual">>, <<Ptr, "scsi_Command">>,
     <<Word, "scsi_CmdLength", "scsi_CmdActual">>, <<Byte, "scsi_Flags", "scsi_Status">>,
     <<Ptr, "scsi_SenseData">>, <<Word, "scsi_SenseLength", "scsi_SenseActual">> >>)

EClockVal_h == Struct(<< <<Long, "ev_hi", "ev_lo">> >>)

IOExtTD_h == Struct(<<
     <<tags.IOStdReq, "iotd_Req">>, <<Long, "iotd_Count", "iotd_SecLabel">> >>)

DriveGeometry_h == Struct(<<
     <<Long, "dg_SectorSize", "dg_TotalSectors", "dg_Cylinders", "dg_CylSectors", "dg_Heads", "dg_TrackSectors", "dg_BufMemType">>,
     <<Byte, "dg_DeviceType", "dg_Flags">>, <<Word, "dg_Reserved">> >>)

TDU_PublicUnit_h == Struct(<<
     <<tags.Unit, "tdu_Unit">>,
     <<Word, "tdu_Comp01Track", "tdu_Comp10Track", "tdu_Comp11Track">>,
     <<Long, "tdu_StepDelay", "tdu_SettleDelay">>, <<Byte, "tdu_RetryCnt", "tdu_PubFlags">>,
     <<Word, "tdu_CurrTrk">>, <<Long, "tdu_CalibrateDelay", "tdu_Counter">> >>)

CardHandle_h == Struct(<<
     <<tags.Node, "cah_CardNode">>,
     <<Ptr, "cah_CardRemoved", "cah_CardInserted", "cah_CardStatus">>,
     <<Byte, "cah_CardFlags">> >>)

DeviceTData_h == Struct(<<
     <<Long, "dtd_DTsize", "dtd_DTspeed">>, <<Byte, "dtd_DTtype", "dtd_DTflags">> >>)

CardMemoryMap_h == Struct(<<
     <<Ptr, "cmm_CommonMemory", "cmm_AttributeMemory", "cmm_IOMemory">>,
     <<Long, "cmm_CommonMemSize", "cmm_AttributeMemSize", "cmm_IOMemSize">> >>)

TP_AmigaXIP_h == Struct(<<
     <<Byte, "TPL_CODE", "TPL_LINK">>, <<Array(Byte, 4), "TP_XIPLOC">>,
     <<Byte, "TP_XIPFLAGS", "TP_XIPRESRV">> >>)

DiscResourceUnit_h == Struct(<<
     <<tags.Message, "dru_Message">>,
     <<tags.Interrupt, "dru_DiscBlock", "dru_DiscSync", "dru_Index">> >>)

DiscResource_h == Struct(<<
     <<tags.Library, "dr_Library">>, <<Ptr, "dr_Current">>, <<Byte, "dr_Flags", "dr_pad">>,
     <<Ptr, "dr_SysLib", "dr_CiaResource">>, <<Array(Long, 4), "dr_UnitID">>,
     <<tags.List, "dr_Waiting">>,
     <<tags.Interrupt, "dr_DiscBlock", "dr_DiscSync", "dr_Index">>, <<Ptr, "dr_CurrTask">> >>)

FileSysResource_h == Struct(<<
     <<tags.Node, "fsr_Node">>, <<Ptr, "fsr_Creator">>, <<tags.List, "fsr_FileSysEntries">> >>)

FileSysEntry_h == Struct(<<
     <<tags.Node, "fse_Node">>,
     <<Long, "fse_DosType", "fse_Version", "fse_PatchFlags", "fse_Type">>, <<Ptr, "fse_Task">>,
     <<Long, "fse_Lock", "fse_Handler", "fse_StackSize", "fse_Priority", "fse_Startup", "fse_SegList", "fse_GlobalVec">> >>)

resources_MathIEEEResource_h == Struct(<<
     <<tags.Node, "MathIEEEResource_Node">>, <<Word, "MathIEEEResource_Flags">>,
     <<Ptr, "MathIEEEResource_BaseAddr", "MathIEEEResource_DblBasInit", "MathIEEEResource_DblTransInit", "MathIEEEResource_SglBasInit", "MathIEEEResource_SglTransInit", "MathIEEEResource_ExtBasInit", "MathIEEEResource_ExtTransInit">> >>)

DateStamp_h == Struct(<< <<Long, "ds_Days", "ds_Minute", "ds_Tick">> >>)

DateTime_h == Struct(<<
     <<tags.DateStamp, "dat_Stamp">>, <<Byte, "dat_Format", "dat_Flags">>,
     <<Ptr, "dat_StrDay", "dat_StrDate", "dat_StrTime">> >>)

FileInfoBlock_h == Struct(<<
     <<Long, "fib_DiskKey", "fib_DirEntryType">>, <<Array(Byte, 108), "fib_FileName">>,
     <<Long, "fib_Protection", "fib_EntryType", "fib_Size", "fib_NumBlocks">>,
     <<tags.DateStamp, "fib_Date">>, <<Array(Byte, 80), "fib_Comment">>,
     <<Word, "fib_OwnerUID", "fib_OwnerGID">>, <<Array(Byte, 32), "fib_Reserved">> >>)

InfoData_h == Struct(<<
     <<Long, "id_NumSoftErrors", "id_UnitNumber", "id_DiskState", "id_NumBlocks", "id_NumBlocksUsed", "id_BytesPerBlock", "id_DiskType", "id_VolumeNode", "id_InUse">> >>)

AnchorPath_h == Struct(<<
     <<Ptr, "ap_Base", "ap_Last">>, <<Long, "ap_BreakBits", "ap_FoundBreak">>,
     <<Byte, "ap_Flags", "ap_Reserved">>, <<Word, "ap_Strlen">>,
     <<tags.FileInfoBlock, "ap_Info">>, <<Byte, "ap_Buf">> >>)

AChain_h == Struct(<<
     <<Ptr, "an_Child", "an_Parent">>, <<Long, "an_Lock">>, <<tags.FileInfoBlock, "an_Info">>,
     <<Byte, "an_Flags", "an_String">> >>)

Process_h == Struct(<<
     <<tags.Task, "pr_Task">>, <<tags.MsgPort, "pr_MsgPort">>, <<Word, "pr_Pad">>,
     <<Long, "pr_SegList", "pr_StackSize">>, <<Ptr, "pr_GlobVec">>,
     <<Long, "pr_TaskNum", "pr_StackBase", "pr_Result2", "pr_CurrentDir", "pr_CIS", "pr_COS">>,
     <<Ptr, "pr_ConsoleTask", "pr_FileSystemTask">>, <<Long, "pr_CLI">>,
     <<Ptr, "pr_ReturnAddr", "pr_PktWait", "pr_WindowPtr">>,
     <<Long, "pr_HomeDir", "pr_Flags">>, <<Ptr, "pr_ExitCode">>, <<Long, "pr_ExitData">>,
     <<Ptr, "pr_Arguments">>, <<tags.MinList, "pr_LocalVars">>,
     <<Long, "pr_ShellPrivate", "pr_CES">> >>)

FileHandle_h == Struct(<<
     <<Ptr, "fh_Link", "fh_Port", "fh_Type">>,
     <<Long, "fh_Buf", "fh_Pos", "fh_End", "fh_Funcs", "fh_Func2", "fh_Func3", "fh_Args", "fh_Arg2">> >>)

DosPacket_h == Struct(<<
     <<Ptr, "dp_Link", "dp_Port">>,
     <<Long, "dp_Type", "dp_Res1", "dp_Res2", "dp_Arg1", "dp_Arg2", "dp_Arg3", "dp_Arg4", "dp_Arg5", "dp_Arg6", "dp_Arg7">> >>)

StandardPacket_h == Struct(<< <<tags.Message, "sp_Msg">>, <<tags.DosPacket, "sp_Pkt">> >>)

ErrorString_h == Struct(<< <<Ptr, "estr_Nums", "estr_Strings">> >>)

DosLibrary_h == Struct(<<
     <<tags.Library, "dl_lib">>, <<Ptr, "dl_Root", "dl_GV">>,
     <<Long, "dl_A2", "dl_A5", "dl_A6">>,
     <<Ptr, "dl_Errors", "dl_TimeReq", "dl_UtilityBase", "dl_IntuitionBase">> >>)

RootNode_h == Struct(<<
     <<Long, "rn_TaskArray", "rn_ConsoleSegment">>, <<tags.DateStamp, "rn_Time">>,
     <<Long, "rn_RestartSeg", "rn_Info", "rn_FileHandlerSegment">>,
     <<tags.MinList, "rn_CliList">>, <<Ptr, "rn_BootProc">>,
     <<Long, "rn_ShellSegment", "rn_Flags">> >>)

CliProcList_h == Struct(<<
     <<tags.MinNode, "cpl_Node">>, <<Long, "cpl_First">>, <<Ptr, "cpl_Array">> >>)

DosInfo_h == Struct(<<
     <<Long, "di_McName", "di_DevInfo", "di_Devices", "di_Handlers">>, <<Ptr, "di_NetHand">>,
     <<tags.SignalSemaphore, "di_DevLock", "di_EntryLock", "di_DeleteLock">> >>)

Segment_h == Struct(<<
     <<Long, "seg_Next", "seg_UC", "seg_Seg">>, <<Array(Byte, 4), "seg_Name">> >>)

CommandLineInterface_h == Struct(<<
     <<Long, "cli_Result2", "cli_SetName", "cli_CommandDir", "cli_ReturnCode", "cli_CommandName", "cli_FailLevel", "cli_Prompt", "cli_StandardInput", "cli_CurrentInput", "cli_CommandFile", "cli_Interactive", "cli_Background", "cli_CurrentOutput", "cli_DefaultStack", "cli_StandardOutput", "cli_Module">> >>)

DeviceList_h == Struct(<<
     <<Long, "dl_Next", "dl_Type">>, <<Ptr, "dl_Task">>, <<Long, "dl_Lock">>,
     <<tags.DateStamp, "dl_VolumeDate">>,
     <<Long, "dl_LockList", "dl_DiskType", "dl_unused", "dl_Name">> >>)

DevInfo_h == Struct(<<
     <<Long, "dvi_Next", "dvi_Type">>, <<Ptr, "dvi_Task">>,
     <<Long, "dvi_Lock", "dvi_Handler", "dvi_StackSize", "dvi_Priority", "dvi_Startup", "dvi_SegList", "dvi_GlobVec", "dvi_Name">> >>)

DosList_h == Struct(<<
     <<Long, "dol_Next", "dol_Type">>, <<Ptr, "dol_Task">>, <<Long, "dol_Lock">>,
     <<Inner(Union(<<<<Inner(Struct(<<<<Long, "dol_Handler", "dol_StackSize", "dol_Priority", "dol_Startup", "dol_SegList", "dol_GlobVec">>>>)), "dol_handler">>, <<Inner(Struct(<<<<tags.DateStamp, "dol_VolumeDate">>, <<Long, "dol_LockList", "dol_DiskType">>>>)), "dol_volume">>, <<Inner(Struct(<<<<Ptr, "dol_AssignName", "dol_List">>>>)), "dol_assign">>>>)), "dol_misc">>,
     <<Long, "dol_Name">> >>)

DevProc_h == Struct(<<
     <<Ptr, "dvp_Port">>, <<Long, "dvp_Lock", "dvp_Flags">>, <<Ptr, "dvp_DevNode">> >>)

FileLock_h == Struct(<<
     <<Long, "fl_Link", "fl_Key", "fl_Access">>, <<Ptr, "fl_Task">>, <<Long, "fl_Volume">> >>)

ExAllData_h == Struct(<<
     <<Ptr, "ed_Next", "ed_Name">>,
     <<Long, "ed_Type", "ed_Size", "ed_Prot", "ed_Days", "ed_Mins", "ed_Ticks">>,
     <<Ptr, "ed_Comment">>, <<Word, "ed_OwnerUID", "ed_OwnerGID">> >>)

ExAllControl_h == Struct(<<
     <<Long, "eac_Entries", "eac_LastKey">>, <<Ptr, "eac_MatchString", "eac_MatchFunc">> >>)

DosEnvec_h == Struct(<<
     <<Long, "de_TableSize", "de_SizeBlock", "de_SecOrg", "de_Surfaces", "de_SectorPerBlock", "de_BlocksPerTrack", "de_Reserved", "de_PreAlloc", "de_Interleave", "de_LowCyl", "de_HighCyl", "de_NumBuffers", "de_BufMemType", "de_MaxTransfer", "de_Mask", "de_BootPri", "de_DosType", "de_Baud", "de_Control", "de_BootBlocks">> >>)

FileSysStartupMsg_h == Struct(<<
     <<Long, "fssm_Unit", "fssm_Device", "fssm_Environ", "fssm_Flags">> >>)

DeviceNode_h == Struct(<<
     <<Long, "dn_Next", "dn_Type">>, <<Ptr, "dn_Task">>,
     <<Long, "dn_Lock", "dn_Handler", "dn_StackSize", "dn_Priority", "dn_Startup", "dn_SegList", "dn_GlobalVec", "dn_Name">> >>)

NotifyMessage_h == Struct(<<
     <<tags.Message, "nm_ExecMessage">>, <<Long, "nm_Class">>, <<Word, "nm_Code">>,
     <<Ptr, "nm_NReq">>, <<Long, "nm_DoNotTouch", "nm_DoNotTouch2">> >>)

NotifyRequest_h == Struct(<<
     <<Ptr, "nr_Name", "nr_FullName">>, <<Long, "nr_UserData", "nr_Flags">>,
     <<Inner(Union(<<<<Inner(Struct(<<<<Ptr, "nr_Port">>>>)), "nr_Msg">>, <<Inner(Struct(<<<<Ptr, "nr_Task">>, <<Byte, "nr_SignalNum">>, <<Array(Byte, 3), "nr_pad">>>>)), "nr_Signal">>>>)), "nr_stuff">>,
     <<Array(Long, 4), "nr_Reserved">>, <<Long, "nr_MsgCount">>, <<Ptr, "nr_Handler">> >>)

CSource_h == Struct(<< <<Ptr, "CS_Buffer">>, <<Long, "CS_Length", "CS_CurChr">> >>)

RDArgs_h == Struct(<<
     <<tags.CSource, "RDA_Source">>, <<Long, "RDA_DAList">>, <<Ptr, "RDA_Buffer">>,
     <<Long, "RDA_BufSiz">>, <<Ptr, "RDA_ExtHelp">>, <<Long, "RDA_Flags">> >>)

RecordLock_h == Struct(<< <<Long, "rec_FH", "rec_Offset", "rec_Length", "rec_Mode">> >>)

LocalVar_h == Struct(<<
     <<tags.Node, "lv_Node">>, <<Word, "lv_Flags">>, <<Ptr, "lv_Value">>, <<Long, "lv_Len">> >>)
=============================================================================
