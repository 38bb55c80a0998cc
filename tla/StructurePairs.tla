--------------------------- MODULE StructurePairs ----------------------------
(***************************************************************************)
(* A program reads the structures one after the other, those first that    *)
(* others are made of: the assembler defines the names of each, the C      *)
(* compiler its tag, and what comes later is measured with them.           *)
(***************************************************************************)
EXTENDS SystemIncludes, ProgramIncludes, SystemStructs, ProgramStructs

Pair(k) ==
  CASE k = 1 -> Both("Node", LN_i, Node_h)
    [] k = 2 -> Both("List", LH_i, List_h)
    [] k = 3 -> Both("MsgPort", MP_i, MsgPort_h)
    [] k = 4 -> Both("Unit", UNIT_i, Unit_h)
    [] k = 5 -> Both("Library", LIB_i, Library_h)
    [] k = 6 -> Both("IntVector", IV_i, IntVector_h)
    [] k = 7 -> Both("SoftIntList", SH_i, SoftIntList_h)
    [] k = 8 -> Both("MinList", MLH_i, MinList_h)
    [] k = 9 -> Both("ExecBase", ExecBase_i, ExecBase_h)
    [] k = 10 -> Both("Interrupt", IS_i, Interrupt_h)
    [] k = 11 -> Both("Message", MN_i, Message_h)
    [] k = 12 -> Both("IOStdReq", IO_i, IOStdReq_h)
    [] k = 13 -> Both("MemEntry", ME_i, MemEntry_h)
    [] k = 14 -> Both("MemList", ML_i, MemList_h)
    [] k = 15 -> Both("MemHandlerData", MemHandlerData_i, MemHandlerData_h)
    [] k = 16 -> Both("MemHeader", MH_i, MemHeader_h)
    [] k = 17 -> Both("MemChunk", MC_i, MemChunk_h)
    [] k = 18 -> Both("MinNode", MLN_i, MinNode_h)
    [] k = 19 -> Both("Resident", RT_i, Resident_h)
    [] k = 20 -> Both("SemaphoreRequest", SSR_i, SemaphoreRequest_h)
    [] k = 21 -> Both("SignalSemaphore", SS_i, SignalSemaphore_h)
    [] k = 22 -> Both("SemaphoreMessage", SemaphoreMessage_i, SemaphoreMessage_h)
    [] k = 23 -> Both("Semaphore", SM_i, Semaphore_h)
    [] k = 24 -> Both("Task", TC_Struct_i, Task_h)
    [] k = 25 -> Both("StackSwapStruct", StackSwapStruct_i, StackSwapStruct_h)
    [] k = 26 -> Both("ClockData", CLOCKDATA_i, ClockData_h)
    [] k = 27 -> Both("Hook", HOOK_i, Hook_h)
    [] k = 28 -> Both("NamedObject", NamedObject_i, NamedObject_h)
    [] k = 29 -> Both("TagItem", TagItem_i, TagItem_h)
    [] k = 30 -> Both("UtilityBase", UtilityBase_i, UtilityBase_h)
    [] k = 31 -> Both("bltnode", bltnode_i, bltnode_h)
    [] k = 32 -> Both("Rectangle", Rectangle_i, Rectangle_h)
    [] k = 33 -> Both("Layer", Layer_i, Layer_h)
    [] k = 34 -> Both("ClipRect", ClipRect_i, ClipRect_h)
    [] k = 35 -> Both("CopIns", CopIns_i, CopIns_h)
    [] k = 36 -> Both("cprlist", cprlist_i, cprlist_h)
    [] k = 37 -> Both("CopList", CopList_i, CopList_h)
    [] k = 38 -> Both("UCopList", UCopList_i, UCopList_h)
    [] k = 39 -> Both("copinit", copinit_i, copinit_h)
    [] k = 40 -> Both("QueryHeader", QueryHeader_i, QueryHeader_h)
    [] k = 41 -> Both("tPoint", tPoint_i, tPoint_h)
    [] k = 42 -> Both("DisplayInfo", DisplayInfo_i, DisplayInfo_h)
    [] k = 43 -> Both("DimensionInfo", DimensionInfo_i, DimensionInfo_h)
    [] k = 44 -> Both("MonitorInfo", MonitorInfo_i, MonitorInfo_h)
    [] k = 45 -> Both("NameInfo", NameInfo_i, NameInfo_h)
    [] k = 46 -> Both("VecInfo", VecInfo_i, VecInfo_h)
    [] k = 47 -> Both("VSprite", VS_i, VSprite_h)
    [] k = 48 -> Both("Bob", BOB_i, Bob_h)
    [] k = 49 -> Both("AnimComp", AC_i, AnimComp_h)
    [] k = 50 -> Both("AnimOb", AO_i, AnimOb_h)
    [] k = 51 -> Both("DBufPacket", DBP_i, DBufPacket_h)
    [] k = 52 -> Both("BitMap", BitMap_i, BitMap_h)
    [] k = 53 -> Both("Rect32", Rect32_i, Rect32_h)
    [] k = 54 -> Both("AnalogSignalInterval", AnalogSignalInterval_i, AnalogSignalInterval_h)
    [] k = 55 -> Both("GfxBase", GfxBase_i, GfxBase_h)
    [] k = 56 -> Both("ExtendedNode", XLN_i, ExtendedNode_h)
    [] k = 57 -> Both("Layer_Info", Layer_Info_i, Layer_Info_h)
    [] k = 58 -> Both("SpecialMonitor", SpecialMonitor_i, SpecialMonitor_h)
    [] k = 59 -> Both("MonitorSpec", MonitorSpec_i, MonitorSpec_h)
    [] k = 60 -> Both("TmpRas", TmpRas_i, TmpRas_h)
    [] k = 61 -> Both("GelsInfo", GelsInfo_i, GelsInfo_h)
    [] k = 62 -> Both("RastPort", RastPort_i, RastPort_h)
    [] k = 63 -> Both("AreaInfo", AreaInfo_i, AreaInfo_h)
    [] k = 64 -> Both("Region", Region_i, Region_h)
    [] k = 65 -> Both("RegionRectangle", RegionRectangle_i, RegionRectangle_h)
    [] k = 66 -> Both("BitScaleArgs", BitScaleArgs_i, BitScaleArgs_h)
    [] k = 67 -> Both("SimpleSprite", SimpleSprite_i, SimpleSprite_h)
    [] k = 68 -> Both("ExtSprite", ExtSprite_i, ExtSprite_h)
    [] k = 69 -> Both("TextAttr", TextAttr_i, TextAttr_h)
    [] k = 70 -> Both("TTextAttr", TTextAttr_i, TTextAttr_h)
    [] k = 71 -> Both("TextFont", TextFont_i, TextFont_h)
    [] k = 72 -> Both("TextFontExtension", TextFontExtension_i, TextFontExtension_h)
    [] k = 73 -> Both("ColorFontColors", ColorFontColors_i, ColorFontColors_h)
    [] k = 74 -> Both("ColorTextFont", ColorTextFont_i, ColorTextFont_h)
    [] k = 75 -> Both("TextExtent", TextExtent_i, TextExtent_h)
    [] k = 76 -> Both("ColorMap", ColorMap_i, ColorMap_h)
    [] k = 77 -> Both("PaletteExtra", PaletteExtra_i, PaletteExtra_h)
    [] k = 78 -> Both("ViewPort", ViewPort_i, ViewPort_h)
    [] k = 79 -> Both("View", View_i, View_h)
    [] k = 80 -> Both("ViewExtra", ViewExtra_i, ViewExtra_h)
    [] k = 81 -> Both("ViewPortExtra", ViewPortExtra_i, ViewPortExtra_h)
    [] k = 82 -> Both("collTable", collTable_i, collTable_h)
    [] k = 83 -> Both("RasInfo", RasInfo_i, RasInfo_h)
    [] k = 84 -> Both("DBufInfo", DBufInfo_i, DBufInfo_h)
    [] k = 85 -> Both("IORequest", Nothing, IORequest_h)
    [] k = 86 -> Both("IOAudio", IOAudio_i, IOAudio_h)
    [] k = 87 -> Both("BootBlock", BB_i, BootBlock_h)
    [] k = 88 -> Both("CDInfo", CDINFO_i, CDInfo_h)
    [] k = 89 -> Both("RMSF", RMSF_i, RMSF_h)
    [] k = 90 -> Both("CDXL", CDXL_i, CDXL_h)
    [] k = 91 -> Both("LSNMSF", Nothing, LSNMSF_h)
    [] k = 92 -> Both("TOCSummary", TOCSummary_i, TOCSummary_h)
    [] k = 93 -> Both("TOCEntry", TOCEntry_i, TOCEntry_h)
    [] k = 94 -> Both("QCode", QCODE_i, QCode_h)
    [] k = 95 -> Both("ClipboardUnitPartial", ClipboardUnitPartial_i, ClipboardUnitPartial_h)
    [] k = 96 -> Both("IOClipReq", IOClipReq_i, IOClipReq_h)
    [] k = 97 -> Both("SatisfyMsg", SatisfyMsg_i, SatisfyMsg_h)
    [] k = 98 -> Both("ClipHookMsg", ClipHookMsg_i, ClipHookMsg_h)
    [] k = 99 -> Both("KeyMap", KeyMap_i, KeyMap_h)
    [] k = 100 -> Both("ConUnit", ConUnit_i, ConUnit_h)
    [] k = 101 -> Both("GamePortTrigger", GamePortTrigger_i, GamePortTrigger_h)
    [] k = 102 -> Both("RigidDiskBlock", RigidDiskBlock_i, RigidDiskBlock_h)
    [] k = 103 -> Both("BadBlockEntry", BadBlockEntry_i, BadBlockEntry_h)
    [] k = 104 -> Both("BadBlockBlock", BadBlockBlock_i, BadBlockBlock_h)
    [] k = 105 -> Both("PartitionBlock", PartitionBlock_i, PartitionBlock_h)
    [] k = 106 -> Both("FileSysHeaderBlock", FileSysHeaderBlock_i, FileSysHeaderBlock_h)
    [] k = 107 -> Both("LoadSegBlock", LoadSegBlock_i, LoadSegBlock_h)
    [] k = 108 -> Both("IEPointerPixel", IEPointerPixel_i, IEPointerPixel_h)
    [] k = 109 -> Both("IEPointerTablet", IEPointerTablet_i, IEPointerTablet_h)
    [] k = 110 -> Both("IENewTablet", IENewTablet_i, IENewTablet_h)
    [] k = 111 -> Both("timeval", TIMEVAL_i, timeval_h)
    [] k = 112 -> Both("InputEvent", InputEvent_i, InputEvent_h)
    [] k = 113 -> Both("KeyMapNode", KeyMapNode_i, KeyMapNode_h)
    [] k = 114 -> Both("KeyMapResource", KeyMapResource_i, KeyMapResource_h)
    [] k = 115 -> Both("narrator_rb", NDI_i, narrator_rb_h)
    [] k = 116 -> Both("mouth_rb", MRB_i, mouth_rb_h)
    [] k = 117 -> Both("IOPArray", PTERMARRAY_i, IOPArray_h)
    [] k = 118 -> Both("IOExtPar", IOEXTPAR_i, IOExtPar_h)
    [] k = 119 -> Both("IOPrtCmdReq", IOPrtCmdReq_i, IOPrtCmdReq_h)
    [] k = 120 -> Both("IODRPReq", IODRPReq_i, IODRPReq_h)
    [] k = 121 -> Both("IODRPTagsReq", IODRPTagsReq_i, IODRPTagsReq_h)
    [] k = 122 -> Both("DRPSourceMsg", DRPSourceMsg_i, DRPSourceMsg_h)
    [] k = 123 -> Both("IOPrtPrefsReq", IOPrtPrefsReq_i, IOPrtPrefsReq_h)
    [] k = 124 -> Both("IOPrtErrReq", IOPrtErrReq_i, IOPrtErrReq_h)
    [] k = 125 -> Both("PrtErrMsg", PrtErrMsg_i, PrtErrMsg_h)
    [] k = 126 -> Both("IOPrefsReq", IOPrefsReq_i, IOPrefsReq_h)
    [] k = 127 -> Both("DeviceData", DeviceData_i, DeviceData_h)
    [] k = 128 -> Both("IOTArray", TERMARRAY_i, IOTArray_h)
    [] k = 129 -> Both("IOExtSer", IOEXTSER_i, IOExtSer_h)
    [] k = 130 -> Both("timerequest", TIMEREQUEST_i, timerequest_h)
    [] k = 131 -> Both("Preferences", Preferences_i, Preferences_h)
    [] k = 132 -> Both("PrinterData", PrinterData_i, PrinterData_h)
    [] k = 133 -> Both("PrinterExtendedData", PrinterExtendedData_i, PrinterExtendedData_h)
    [] k = 134 -> Both("PrinterSegment", PrinterSegment_i, PrinterSegment_h)
    [] k = 135 -> Both("PrtDriverPreferences", PrtDriverPreferences_i, PrtDriverPreferences_h)
    [] k = 136 -> Both("colorEntry", colorEntry_i, colorEntry_h)
    [] k = 137 -> Both("PrtInfo", PrtInfo_i, PrtInfo_h)
    [] k = 138 -> Both("SCSICmd", SCSICmd_i, SCSICmd_h)
    [] k = 139 -> Both("EClockVal", ECLOCKVAL_i, EClockVal_h)
    [] k = 140 -> Both("IOExtTD", IOEXTTD_i, IOExtTD_h)
    [] k = 141 -> Both("DriveGeometry", DriveGeometry_i, DriveGeometry_h)
    [] k = 142 -> Both("TDU_PublicUnit", TDU_PUBLICUNIT_i, TDU_PublicUnit_h)
    [] k = 143 -> Both("CardHandle", CardHandle_i, CardHandle_h)
    [] k = 144 -> Both("DeviceTData", DeviceTData_i, DeviceTData_h)
    [] k = 145 -> Both("CardMemoryMap", CardMemoryMap_i, CardMemoryMap_h)
    [] k = 146 -> Both("TP_AmigaXIP", TP_AmigaXIP_i, TP_AmigaXIP_h)
    [] k = 147 -> Both("DiscResourceUnit", DISCRESOURCEUNIT_i, DiscResourceUnit_h)
    [] k = 148 -> Both("DiscResource", DISCRESOURCE_i, DiscResource_h)
    [] k = 149 -> Both("FileSysResource", FileSysResource_i, FileSysResource_h)
    [] k = 150 -> Both("FileSysEntry", FileSysEntry_i, FileSysEntry_h)
    [] k = 151 -> Both("resources_MathIEEEResource", resources_MathIEEEResourceResource_i, resources_MathIEEEResource_h)
    [] k = 152 -> Both("DateStamp", DateStamp_i, DateStamp_h)
    [] k = 153 -> Both("DateTime", DateTime_i, DateTime_h)
    [] k = 154 -> Both("FileInfoBlock", FileInfoBlock_i, FileInfoBlock_h)
    [] k = 155 -> Both("InfoData", InfoData_i, InfoData_h)
    [] k = 156 -> Both("AnchorPath", AnchorPath_i, AnchorPath_h)
    [] k = 157 -> Both("AChain", AChain_i, AChain_h)
    [] k = 158 -> Both("Process", Process_i, Process_h)
    [] k = 159 -> Both("FileHandle", FileHandle_i, FileHandle_h)
    [] k = 160 -> Both("DosPacket", DosPacket_i, DosPacket_h)
    [] k = 161 -> Both("StandardPacket", StandardPacket_i, StandardPacket_h)
    [] k = 162 -> Both("ErrorString", ErrorString_i, ErrorString_h)
    [] k = 163 -> Both("DosLibrary", DosLibrary_i, DosLibrary_h)
    [] k = 164 -> Both("RootNode", RootNode_i, RootNode_h)
    [] k = 165 -> Both("CliProcList", CliProcList_i, CliProcList_h)
    [] k = 166 -> Both("DosInfo", DosInfo_i, DosInfo_h)
    [] k = 167 -> Both("Segment", Segment_i, Segment_h)
    [] k = 168 -> Both("CommandLineInterface", CommandLineInterface_i, CommandLineInterface_h)
    [] k = 169 -> Both("DeviceList", DevList_i, DeviceList_h)
    [] k = 170 -> Both("DevInfo", DevInfo_i, DevInfo_h)
    [] k = 171 -> Both("DosList", DosList_i, DosList_h)
    [] k = 172 -> Both("DevProc", DevProc_i, DevProc_h)
    [] k = 173 -> Both("FileLock", FileLock_i, FileLock_h)
    [] k = 174 -> Both("ExAllData", ExAllData_i, ExAllData_h)
    [] k = 175 -> Both("ExAllControl", ExAllControl_i, ExAllControl_h)
    [] k = 176 -> Both("DosEnvec", DosEnvec_i, DosEnvec_h)
    [] k = 177 -> Both("FileSysStartupMsg", FileSysStartupMsg_i, FileSysStartupMsg_h)
    [] k = 178 -> Both("DeviceNode", DeviceNode_i, DeviceNode_h)
    [] k = 179 -> Both("NotifyMessage", NotifyMessage_i, NotifyMessage_h)
    [] k = 180 -> Both("NotifyRequest", NotifyRequest_i, NotifyRequest_h)
    [] k = 181 -> Both("CSource", CSource_i, CSource_h)
    [] k = 182 -> Both("RDArgs", RDArgs_i, RDArgs_h)
    [] k = 183 -> Both("RecordLock", RecordLock_i, RecordLock_h)
    [] k = 184 -> Both("LocalVar", LocalVar_i, LocalVar_h)
    [] k = 185 -> Both("AnimHeader", AnimHeader_i, AnimHeader_h)
    [] k = 186 -> Both("adtFrame", adtFrame_i, adtFrame_h)
    [] k = 187 -> Both("adtNewFormatFrame", adtNewFormatFrame_i, adtNewFormatFrame_h)
    [] k = 188 -> Both("adtStart", adtStart_i, adtStart_h)
    [] k = 189 -> Both("DataTypeHeader", DataTypeHeader_i, DataTypeHeader_h)
    [] k = 190 -> Both("DTHookContext", DTHookContext_i, DTHookContext_h)
    [] k = 191 -> Both("Tool", Tool_i, Tool_h)
    [] k = 192 -> Both("DataType", DataType_i, DataType_h)
    [] k = 193 -> Both("ToolNode", ToolNode_i, ToolNode_h)
    [] k = 194 -> Both("DTSpecialInfo", DTSpecialInfo_i, DTSpecialInfo_h)
    [] k = 195 -> Both("DTMethod", DTMethod_i, DTMethod_h)
    [] k = 196 -> Both("FrameInfo", FrameInfo_i, FrameInfo_h)
    [] k = 197 -> Both("dtGeneral", dtGeneral_i, dtGeneral_h)
    [] k = 198 -> Both("dtSelect", dtSelect_i, dtSelect_h)
    [] k = 199 -> Both("dtFrameBox", dtFrameBox_i, dtFrameBox_h)
    [] k = 200 -> Both("dtGoto", dtGoto_i, dtGoto_h)
    [] k = 201 -> Both("dtTrigger", dtTrigger_i, dtTrigger_h)
    [] k = 202 -> Both("dtDraw", dtDraw_i, dtDraw_h)
    [] k = 203 -> Both("dtWrite", dtWrite_i, dtWrite_h)
    [] k = 204 -> Both("pdtBlitPixelArray", pdtBlitPixelArray_i, pdtBlitPixelArray_h)
    [] k = 205 -> Both("pdtScale", pdtScale_i, pdtScale_h)
    [] k = 206 -> Both("BitMapHeader", BitMapHeader_i, BitMapHeader_h)
    [] k = 207 -> Both("ColorRegister", ColorRegister_i, ColorRegister_h)
    [] k = 208 -> Both("VoiceHeader", VoiceHeader_i, VoiceHeader_h)
    [] k = 209 -> Both("Line", Line_i, Line_h)
    [] k = 210 -> Both("FontContents", FC_i, FontContents_h)
    [] k = 211 -> Both("TFontContents", TFC_i, TFontContents_h)
    [] k = 212 -> Both("FontContentsHeader", FCH_i, FontContentsHeader_h)
    [] k = 213 -> Both("DiskFontHeader", DiskFontHeader_i, DiskFontHeader_h)
    [] k = 214 -> Both("AvailFonts", AF_i, AvailFonts_h)
    [] k = 215 -> Both("TAvailFonts", TAF_i, TAvailFonts_h)
    [] k = 216 -> Both("AvailFontsHeader", AFH_i, AvailFontsHeader_h)
    [] k = 217 -> Both("GlyphEngine", GlyphEngine_i, GlyphEngine_h)
    [] k = 218 -> Both("GlyphMap", GlyphMap_i, GlyphMap_h)
    [] k = 219 -> Both("GlyphWidthEntry", GlyphWidthEntry_i, GlyphWidthEntry_h)
    [] k = 220 -> Both("ColorWheelHSB", ColorWheelHSB_i, ColorWheelHSB_h)
    [] k = 221 -> Both("ColorWheelRGB", ColorWheelRGB_i, ColorWheelRGB_h)
    [] k = 222 -> Both("IBox", IBox_i, IBox_h)
    [] k = 223 -> Both("GadgetInfo", GadgetInfo_i, GadgetInfo_h)
    [] k = 224 -> Both("IClass", ICLASS_i, IClass_h)
    [] k = 225 -> Both("_Object", _Object_i, _Object_h)
    [] k = 226 -> Both("ClassLibrary", ClassLibrary_i, ClassLibrary_h)
    [] k = 227 -> Both("Msg", Msg_i, Msg_h)
    [] k = 228 -> Both("opSet", opSet_i, opSet_h)
    [] k = 229 -> Both("opUpdate", opUpdate_i, opUpdate_h)
    [] k = 230 -> Both("opGet", opGet_i, opGet_h)
    [] k = 231 -> Both("opAddTail", opAddTail_i, opAddTail_h)
    [] k = 232 -> Both("opMember", opMember_i, opMember_h)
    [] k = 233 -> Both("MsgHeader", MsgHeader_i, Nothing)
    [] k = 234 -> Both("gpHitTest", gpHitTest_i, gpHitTest_h)
    [] k = 235 -> Both("gpRender", gpRender_i, gpRender_h)
    [] k = 236 -> Both("gpInput", gpInput_i, gpInput_h)
    [] k = 237 -> Both("gpGoInactive", gpGoInactive_i, gpGoInactive_h)
    [] k = 238 -> Both("gpLayout", gpLayout_i, gpLayout_h)
    [] k = 239 -> Both("gpDomain", gpDomain_i, gpDomain_h)
    [] k = 240 -> Both("gpKeyTest", gpKeyTest_i, gpKeyTest_h)
    [] k = 241 -> Both("gpKeyInput", gpKeyInput_i, gpKeyInput_h)
    [] k = 242 -> Both("gpKeyGoInactive", gpKeyGoInactive_i, gpKeyGoInactive_h)
    [] k = 243 -> Both("impFrameBox", impFrameBox_i, impFrameBox_h)
    [] k = 244 -> Both("impDraw", impDraw_i, impDraw_h)
    [] k = 245 -> Both("impErase", impErase_i, impErase_h)
    [] k = 246 -> Both("impHitTest", impHitTest_i, impHitTest_h)
    [] k = 247 -> Both("impDomainFrame", impDomainFrame_i, impDomainFrame_h)
    [] k = 248 -> Both("Menu", Menu_i, Menu_h)
    [] k = 249 -> Both("MenuItem", MenuItem_i, MenuItem_h)
    [] k = 250 -> Both("Requester", Requester_i, Requester_h)
    [] k = 251 -> Both("Gadget", Gadget_i, Gadget_h)
    [] k = 252 -> Both("ExtGadget", ExtGadget_i, ExtGadget_h)
    [] k = 253 -> Both("BoolInfo", BoolInfo_i, BoolInfo_h)
    [] k = 254 -> Both("PropInfo", PropInfo_i, PropInfo_h)
    [] k = 255 -> Both("StringInfo", StringInfo_i, StringInfo_h)
    [] k = 256 -> Both("IntuiText", IntuiText_i, IntuiText_h)
    [] k = 257 -> Both("Border", Border_i, Border_h)
    [] k = 258 -> Both("Image", Image_i, Image_h)
    [] k = 259 -> Both("IntuiMessage", IntuiMessage_i, IntuiMessage_h)
    [] k = 260 -> Both("ExtIntuiMessage", ExtIntuiMessage_i, ExtIntuiMessage_h)
    [] k = 261 -> Both("Window", Window_i, Window_h)
    [] k = 262 -> Both("NewWindow", NewWindow_i, NewWindow_h)
    [] k = 263 -> Both("ExtNewWindow", ExtNewWindow_i, ExtNewWindow_h)
    [] k = 264 -> Both("Remember", Remember_i, Remember_h)
    [] k = 265 -> Both("ColorSpec", ColorSpec_i, ColorSpec_h)
    [] k = 266 -> Both("EasyStruct", EasyStruct_i, EasyStruct_h)
    [] k = 267 -> Both("TabletData", TabletData_i, TabletData_h)
    [] k = 268 -> Both("TabletHookData", TabletHookData_i, TabletHookData_h)
    [] k = 269 -> Both("IntuitionBase", IntuitionBase_i, IntuitionBase_h)
    [] k = 270 -> Both("DrawInfo", DrawInfo_i, DrawInfo_h)
    [] k = 271 -> Both("Screen", Screen_i, Screen_h)
    [] k = 272 -> Both("NewScreen", NewScreen_i, NewScreen_h)
    [] k = 273 -> Both("ExtNewScreen", ExtNewScreen_i, ExtNewScreen_h)
    [] k = 274 -> Both("PubScreenNode", PubScreenNode_i, PubScreenNode_h)
    [] k = 275 -> Both("ScreenBuffer", ScreenBuffer_i, ScreenBuffer_h)
    [] k = 276 -> Both("StringExtend", StringExtend_i, StringExtend_h)
    [] k = 277 -> Both("SGWork", SGWork_i, SGWork_h)
    [] k = 278 -> Both("AmigaGuideMsg", AmigaGuideMsg_i, AmigaGuideMsg_h)
    [] k = 279 -> Both("NewAmigaGuide", NewAmigaGuide_i, NewAmigaGuide_h)
    [] k = 280 -> Both("XRef", XRef_i, XRef_h)
    [] k = 281 -> Both("AmigaGuideHost", AmigaGuideHost_i, AmigaGuideHost_h)
    [] k = 282 -> Both("opFindHost", opFindHost_i, opFindHost_h)
    [] k = 283 -> Both("opNodeIO", opNodeIO_i, opNodeIO_h)
    [] k = 284 -> Both("opExpungeNode", opExpungeNode_i, opExpungeNode_h)
    [] k = 285 -> Both("FileRequester", FileRequester_i, FileRequester_h)
    [] k = 286 -> Both("FontRequester", FontRequester_i, FontRequester_h)
    [] k = 287 -> Both("ScreenModeRequester", ScreenModeRequester_i, ScreenModeRequester_h)
    [] k = 288 -> Both("DisplayMode", DisplayMode_i, DisplayMode_h)
    [] k = 289 -> Both("NewBroker", NewBroker_i, NewBroker_h)
    [] k = 290 -> Both("InputXpression", InputXpression_i, InputXpression_h)
    [] k = 291 -> Both("ExpansionRom", ExpansionRom_i, ExpansionRom_h)
    [] k = 292 -> Both("ExpansionControl", ExpansionControl_i, ExpansionControl_h)
    [] k = 293 -> Both("DiagArea", DiagArea_i, DiagArea_h)
    [] k = 294 -> Both("ConfigDev", ConfigDev_i, ConfigDev_h)
    [] k = 295 -> Both("CurrentBinding", CurrentBinding_i, CurrentBinding_h)
    [] k = 296 -> Both("BootNode", BootNode_i, BootNode_h)
    [] k = 297 -> Both("ExpansionBase", ExpansionBase_i, ExpansionBase_h)
    [] k = 298 -> Both("NewGadget", NewGadget_i, NewGadget_h)
    [] k = 299 -> Both("NewMenu", NewMenu_i, NewMenu_h)
    [] k = 300 -> Both("LVDrawMsg", LVDrawMsg_i, LVDrawMsg_h)
    [] k = 301 -> Both("IFFHandle", IFFHandle_i, IFFHandle_h)
    [] k = 302 -> Both("IFFStreamCmd", IFFStreamCmd_i, IFFStreamCmd_h)
    [] k = 303 -> Both("ContextNode", ContextNode_i, ContextNode_h)
    [] k = 304 -> Both("LocalContextItem", LocalContextItem_i, LocalContextItem_h)
    [] k = 305 -> Both("StoredProperty", StoredProperty_i, StoredProperty_h)
    [] k = 306 -> Both("CollectionItem", CollectionItem_i, CollectionItem_h)
    [] k = 307 -> Both("ClipboardHandle", ClipboardHandle_i, ClipboardHandle_h)
    [] k = 308 -> Both("LocaleBase", LocaleBase_i, LocaleBase_h)
    [] k = 309 -> Both("Locale", Locale_i, Locale_h)
    [] k = 310 -> Both("Catalog", Catalog_i, Catalog_h)
    [] k = 311 -> Both("KeyQuery", KeyQuery_i, KeyQuery_h)
    [] k = 312 -> Both("MathIEEEBase", MathIEEEBase_i, MathIEEEBase_h)
    [] k = 313 -> Both("libraries_MathIEEEResource", libraries_MathIEEEResourceResource_i, libraries_MathIEEEResource_h)
    [] k = 314 -> Both("NVInfo", NVInfo_i, NVInfo_h)
    [] k = 315 -> Both("NVEntry", NVEntry_i, NVEntry_h)
    [] k = 316 -> Both("Conductor", Conductor_i, Conductor_h)
    [] k = 317 -> Both("Player", Player_i, Player_h)
    [] k = 318 -> Both("pmTime", pmTime_i, pmTime_h)
    [] k = 319 -> Both("pmState", pmState_i, pmState_h)
    [] k = 320 -> Both("RealTimeBase", RealTimeBase_i, RealTimeBase_h)
    [] k = 321 -> Both("AslPrefs", AslPrefs_i, AslPrefs_h)
    [] k = 322 -> Both("FontPrefs", FontPrefs_i, FontPrefs_h)
    [] k = 323 -> Both("IControlPrefs", IControlPrefs_i, IControlPrefs_h)
    [] k = 324 -> Both("InputPrefs", InputPrefs_i, InputPrefs_h)
    [] k = 325 -> Both("CountryPrefs", CountryPrefs_i, CountryPrefs_h)
    [] k = 326 -> Both("LocalePrefs", LocalePrefs_i, LocalePrefs_h)
    [] k = 327 -> Both("OverscanPrefs", OverscanPrefs_i, OverscanPrefs_h)
    [] k = 328 -> Both("PalettePrefs", PalettePrefs_i, PalettePrefs_h)
    [] k = 329 -> Both("PointerPrefs", PointerPrefs_i, PointerPrefs_h)
    [] k = 330 -> Both("RGBTable", RGBTable_i, RGBTable_h)
    [] k = 331 -> Both("PrefHeader", PrefHeader_i, PrefHeader_h)
    [] k = 332 -> Both("PrinterGfxPrefs", PrinterGfxPrefs_i, PrinterGfxPrefs_h)
    [] k = 333 -> Both("PrinterPSPrefs", PrinterPSPrefs_i, PrinterPSPrefs_h)
    [] k = 334 -> Both("PrinterTxtPrefs", PrinterTxtPrefs_i, PrinterTxtPrefs_h)
    [] k = 335 -> Both("PrinterUnitPrefs", PrinterUnitPrefs_i, PrinterUnitPrefs_h)
    [] k = 336 -> Both("PrinterDeviceUnitPrefs", PrinterDeviceUnitPrefs_i, PrinterDeviceUnitPrefs_h)
    [] k = 337 -> Both("ScreenModePrefs", ScreenModePrefs_i, ScreenModePrefs_h)
    [] k = 338 -> Both("SerialPrefs", SerialPrefs_i, SerialPrefs_h)
    [] k = 339 -> Both("SoundPrefs", SoundPrefs_i, SoundPrefs_h)
    [] k = 340 -> Both("WBPatternPrefs", WBPatternPrefs_i, WBPatternPrefs_h)
    [] k = 341 -> Both("WorkbenchPrefs", WorkbenchPrefs_i, WorkbenchPrefs_h)
    [] k = 342 -> Both("WorkbenchHiddenDevicePrefs", WorkbenchHiddenDevicePrefs_i, WorkbenchHiddenDevicePrefs_h)
    [] k = 343 -> Both("RexxRsrc", RexxRsrc_i, RexxRsrc_h)
    [] k = 344 -> Both("IoBuff", IoBuff_i, IoBuff_h)
    [] k = 345 -> Both("RexxMsgPort", RexxMsgPort_i, RexxMsgPort_h)
    [] k = 346 -> Both("RxsLib", RxsLib_i, RxsLib_h)
    [] k = 347 -> Both("NexxStr", NexxStr_i, NexxStr_h)
    [] k = 348 -> Both("RexxArg", RexxArg_i, RexxArg_h)
    [] k = 349 -> Both("RexxMsg", RexxMsg_i, RexxMsg_h)
    [] k = 350 -> Both("RexxTask", RexxTask_i, RexxTask_h)
    [] k = 351 -> Both("SrcNode", SrcNode_i, SrcNode_h)
    [] k = 352 -> Both("IconIdentifyMsg", IconIdentifyMsg_i, IconIdentifyMsg_h)
    [] k = 353 -> Both("WBStartup", WBStartup_i, WBStartup_h)
    [] k = 354 -> Both("WBArg", WBArg_i, WBArg_h)
    [] k = 355 -> Both("DrawerData", DrawerData_i, DrawerData_h)
    [] k = 356 -> Both("DiskObject", DiskObject_i, DiskObject_h)
    [] k = 357 -> Both("FreeList", FreeList_i, FreeList_h)
    [] k = 358 -> Both("AppMessage", AppMessage_i, AppMessage_h)
    [] k = 359 -> Both("AppWindow", AppWindow_i, AppWindow_h)
    [] k = 360 -> Both("AppWindowDropZone", AppWindowDropZone_i, AppWindowDropZone_h)
    [] k = 361 -> Both("AppIcon", AppIcon_i, AppIcon_h)
    [] k = 362 -> Both("AppMenuItem", AppMenuItem_i, AppMenuItem_h)
    [] k = 363 -> Both("AppMenu", AppMenu_i, AppMenu_h)
    [] k = 364 -> Both("SetupCleanupHookMsg", SetupCleanupHookMsg_i, SetupCleanupHookMsg_h)
    [] k = 365 -> Both("AppIconRenderMsg", AppIconRenderMsg_i, AppIconRenderMsg_h)
    [] k = 366 -> Both("AppWindowDropZoneMsg", AppWindowDropZoneMsg_i, AppWindowDropZoneMsg_h)
    [] k = 367 -> Both("IconSelectMsg", IconSelectMsg_i, IconSelectMsg_h)
    [] k = 368 -> Both("CopyBeginMsg", CopyBeginMsg_i, CopyBeginMsg_h)
    [] k = 369 -> Both("CopyDataMsg", CopyDataMsg_i, CopyDataMsg_h)
    [] k = 370 -> Both("CopyEndMsg", CopyEndMsg_i, CopyEndMsg_h)
    [] k = 371 -> Both("DeleteBeginMsg", DeleteBeginMsg_i, DeleteBeginMsg_h)
    [] k = 372 -> Both("DeleteDataMsg", DeleteDataMsg_i, DeleteDataMsg_h)
    [] k = 373 -> Both("DeleteEndMsg", DeleteEndMsg_i, DeleteEndMsg_h)
    [] k = 374 -> Both("TextInputMsg", TextInputMsg_i, TextInputMsg_h)

Count == 374

Init ==
  /\ symbols = <<>>
  /\ tags = <<>>
  /\ read = 0
  /\ latest = Both("", Nothing, Nothing)

Read ==
  /\ read < Count
  /\ read' = read + 1
  /\ latest' = Pair(read')
  /\ symbols' = latest'.asm.at @@ symbols
  /\ tags' = (latest'.name :> latest'.c) @@ tags

Next == Read

(***************************************************************************)
(* The two descriptions of a structure agree when each field that both     *)
(* name has one offset, and when both are as long.                         *)
(***************************************************************************)
Described == Nothing \notin {latest.asm, latest.c}
FieldsAgree == \A x \in DOMAIN latest.asm.at \cap DOMAIN latest.c.at : latest.asm.at[x] = latest.c.at[x]
SizesAgree == latest.asm.size = latest.c.size
=============================================================================
