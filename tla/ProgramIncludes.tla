-------------------------- MODULE ProgramIncludes ---------------------------
(***************************************************************************)
(* The same for intuition, libraries, datatypes, gadgets, prefs, workbench *)
(* and others.                                                             *)
(***************************************************************************)
EXTENDS Layouts

Preferences_i == Structure(0, <<
     <<BYTE, "FontHeight", "PrinterPort">>, <<WORD, "BaudRate">>,
     <<symbols.TV_SIZE, "KeyRptSpeed", "KeyRptDelay", "DoubleClick">>,
     <<36 * 2, "PointerMatrix">>, <<BYTE, "XOffset", "YOffset">>,
     <<WORD, "color17", "color18", "color19", "PointerTicks", "color0", "color1", "color2", "color3">>,
     <<BYTE, "ViewXOffset", "ViewYOffset">>, <<WORD, "ViewInitX", "ViewInitY">>,
     <<BOOL, "EnableCLI">>, <<WORD, "PrinterType">>, <<30, "PrinterFilename">>,
     <<WORD, "PrintPitch", "PrintQuality", "PrintSpacing", "PrintLeftMargin", "PrintRightMargin", "PrintImage", "PrintAspect", "PrintShade", "PrintThreshold", "PaperSize", "PaperLength", "PaperType">>,
     <<BYTE, "SerRWBits", "SerStopBuf", "SerParShk", "LaceWB">>, <<12, "Pad">>,
     <<16, "PrtDevName">>, <<UBYTE, "DefaultPrtUnit", "DefaultSerUnit">>,
     <<BYTE, "RowSizeChange", "ColumnSizeChange">>, <<UWORD, "PrintFlags">>,
     <<WORD, "PrintMaxWidth">>, <<UWORD, "PrintMaxHeight">>,
     <<UBYTE, "PrintDensity", "PrintXOffset">>, <<UWORD, "wb_Width", "wb_Height">>,
     <<UBYTE, "wb_Depth", "ext_size">>, <<LABEL, "pf_SIZEOF">> >>)

AnimHeader_i == Structure(0, <<
     <<UBYTE, "ah_Operation", "ah_Mask">>, <<UWORD, "ah_Width", "ah_Height">>,
     <<WORD, "ah_Left", "ah_Top">>, <<ULONG, "ah_AbsTime", "ah_RelTime">>,
     <<UBYTE, "ah_Interleave", "ah_Pad0">>, <<ULONG, "ah_Flags">>, <<16, "ah_Pad">>,
     <<LABEL, "AnimHeader_SIZEOF">> >>)

adtFrame_i == Structure(0, <<
     <<ULONG, "MethodID", "alf_TimeStamp", "alf_Frame", "alf_Duration">>,
     <<APTR, "alf_BitMap", "alf_CMap", "alf_Sample">>,
     <<ULONG, "alf_SampleLength", "alf_Period">>, <<APTR, "alf_UserData">>,
     <<LABEL, "adtFrame_SIZEOF">> >>)

adtNewFormatFrame_i == Structure(0, <<
     <<ULONG, "MethodID", "alf_TimeStamp", "alf_Frame", "alf_Duration">>,
     <<APTR, "alf_BitMap", "alf_CMap", "alf_Sample">>,
     <<ULONG, "alf_SampleLength", "alf_Period">>, <<APTR, "alf_UserData">>,
     <<ULONG, "alf_Size">>, <<APTR, "alf_LeftSample", "alf_RightSample">>,
     <<ULONG, "alf_SamplesPerSec">>, <<LABEL, "adtFrame_SIZEOF">> >>)

adtStart_i == Structure(0, <<
     <<ULONG, "MethodID", "asa_Frame">>, <<LABEL, "adtStart_SIZEOF">> >>)

DataTypeHeader_i == Structure(0, <<
     <<ULONG, "dth_Name", "dth_BaseName", "dth_Pattern">>, <<APTR, "dth_Mask">>,
     <<ULONG, "dth_GroupID", "dth_ID">>, <<WORD, "dth_MaskLen", "dth_Pad">>,
     <<UWORD, "dth_Flags", "dth_Priority">>, <<LABEL, "DataTypeHeader_SIZEOF">> >>)

DTHookContext_i == Structure(0, <<
     <<APTR, "dthc_SysBase", "dthc_DOSBase", "dthc_IFFParseBase", "dthc_UtilityBase">>,
     <<BPTR, "dthc_Lock">>, <<APTR, "dthc_FIB">>, <<BPTR, "dthc_FileHandle">>,
     <<APTR, "dthc_IFF", "dthc_Buffer">>, <<ULONG, "dthc_BufferLength">>,
     <<LABEL, "DTHookContext_SIZEOF">> >>)

Tool_i == Structure(0, <<
     <<UWORD, "tn_Which", "tn_Flags">>, <<APTR, "tn_Program">>, <<LABEL, "Tool_SIZEOF">> >>)

DataType_i == Structure(0, <<
     <<symbols.LN_SIZE, "dtn_Node1", "dtn_Node2">>, <<APTR, "dtn_Header">>,
     <<symbols.LH_SIZE, "dtn_ToolList">>, <<APTR, "dtn_FunctionName", "dtn_AttrList">>,
     <<ULONG, "dtn_Length">>, <<LABEL, "DataType_SIZEOF">> >>)

ToolNode_i == Structure(0, <<
     <<symbols.LN_SIZE, "tn_Node">>, <<symbols.Tool_SIZEOF, "tn_Tool">>,
     <<ULONG, "tn_Length">>, <<LABEL, "ToolNode_SIZEOF">> >>)

DTSpecialInfo_i == Structure(0, <<
     <<symbols.SS_SIZE, "si_Lock">>, <<ULONG, "si_Flags">>,
     <<LONG, "si_TopVert", "si_VisVert", "si_TotVert", "si_OTopVert", "si_VertUnit", "si_TopHoriz", "si_VisHoriz", "si_TotHoriz", "si_OTopHoriz", "si_HorizUnit">>,
     <<LABEL, "DTSpecialInfo_SIZEOF">> >>)

DTMethod_i == Structure(0, <<
     <<APTR, "dtm_Label", "dtm_Command">>, <<ULONG, "dtm_Method">>,
     <<LABEL, "DTMethod_SIZEOF">> >>)

FrameInfo_i == Structure(0, <<
     <<ULONG, "fri_PropertyFlags">>, <<symbols.tpt_SIZEOF, "fri_Resolution">>,
     <<UBYTE, "fri_RedBits", "fri_GreenBits", "fri_BlueBits">>, <<BYTE, "fri_Pad">>,
     <<ULONG, "fri_Dimensions", "Height", "Depth">>, <<APTR, "fri_Screen", "fri_ColorMap">>,
     <<ULONG, "fri_Flags">>, <<LABEL, "FrameInfo_SIZEOF">> >>)

dtGeneral_i == Structure(4, << <<APTR, "dtg_GInfo">> >>)

dtSelect_i == Structure(4, << <<APTR, "dts_GInfo">>, <<symbols.ra_SIZEOF, "dts_Select">> >>)

dtFrameBox_i == Structure(4, <<
     <<APTR, "dtf_GInfo", "dtf_ContentsInfo", "dtf_FrameInfo">>,
     <<ULONG, "dtf_SizeFrameInfo", "dtf_FrameFlags">> >>)

dtGoto_i == Structure(4, << <<APTR, "dtg_GInfo", "dtg_NodeName", "dtg_AttrList">> >>)

dtTrigger_i == Structure(4, <<
     <<APTR, "dtt_GInfo">>, <<ULONG, "dtt_Function">>, <<APTR, "dtt_Data">> >>)

dtDraw_i == Structure(4, <<
     <<APTR, "dtd_RPort">>,
     <<LONG, "dtd_Left", "dtd_Top", "dtd_Width", "dtd_Height", "dtd_TopHoriz", "dtd_TopVert">>,
     <<APTR, "dtd_AttrList">> >>)

dtWrite_i == Structure(4, <<
     <<APTR, "dtw_GInfo">>, <<BPTR, "dtw_FileHandle">>, <<ULONG, "dtw_Mode">>,
     <<APTR, "dtw_AttrList">> >>)

pdtBlitPixelArray_i == Structure(0, <<
     <<ULONG, "MethodID">>, <<APTR, "pbpa_PixelData">>,
     <<ULONG, "pbpa_PixelFormat", "pbpa_PixelArrayMod", "pbpa_Left", "pbpa_Top", "pbpa_Width", "pbpa_Height">>,
     <<LABEL, "pdtBlitPixelArray_SIZEOF">> >>)

pdtScale_i == Structure(0, <<
     <<ULONG, "MethodID", "ps_NewWidth", "ps_NewHeight", "ps_Flags">>,
     <<LABEL, "pdtScale_SIZEOF">> >>)

BitMapHeader_i == Structure(0, <<
     <<UWORD, "bmh_Width", "bmh_Height">>, <<WORD, "bmh_Left", "bmh_Top">>,
     <<UBYTE, "bmh_Depth", "bmh_Masking", "bmh_Compression", "bmh_Pad">>,
     <<UWORD, "bmh_Transparent">>, <<UBYTE, "bmh_XAspect", "bmh_YAspect">>,
     <<WORD, "bmh_PageWidth", "bmh_PageHeight">>, <<LABEL, "BitMapHeader_SIZEOF">> >>)

ColorRegister_i == Structure(0, <<
     <<UBYTE, "red", "green", "blue">>, <<LABEL, "ColorRegister_SIZEOF">> >>)

VoiceHeader_i == Structure(0, <<
     <<ULONG, "vh_OneShotHiSamples", "vh_RepeatHiSamples", "vh_SamplesPerHiCycle">>,
     <<UWORD, "vh_SamplesPerSec">>, <<UBYTE, "vh_Octaves", "vh_Compression">>,
     <<ULONG, "vh_Volume">>, <<LABEL, "VoiceHeader_SIZEOF">> >>)

Line_i == Structure(0, <<
     <<symbols.MLN_SIZE, "ln_Link">>, <<APTR, "ln_Text">>, <<ULONG, "ln_TextLen">>,
     <<UWORD, "ln_XOffset", "ln_YOffset", "ln_Width", "ln_Height", "ln_Flags">>,
     <<BYTE, "ln_FgPen", "ln_BgPen">>, <<ULONG, "ln_Style">>, <<APTR, "ln_Data">>,
     <<LABEL, "Line_SIZEOF">> >>)

FC_i == Structure(0, <<
     <<256, "fc_FileName">>, <<UWORD, "fc_YSize">>, <<UBYTE, "fc_Style", "fc_Flags">>,
     <<LABEL, "fc_SIZEOF">> >>)

TFC_i == Structure(0, <<
     <<256-2, "tfc_FileName">>, <<UWORD, "tfc_TagCount", "tfc_YSize">>,
     <<UBYTE, "tfc_Style", "tfc_Flags">>, <<LABEL, "tfc_SIZEOF">> >>)

FCH_i == Structure(0, << <<UWORD, "fch_FileID", "fch_NumEntries">>, <<LABEL, "fch_FC">> >>)

DiskFontHeader_i == Structure(0, <<
     <<symbols.LN_SIZE, "dfh_DF">>, <<UWORD, "dfh_FileID", "dfh_Revision">>,
     <<LONG, "dfh_Segment">>, <<32, "dfh_Name">>, <<symbols.tf_SIZEOF, "dfh_TF">>,
     <<LABEL, "dfh_SIZEOF">> >>)

AF_i == Structure(0, <<
     <<UWORD, "af_Type">>, <<symbols.ta_SIZEOF, "af_Attr">>, <<LABEL, "af_SIZEOF">> >>)

TAF_i == Structure(0, <<
     <<UWORD, "taf_Type">>, <<symbols.tta_SIZEOF, "taf_Attr">>, <<LABEL, "taf_SIZEOF">> >>)

AFH_i == Structure(0, << <<UWORD, "afh_NumEntries">>, <<LABEL, "afh_AF">> >>)

GlyphEngine_i == Structure(0, << <<APTR, "gle_Library", "gle_Name">> >>)

GlyphMap_i == Structure(0, <<
     <<UWORD, "glm_BMModulo", "glm_BMRows", "glm_BlackLeft", "glm_BlackTop", "glm_BlackWidth", "glm_BlackHeight">>,
     <<ULONG, "glm_XOrigin", "glm_YOrigin">>, <<WORD, "glm_X0", "glm_Y0", "glm_X1", "glm_Y1">>,
     <<ULONG, "glm_Width">>, <<APTR, "glm_BitMap">>, <<LABEL, "GlyphMap_SIZEOF">> >>)

GlyphWidthEntry_i == Structure(0, <<
     <<symbols.MLN_SIZE, "gwe_Node">>, <<UWORD, "gwe_Code">>, <<ULONG, "gwe_Width">>,
     <<LABEL, "GlyphWidthEntry_SIZEOF">> >>)

ColorWheelHSB_i == Structure(0, <<
     <<ULONG, "cw_Hue", "cw_Saturation", "cw_Brightness">>, <<LABEL, "ColorWheelHSB_SIZEOF">> >>)

ColorWheelRGB_i == Structure(0, <<
     <<ULONG, "cw_Red", "cw_Green", "cw_Blue">>, <<LABEL, "ColorWheelRGB_SIZEOF">> >>)

IBox_i == Structure(0, <<
     <<WORD, "Left", "Top", "Width", "Height">>, <<LABEL, "ibox_SIZEOF">> >>)

GadgetInfo_i == Structure(0, <<
     <<APTR, "gi_Screen", "gi_Window", "gi_Requester", "gi_RastPort", "gi_Layer">>,
     <<symbols.ibox_SIZEOF, "gi_Domain">>, <<2, "gi_Pens">>, <<APTR, "gi_DrInfo">> >>)

ICLASS_i == Structure(0, <<
     <<symbols.h_SIZEOF, "cl_Dispatcher">>, <<ULONG, "cl_Reserved">>,
     <<APTR, "cl_Super", "cl_ID">>, <<UWORD, "cl_InstOffset", "cl_InstSize">>,
     <<ULONG, "cl_UserData", "cl_SubclassCount", "cl_ObjectCount", "cl_Flags">> >>)

_Object_i == Structure(0, <<
     <<symbols.MLN_SIZE, "o_Node">>, <<APTR, "o_Class">>, <<LABEL, "_object_SIZEOF">> >>)

ClassLibrary_i == Structure(0, <<
     <<symbols.LIB_SIZE, "cl_Lib">>, <<UWORD, "cl_Pad">>, <<APTR, "cl_Class">>,
     <<LABEL, "ClassLibrary_SIZEOF">> >>)

Msg_i == Structure(0, << <<ULONG, "MethodID">> >>)

opSet_i == Structure(4, << <<APTR, "ops_AttrList", "ops_GInfo">> >>)

opUpdate_i == Structure(4, << <<APTR, "opu_AttrList", "opu_GInfo">>, <<ULONG, "opu_Flags">> >>)

opGet_i == Structure(4, << <<ULONG, "opg_AttrID">>, <<APTR, "opg_Storage">> >>)

opAddTail_i == Structure(4, << <<APTR, "opat_List">> >>)

opMember_i == Structure(4, << <<APTR, "opam_Object">> >>)

MsgHeader_i == Structure(0, << <<ULONG, "MethodID">>, <<LABEL, "methodid_SIZEOF">> >>)

gpHitTest_i == Structure(symbols.methodid_SIZEOF, <<
     <<APTR, "gpht_GInfo">>, <<WORD, "gpht_Mouse", "gpht_MouseY">> >>)

gpRender_i == Structure(symbols.methodid_SIZEOF, <<
     <<APTR, "gpr_GInfo", "gpr_RPort">>, <<LONG, "gpr_Redraw">> >>)

gpInput_i == Structure(symbols.methodid_SIZEOF, <<
     <<APTR, "gpi_GInfo", "gpi_IEvent", "gpi_Termination">>,
     <<WORD, "gpi_Mouse", "gpi_MouseY">>, <<APTR, "gpi_TabletData">> >>)

gpGoInactive_i == Structure(symbols.methodid_SIZEOF, <<
     <<APTR, "gpgi_GInfo">>, <<ULONG, "gpgi_Abort">> >>)

gpLayout_i == Structure(symbols.methodid_SIZEOF, << <<APTR, "gpl_GInfo", "gpl_Initial">> >>)

gpDomain_i == Structure(symbols.methodid_SIZEOF, <<
     <<APTR, "gpd_GInfo", "gpd_RPort">>, <<LONG, "gpd_Which">>,
     <<symbols.ibox_SIZEOF, "gpd_Domain">>, <<APTR, "gpd_Attrs">> >>)

gpKeyTest_i == Structure(symbols.methodid_SIZEOF, <<
     <<APTR, "gpkt_GInfo", "gpkt_IMsg">>, <<ULONG, "gpkt_VanillaKey">> >>)

gpKeyInput_i == Structure(symbols.methodid_SIZEOF, <<
     <<APTR, "gpk_GInfo", "gpk_IEvent", "gpk_Termination">> >>)

gpKeyGoInactive_i == Structure(symbols.methodid_SIZEOF, <<
     <<APTR, "gpki_GInfo">>, <<ULONG, "gpki_Abort">> >>)

impFrameBox_i == Structure(4, <<
     <<APTR, "imp_ContentsBox", "imp_FrameBox", "imp_DrInfo">>, <<LONG, "imp_FrameFlags">> >>)

impDraw_i == Structure(4, <<
     <<APTR, "imp_RPort">>, <<WORD, "imp_Offset", "impd_OffsetY">>, <<ULONG, "imp_State">>,
     <<APTR, "imp_DrInfo">>, <<WORD, "imp_Dimensions", "impd_DimensionsHeight">> >>)

impErase_i == Structure(4, <<
     <<APTR, "imp_RPort">>,
     <<WORD, "imp_Offset", "impe_OffsetY", "imp_Dimensions", "impe_DimensionsHeight">> >>)

impHitTest_i == Structure(4, <<
     <<WORD, "imp_Point", "imph_PointY", "imp_Dimensions", "imph_DimensionsHeight">> >>)

impDomainFrame_i == Structure(4, <<
     <<APTR, "imp_DrInfo", "imp_RPort">>, <<LONG, "imp_Which">>,
     <<symbols.ibox_SIZEOF, "imp_Domain">>, <<APTR, "imp_Attrs">> >>)

Menu_i == Structure(0, <<
     <<APTR, "NextMenu">>, <<WORD, "LeftEdge", "TopEdge", "Width", "Height", "Flags">>,
     <<APTR, "MenuName", "FirstItem">>, <<WORD, "JazzX", "JazzY", "BeatX", "BeatY">>,
     <<LABEL, "mu_SIZEOF">> >>)

MenuItem_i == Structure(0, <<
     <<APTR, "NextItem">>, <<WORD, "LeftEdge", "TopEdge", "Width", "Height", "Flags">>,
     <<LONG, "MutualExclude">>, <<APTR, "ItemFill", "SelectFill">>,
     <<BYTE, "Command", "mi_KludgeFill00">>, <<APTR, "SubItem">>, <<WORD, "NextSelect">>,
     <<LABEL, "mi_SIZEOF">> >>)

Requester_i == Structure(0, <<
     <<APTR, "OlderRequest">>,
     <<WORD, "LeftEdge", "TopEdge", "Width", "Height", "RelLeft", "RelTop">>,
     <<APTR, "ReqGadget", "ReqBorder", "ReqText">>, <<WORD, "Flags">>, <<UBYTE, "BackFill">>,
     <<BYTE, "rq_KludgeFill00">>, <<APTR, "ReqLayer">>, <<32, "ReqPad1">>,
     <<APTR, "ImageBMap", "RWindow", "ReqImage">>, <<32, "ReqPad2">>, <<LABEL, "rq_SIZEOF">> >>)

Gadget_i == Structure(0, <<
     <<APTR, "NextGadget">>,
     <<WORD, "LeftEdge", "TopEdge", "Width", "Height", "Flags", "Activation", "GadgetType">>,
     <<APTR, "GadgetRender", "SelectRender", "GadgetText">>, <<LONG, "MutualExclude">>,
     <<APTR, "SpecialInfo">>, <<WORD, "GadgetID">>, <<APTR, "UserData">>,
     <<LABEL, "gg_SIZEOF">> >>)

ExtGadget_i == Structure(0, <<
     <<APTR, "NextGadget">>,
     <<WORD, "LeftEdge", "TopEdge", "Width", "Height", "Flags", "Activation", "GadgetType">>,
     <<APTR, "GadgetRender", "SelectRender", "GadgetText">>, <<LONG, "MutualExclude">>,
     <<APTR, "SpecialInfo">>, <<WORD, "GadgetID">>, <<APTR, "UserData">>,
     <<ULONG, "MoreFlags">>,
     <<WORD, "BoundsLeftEdge", "BoundsTopEdge", "BoundsWidth", "BoundsHeight">>,
     <<LABEL, "egg_SIZEOF">> >>)

BoolInfo_i == Structure(0, <<
     <<WORD, "Flags">>, <<APTR, "Mask">>, <<LONG, "Reserved">>, <<LABEL, "bi_SIZEOF">> >>)

PropInfo_i == Structure(0, <<
     <<WORD, "Flags", "HorizPot", "VertPot", "HorizBody", "VertBody", "CWidth", "CHeight", "HPotRes", "VPotRes", "LeftBorder", "TopBorder">>,
     <<LABEL, "pi_SIZEOF">> >>)

StringInfo_i == Structure(0, <<
     <<APTR, "Buffer", "UndoBuffer">>,
     <<WORD, "BufferPos", "MaxChars", "DispPos", "UndoPos", "NumChars", "DispCount", "CLeft", "CTop">>,
     <<APTR, "Extension">>, <<LONG, "LongInt">>, <<APTR, "AltKeyMap">>, <<LABEL, "si_SIZEOF">> >>)

IntuiText_i == Structure(0, <<
     <<BYTE, "FrontPen", "BackPen", "DrawMode", "it_KludgeFill00">>,
     <<WORD, "LeftEdge", "TopEdge">>, <<APTR, "ITextFont", "IText", "NextText">>,
     <<LABEL, "it_SIZEOF">> >>)

Border_i == Structure(0, <<
     <<WORD, "LeftEdge", "TopEdge">>, <<BYTE, "FrontPen", "BackPen", "DrawMode", "Count">>,
     <<APTR, "XY", "NextBorder">>, <<LABEL, "bd_SIZEOF">> >>)

Image_i == Structure(0, <<
     <<WORD, "LeftEdge", "TopEdge", "Width", "Height", "Depth">>, <<APTR, "ImageData">>,
     <<BYTE, "PlanePick", "PlaneOnOff">>, <<APTR, "NextImage">>, <<LABEL, "ig_SIZEOF">> >>)

IntuiMessage_i == Structure(0, <<
     <<symbols.MN_SIZE, "ExecMessage">>, <<LONG, "Class">>, <<WORD, "Code", "Qualifier">>,
     <<APTR, "IAddress">>, <<WORD, "MouseX", "MouseY">>, <<LONG, "Seconds", "Micros">>,
     <<APTR, "IDCMPWindow", "SpecialLink">>, <<LABEL, "im_SIZEOF">> >>)

ExtIntuiMessage_i == Structure(0, <<
     <<symbols.im_SIZEOF, "eim_IntuiMessage">>, <<APTR, "eim_TabletData">> >>)

Window_i == Structure(0, <<
     <<APTR, "NextWindow">>,
     <<WORD, "LeftEdge", "TopEdge", "Width", "Height", "MouseY", "MouseX", "MinWidth", "MinHeight", "MaxWidth", "MaxHeight">>,
     <<LONG, "Flags">>, <<APTR, "MenuStrip", "Title", "FirstRequest", "DMRequest">>,
     <<WORD, "ReqCount">>, <<APTR, "WScreen", "RPort">>,
     <<BYTE, "BorderLeft", "BorderTop", "BorderRight", "BorderBottom">>,
     <<APTR, "BorderRPort", "FirstGadget", "Parent", "Descendant", "Pointer">>,
     <<BYTE, "PtrHeight", "PtrWidth", "XOffset", "YOffset">>, <<ULONG, "IDCMPFlags">>,
     <<APTR, "UserPort", "WindowPort", "MessageKey">>, <<BYTE, "DetailPen", "BlockPen">>,
     <<APTR, "CheckMark", "ScreenTitle">>,
     <<WORD, "GZZMouseX", "GZZMouseY", "GZZWidth", "GZZHeight">>,
     <<APTR, "ExtData", "UserData", "WLayer", "IFont">>, <<ULONG, "MoreFlags">>,
     <<LABEL, "wd_Size", "wd_SIZEOF">> >>)

NewWindow_i == Structure(0, <<
     <<WORD, "LeftEdge", "TopEdge", "Width", "Height">>, <<BYTE, "DetailPen", "BlockPen">>,
     <<LONG, "IDCMPFlags", "Flags">>,
     <<APTR, "FirstGadget", "CheckMark", "Title", "Screen", "BitMap">>,
     <<WORD, "MinWidth", "MinHeight", "MaxWidth", "MaxHeight", "Type">>,
     <<LABEL, "nw_SIZE", "nw_SIZEOF">> >>)

ExtNewWindow_i == Structure(symbols.nw_SIZE, <<
     <<APTR, "Extension">>, <<LABEL, "enw_SIZEOF">> >>)

Remember_i == Structure(0, <<
     <<APTR, "NextRemember">>, <<LONG, "RememberSize">>, <<APTR, "Memory">>,
     <<LABEL, "rm_SIZEOF">> >>)

ColorSpec_i == Structure(0, <<
     <<WORD, "ColorIndex">>, <<UWORD, "Red", "Green", "Blue">>, <<LABEL, "cs_SIZEOF">> >>)

EasyStruct_i == Structure(0, <<
     <<ULONG, "es_StructSize", "es_Flags">>,
     <<APTR, "es_Title", "es_TextFormat", "es_GadgetFormat">>, <<LABEL, "EasyStruct_SIZEOF">> >>)

TabletData_i == Structure(0, <<
     <<UWORD, "td_XFraction", "td_YFraction">>,
     <<ULONG, "td_TabletX", "td_TabletY", "td_RangeX", "td_RangeY">>, <<APTR, "td_TagList">>,
     <<LABEL, "td_SIZEOF">> >>)

TabletHookData_i == Structure(0, <<
     <<APTR, "thd_Screen">>, <<ULONG, "thd_Width", "thd_Height">>,
     <<LONG, "thd_ScreenChanged">>, <<LABEL, "thd_SIZEOF">> >>)

IntuitionBase_i == Structure(0, <<
     <<symbols.LIB_SIZE, "LibNode">>, <<symbols.v_SIZEOF, "ViewLord">>,
     <<APTR, "ActiveWindow", "ActiveScreen", "FirstScreen">>, <<ULONG, "Flags">>,
     <<WORD, "MouseY", "MouseX">>, <<ULONG, "Seconds", "Micros">> >>)

DrawInfo_i == Structure(0, <<
     <<UWORD, "dri_Version", "dri_NumPens">>, <<APTR, "dri_Pens", "dri_Font">>,
     <<UWORD, "dri_Depth", "dri_Resolution", "dri_ResolutionY">>, <<ULONG, "dri_Flags">>,
     <<APTR, "dri_CheckMark", "dri_AmigaKey">>, <<20, "dri_Reserved">> >>)

Screen_i == Structure(0, <<
     <<APTR, "NextScreen", "FirstWindow">>,
     <<WORD, "LeftEdge", "TopEdge", "Width", "Height", "MouseY", "MouseX", "Flags">>,
     <<APTR, "Title", "DefaultTitle">>,
     <<BYTE, "BarHeight", "BarVBorder", "BarHBorder", "MenuVBorder", "MenuHBorder", "WBorTop", "WBorLeft", "WBorRight", "WBorBottom", "sc_KludgeFill00">>,
     <<APTR, "Font">>, <<symbols.vp_SIZEOF, "ViewPort">>, <<symbols.rp_SIZEOF, "RastPort">>,
     <<symbols.bm_SIZEOF, "BitMap">>, <<symbols.li_SIZEOF, "LayerInfo">>,
     <<APTR, "FirstGadget">>, <<BYTE, "DetailPen", "BlockPen">>, <<WORD, "SaveColor0">>,
     <<APTR, "BarLayer", "ExtData", "UserData">>, <<LABEL, "sc_SIZEOF">> >>)

NewScreen_i == Structure(0, <<
     <<WORD, "LeftEdge", "TopEdge", "Width", "Height", "Depth">>,
     <<BYTE, "DetailPen", "BlockPen">>, <<WORD, "ViewModes", "Type">>,
     <<APTR, "Font", "DefaultTitle", "Gadgets", "CustomBitMap">>, <<LABEL, "ns_SIZEOF">> >>)

ExtNewScreen_i == Structure(symbols.ns_SIZEOF, <<
     <<APTR, "Extension">>, <<LABEL, "ens_SIZEOF">> >>)

PubScreenNode_i == Structure(symbols.LN_SIZE, <<
     <<APTR, "psn_Screen">>, <<UWORD, "psn_Flags">>, <<WORD, "psn_Size", "psn_VisitorCount">>,
     <<APTR, "psn_SigTask">>, <<UBYTE, "psn_SigBit", "psn_Pad1">>, <<LABEL, "psn_SIZEOF">> >>)

ScreenBuffer_i == Structure(0, <<
     <<APTR, "sb_BitMap", "sb_DBufInfo">>, <<LABEL, "sb_SIZEOF">> >>)

StringExtend_i == Structure(0, <<
     <<APTR, "Font">>, <<2, "Pens", "ActivePens">>, <<ULONG, "InitialModes">>,
     <<APTR, "EditHook", "WorkBuffer">>, <<16, "Reserved">>, <<LABEL, "sex_SIZEOF">> >>)

SGWork_i == Structure(0, <<
     <<APTR, "Gadget", "StringInfo", "WorkBuffer", "PrevBuffer">>, <<ULONG, "Modes">>,
     <<APTR, "IEvent">>, <<UWORD, "Code">>, <<WORD, "BufferPos", "NumChars">>,
     <<ULONG, "Actions">>, <<LONG, "LongInt">>, <<APTR, "GadgetInfo">>, <<UWORD, "EditOp">>,
     <<LABEL, "sgw_SIZEOF">> >>)

AmigaGuideMsg_i == Structure(0, <<
     <<symbols.MN_SIZE, "agm_Msg">>, <<ULONG, "agm_Type">>, <<APTR, "agm_Data">>,
     <<ULONG, "agm_DSize", "agm_DType", "agm_Pri_Ret", "agm_Sec_Ret">>,
     <<APTR, "agm_System1", "agm_System2">>, <<LABEL, "AmigaGuideMsg_SIZEOF">> >>)

NewAmigaGuide_i == Structure(0, <<
     <<BPTR, "nag_Lock">>,
     <<APTR, "nag_Name", "nag_Screen", "nag_PubScreen", "nag_HostPort", "nag_ClientPort", "nag_BaseName">>,
     <<ULONG, "nag_Flags">>, <<APTR, "nag_Context", "nag_Node">>, <<LONG, "nag_Line">>,
     <<APTR, "nag_Extens", "nag_Client">>, <<LABEL, "NewAmigaGuide_SIZEOF">> >>)

XRef_i == Structure(0, <<
     <<symbols.LN_SIZE, "xr_Node">>, <<UWORD, "xr_Pad">>,
     <<APTR, "xr_DF", "xr_File", "xr_Name">>, <<LONG, "xr_Line">>, <<LABEL, "XRef_SIZEOF">> >>)

AmigaGuideHost_i == Structure(0, <<
     <<symbols.h_SIZEOF, "agh_Dispatcher">>,
     <<ULONG, "agh_Reserved", "agh_Flags", "agh_UseCnt">>,
     <<APTR, "agh_SystemData", "agh_UserData">>, <<LABEL, "AmigaGuideHost_SIZEOF">> >>)

opFindHost_i == Structure(0, <<
     <<APTR, "ofh_Attrs", "ofh_Node", "ofh_TOC", "ofh_Title", "ofh_Next", "ofh_Prev">> >>)

opNodeIO_i == Structure(0, <<
     <<APTR, "onm_Attrs", "onm_Node", "onm_FileName", "onm_DocBuffer">>,
     <<ULONG, "onm_BuffLen", "onm_Flags">> >>)

opExpungeNode_i == Structure(0, << <<APTR, "oen_Attrs">> >>)

FileRequester_i == Structure(4, <<
     <<APTR, "fr_File", "fr_Drawer">>, <<10, "fr_Reserved1">>,
     <<WORD, "fr_LeftEdge", "fr_TopEdge", "fr_Width", "fr_Height">>, <<2, "fr_Reserved2">>,
     <<LONG, "fr_NumArgs">>, <<APTR, "fr_ArgList", "fr_UserData">>, <<8, "fr_Reserved3">>,
     <<APTR, "fr_Pattern">> >>)

FontRequester_i == Structure(8, <<
     <<symbols.ta_SIZEOF, "fo_Attr">>,
     <<UBYTE, "fo_FrontPen", "fo_BackPen", "fo_DrawMode", "fo_Reserved1">>,
     <<APTR, "fo_UserData">>, <<WORD, "fo_LeftEdge", "fo_TopEdge", "fo_Width", "fo_Height">>,
     <<symbols.tta_SIZEOF, "fo_TAttr">> >>)

ScreenModeRequester_i == Structure(0, <<
     <<ULONG, "sm_DisplayID", "sm_DisplayWidth", "sm_DisplayHeight">>,
     <<UWORD, "sm_DisplayDepth", "sm_OverscanType", "sm_AutoScroll">>,
     <<ULONG, "sm_BitMapWidth", "sm_BitMapHeight">>,
     <<WORD, "sm_LeftEdge", "sm_TopEdge", "sm_Width", "sm_Height">>, <<BOOL, "sm_InfoOpened">>,
     <<WORD, "sm_InfoLeftEdge", "sm_InfoTopEdge", "sm_InfoWidth", "sm_InfoHeight">>,
     <<APTR, "sm_UserData">> >>)

DisplayMode_i == Structure(symbols.LN_SIZE, <<
     <<symbols.dim_SIZEOF, "dm_DimensionInfo">>, <<ULONG, "dm_PropertyFlags">>,
     <<LABEL, "DisplayMode_SIZEOF">> >>)

NewBroker_i == Structure(0, <<
     <<BYTE, "nb_Version", "nb_Reserve1">>, <<APTR, "nb_Name", "nb_Title", "nb_Descr">>,
     <<WORD, "nb_Unique", "nb_Flags">>, <<BYTE, "nb_Pri", "nb_Reserve2">>, <<APTR, "nb_Port">>,
     <<WORD, "nb_ReservedChannel">>, <<LABEL, "NewBroker_SIZEOF">> >>)

InputXpression_i == Structure(0, <<
     <<UBYTE, "ix_Version", "ix_Class">>,
     <<UWORD, "ix_Code", "ix_CodeMask", "ix_Qualifier", "ix_QualMask", "ix_QualSame">>,
     <<LABEL, "ix_SIZEOF">> >>)

ExpansionRom_i == Structure(0, <<
     <<UBYTE, "er_Type", "er_Product", "er_Flags", "er_Reserved03">>,
     <<UWORD, "er_Manufacturer">>, <<ULONG, "er_SerialNumber">>, <<UWORD, "er_InitDiagVec">>,
     <<UBYTE, "er_Reserved0c", "er_Reserved0d", "er_Reserved0e", "er_Reserved0f">>,
     <<LABEL, "ExpansionRom_SIZEOF">> >>)

ExpansionControl_i == Structure(0, <<
     <<UBYTE, "ec_Interrupt", "ec_Z3_HighBase", "ec_BaseAddress", "ec_Shutup", "ec_Reserved14", "ec_Reserved15", "ec_Reserved16", "ec_Reserved17", "ec_Reserved18", "ec_Reserved19", "ec_Reserved1a", "ec_Reserved1b", "ec_Reserved1c", "ec_Reserved1d", "ec_Reserved1e", "ec_Reserved1f">>,
     <<LABEL, "ExpansionControl_SIZEOF">> >>)

DiagArea_i == Structure(0, <<
     <<UBYTE, "da_Config", "da_Flags">>,
     <<UWORD, "da_Size", "da_DiagPoint", "da_BootPoint", "da_Name", "da_Reserved01", "da_Reserved02">>,
     <<LABEL, "DiagArea_SIZEOF">> >>)

ConfigDev_i == Structure(0, <<
     <<symbols.LN_SIZE, "cd_Node">>, <<UBYTE, "cd_Flags", "cd_Pad">>,
     <<symbols.ExpansionRom_SIZEOF, "cd_Rom">>, <<APTR, "cd_BoardAddr">>,
     <<ULONG, "cd_BoardSize">>, <<UWORD, "cd_SlotAddr", "cd_SlotSize">>,
     <<APTR, "cd_Driver", "cd_NextCD">>, <<4 * 4, "cd_Unused">>, <<LABEL, "ConfigDev_SIZEOF">> >>)

CurrentBinding_i == Structure(0, <<
     <<APTR, "cb_ConfigDev", "cb_FileName", "cb_ProductString", "cb_ToolTypes">>,
     <<LABEL, "CurrentBinding_SIZEOF">> >>)

BootNode_i == Structure(symbols.LN_SIZE, <<
     <<UWORD, "bn_Flags">>, <<APTR, "bn_DeviceNode">>, <<LABEL, "BootNode_SIZEOF">> >>)

ExpansionBase_i == Structure(symbols.LIB_SIZE, <<
     <<UBYTE, "Flags", "eb_Private01">>, <<ULONG, "eb_Private02", "eb_Private03">>,
     <<symbols.CurrentBinding_SIZEOF, "eb_Private04">>,
     <<symbols.LH_SIZE, "eb_Private05", "MountList">> >>)

NewGadget_i == Structure(0, <<
     <<WORD, "ng_LeftEdge", "ng_TopEdge", "ng_Width", "ng_Height">>,
     <<APTR, "ng_GadgetText", "ng_TextAttr">>, <<UWORD, "ng_GadgetID">>, <<ULONG, "ng_Flags">>,
     <<APTR, "ng_VisualInfo", "ng_UserData">>, <<LABEL, "gng_SIZEOF">> >>)

NewMenu_i == Structure(0, <<
     <<UBYTE, "nm_Type", "gnm_Pad">>, <<APTR, "nm_Label", "nm_CommKey">>,
     <<UWORD, "nm_Flags">>, <<LONG, "nm_MutualExclude">>, <<APTR, "nm_UserData">>,
     <<LABEL, "gnm_SIZEOF">> >>)

LVDrawMsg_i == Structure(0, <<
     <<ULONG, "lvdm_MethodID">>, <<APTR, "lvdm_RastPort", "lvdm_DrawInfo">>,
     <<symbols.ra_SIZEOF, "lvdm_Bounds">>, <<ULONG, "lvdm_State">> >>)

IFFHandle_i == Structure(0, <<
     <<ULONG, "iff_Stream", "iff_Flags">>, <<LONG, "iff_Depth">>, <<LABEL, "iff_SIZEOF">> >>)

IFFStreamCmd_i == Structure(0, <<
     <<LONG, "sc_Command">>, <<APTR, "sc_Buf">>, <<LONG, "sc_NBytes">>,
     <<LABEL, "isc_SIZEOF">> >>)

ContextNode_i == Structure(symbols.MLN_SIZE, <<
     <<LONG, "cn_ID", "cn_Type", "cn_Size", "cn_Scan">>, <<LABEL, "cn_SIZEOF">> >>)

LocalContextItem_i == Structure(symbols.MLN_SIZE, <<
     <<ULONG, "lci_ID", "lci_Type", "lci_Ident">>, <<LABEL, "lci_SIZEOF">> >>)

StoredProperty_i == Structure(0, <<
     <<LONG, "sp_Size">>, <<APTR, "sp_Data">>, <<LABEL, "spr_SIZEOF">> >>)

CollectionItem_i == Structure(0, <<
     <<APTR, "ci_Next">>, <<LONG, "ci_Size">>, <<APTR, "ci_Data">>, <<LABEL, "cit_SIZEOF">> >>)

ClipboardHandle_i == Structure(symbols.iocr_SIZEOF, <<
     <<symbols.MP_SIZE, "cbh_CBport", "cbh_SatisfyPort">>, <<LABEL, "cbh_SIZEOF">> >>)

LocaleBase_i == Structure(symbols.LIB_SIZE, << <<BOOL, "lb_SysPatches">> >>)

Locale_i == Structure(0, <<
     <<APTR, "loc_LocaleName", "loc_LanguageName">>, <<4 * 10, "loc_PrefLanguages">>,
     <<ULONG, "loc_Flags", "loc_CodeSet", "loc_CountryCode", "loc_TelephoneCode">>,
     <<LONG, "loc_GMTOffset">>, <<UBYTE, "loc_MeasuringSystem", "loc_CalendarType">>,
     <<2, "loc_Reserved0">>,
     <<APTR, "loc_DateTimeFormat", "loc_DateFormat", "loc_TimeFormat", "loc_ShortDateTimeFormat", "loc_ShortDateFormat", "loc_ShortTimeFormat", "loc_DecimalPoint", "loc_GroupSeparator", "loc_FracGroupSeparator", "loc_Grouping", "loc_FracGrouping", "loc_MonDecimalPoint", "loc_MonGroupSeparator", "loc_MonFracGroupSeparator", "loc_MonGrouping", "loc_MonFracGrouping">>,
     <<UBYTE, "loc_MonFracDigits", "loc_MonIntFracDigits">>, <<2, "loc_Reserved1">>,
     <<APTR, "loc_MonCS", "loc_MonSmallCS", "loc_MonIntCS", "loc_MonPositiveSign">>,
     <<UBYTE, "loc_MonPositiveSpaceSep", "loc_MonPositiveSignPos", "loc_MonPositiveCSPos", "loc_Reserved2">>,
     <<APTR, "loc_MonNegativeSign">>,
     <<UBYTE, "loc_MonNegativeSpaceSep", "loc_MonNegativeSignPos", "loc_MonNegativeCSPos", "loc_Reserved3">>,
     <<LABEL, "Locale_SIZEOF">> >>)

Catalog_i == Structure(symbols.LN_SIZE, <<
     <<UWORD, "cat_Pad">>, <<APTR, "cat_Language">>, <<ULONG, "cat_CodeSet">>,
     <<UWORD, "cat_Version", "cat_Revision">>, <<LABEL, "Catalog_SIZEOF">> >>)

KeyQuery_i == Structure(0, <<
     <<UWORD, "kq_KeyCode", "kq_Pressed">>, <<LABEL, "KeyQuery_SIZEOF">> >>)

MathIEEEBase_i == Structure(0, <<
     <<symbols.LIB_SIZE, "MathIEEEBase_LibNode">>, <<18, "MathIEEEBase_reserved">>,
     <<APTR, "MathIEEEBase_TaskOpenLib", "MathIEEEBase_TaskCloseLib">>,
     <<LABEL, "MathIEEEBase_SIZE">> >>)

libraries_MathIEEEResourceResource_i == Structure(0, <<
     <<symbols.LN_SIZE, "MathIEEEResource_Node">>, <<USHORT, "MathIEEEResource_Flags">>,
     <<APTR, "MathIEEEResource_BaseAddr", "MathIEEEResource_DblBasInit", "MathIEEEResource_DblTransInit", "MathIEEEResource_SglBasInit", "MathIEEEResource_SglTransInit", "MathIEEEResource_ExtBasInit", "MathIEEEResource_ExtTransInit">>,
     <<LABEL, "MathIEEEResourceResource_SIZE">> >>)

NVInfo_i == Structure(0, <<
     <<ULONG, "nvi_MaxStorage", "nvi_FreeStorage">>, <<LABEL, "NVINFO_SIZE">> >>)

NVEntry_i == Structure(0, <<
     <<symbols.MLN_SIZE, "nve_Node">>, <<APTR, "nve_Name">>,
     <<ULONG, "nve_Size", "nve_Protection">>, <<LABEL, "NVENTRY_SIZE">> >>)

Conductor_i == Structure(symbols.LN_SIZE, <<
     <<UWORD, "cdt_Reserved0">>, <<symbols.MLH_SIZE, "cdt_Players">>,
     <<ULONG, "cdt_ClockTime", "cdt_StartTime", "cdt_ExternalTime", "cdt_MaxExternalTime", "cdt_Metronome">>,
     <<UWORD, "cdt_Reserved1", "cdt_Flags">>, <<UBYTE, "cdt_State">>,
     <<LABEL, "Conductor_SIZEOF">> >>)

Player_i == Structure(symbols.LN_SIZE, <<
     <<BYTE, "pl_Reserved0", "pl_Reserved1">>, <<APTR, "pl_Hook", "pl_Source", "pl_Task">>,
     <<LONG, "pl_MetricTime", "pl_AlarmTime">>, <<APTR, "pl_UserData">>,
     <<UWORD, "pl_PlayerID", "pl_Flags">>, <<LABEL, "Player_SIZEOF">> >>)

pmTime_i == Structure(0, << <<ULONG, "pmt_Method", "pmt_Time">>, <<LABEL, "pmTime_SIZEOF">> >>)

pmState_i == Structure(0, <<
     <<ULONG, "pms_Method", "pms_OldState">>, <<LABEL, "pmState_SIZEOF">> >>)

RealTimeBase_i == Structure(symbols.LIB_SIZE, <<
     <<2, "rtb_Reserved0">>, <<ULONG, "rtb_Time", "rtb_TimeFrac">>,
     <<WORD, "rtb_Reserved1", "rtb_TickErr">>, <<LABEL, "RealTimeBase_SIZEOF">> >>)

AslPrefs_i == Structure(0, <<
     <<4 * 4, "ap_Reserved">>,
     <<UBYTE, "ap_SortBy", "ap_SortDrawers", "ap_SortOrder", "ap_SizePosition">>,
     <<WORD, "ap_RelativeLeft", "ap_RelativeTop">>,
     <<UBYTE, "ap_RelativeWidth", "ap_RelativeHeight">>, <<LABEL, "AslPrefs_SIZEOF">> >>)

FontPrefs_i == Structure(0, <<
     <<3 * 4, "fp_Reserved">>, <<UWORD, "fp_Reserved2", "fp_Type">>,
     <<UBYTE, "fp_FrontPen", "fp_BackPen", "fp_DrawMode">>,
     <<symbols.ta_SIZEOF, "fp_TextAttr">>, <<128, "fp_Name">>, <<LABEL, "FontPrefs_SIZEOF">> >>)

IControlPrefs_i == Structure(0, <<
     <<4 * 4, "ic_Reserved">>, <<UWORD, "ic_TimeOut">>, <<WORD, "ic_MetaDrag">>,
     <<ULONG, "ic_Flags">>,
     <<UBYTE, "ic_WBtoFront", "ic_FrontToBack", "ic_ReqTrue", "ic_ReqFalse">>,
     <<LABEL, "IControlPrefs_SIZEOF">> >>)

InputPrefs_i == Structure(0, <<
     <<16, "ip_Keymap">>, <<UWORD, "ip_PointerTicks">>,
     <<symbols.TV_SIZE, "ip_DoubleClick", "ip_KeyRptDelay", "ip_KeyRptSpeed">>,
     <<WORD, "ip_MouseAccel">>, <<LABEL, "InputPrefs_SIZEOF">> >>)

CountryPrefs_i == Structure(0, <<
     <<4 * 4, "cp_Reserved">>, <<ULONG, "cp_CountryCode", "cp_TelephoneCode">>,
     <<UBYTE, "cp_MeasuringSystem">>, <<80, "cp_DateTimeFormat">>,
     <<40, "cp_DateFormat", "cp_TimeFormat">>, <<80, "cp_ShortDateTimeFormat">>,
     <<40, "cp_ShortDateFormat", "cp_ShortTimeFormat">>,
     <<10, "cp_DecimalPoint", "cp_GroupSeparator", "cp_FracGroupSeparator", "cp_Grouping", "cp_FracGrouping", "cp_MonDecimalPoint", "cp_MonGroupSeparator", "cp_MonFracGroupSeparator", "cp_MonGrouping", "cp_MonFracGrouping">>,
     <<UBYTE, "cp_MonFracDigits", "cp_MonIntFracDigits">>,
     <<10, "cp_MonCS", "cp_MonSmallCS", "cp_MonIntCS", "cp_MonPositiveSign">>,
     <<UBYTE, "cp_MonPositiveSpaceSep", "cp_MonPositiveSignPos", "cp_MonPositiveCSPos">>,
     <<10, "cp_MonNegativeSign">>,
     <<UBYTE, "cp_MonNegativeSpaceSep", "cp_MonNegativeSignPos", "cp_MonNegativeCSPos", "cp_CalendarType">>,
     <<LABEL, "CountryPrefs_SIZEOF">> >>)

LocalePrefs_i == Structure(0, <<
     <<4 * 4, "lp_Reserved">>, <<32, "lp_CountryName">>, <<10 * 30, "lp_PreferredLanguages">>,
     <<LONG, "lp_GMTOffset">>, <<ULONG, "lp_Flags">>,
     <<symbols.CountryPrefs_SIZEOF, "lp_CountryData">>, <<LABEL, "LocalePrefs_SIZEOF">> >>)

OverscanPrefs_i == Structure(0, <<
     <<ULONG, "os_Reserved", "os_Magic">>,
     <<UWORD, "os_HStart", "os_HStop", "os_VStart", "os_VStop">>, <<ULONG, "os_DisplayID">>,
     <<symbols.tpt_SIZEOF, "os_ViewPos", "os_Text">>, <<symbols.ra_SIZEOF, "os_Standard">>,
     <<LABEL, "OverscanPrefs_SIZEOF">> >>)

PalettePrefs_i == Structure(0, <<
     <<4 * 4, "pap_Reserved">>, <<32 * 2, "pap_4ColorPens", "pap_8ColorPens">>,
     <<32 * symbols.cs_SIZEOF, "pap_Colors">>, <<LABEL, "PalettePrefs_SIZEOF">> >>)

PointerPrefs_i == Structure(0, <<
     <<4 * 4, "pp_Reserved">>,
     <<UWORD, "pp_Which", "pp_Size", "pp_Width", "pp_Height", "pp_Depth", "pp_YSize", "pp_X">>,
     <<LABEL, "PointerPrefs_SIZEOF">> >>)

RGBTable_i == Structure(0, <<
     <<UBYTE, "t_Red", "t_Green", "t_Blue">>, <<LABEL, "RGBTable_SIZEOF">> >>)

PrefHeader_i == Structure(0, <<
     <<UBYTE, "ph_Version", "ph_Type">>, <<ULONG, "ph_Flags">>, <<LABEL, "PrefHeader_SIZEOF">> >>)

PrinterGfxPrefs_i == Structure(0, <<
     <<4 * 4, "pg_Reserved">>, <<UWORD, "pg_Aspect", "pg_Shade", "pg_Image">>,
     <<WORD, "pg_Threshold">>, <<UBYTE, "pg_ColorCorrect", "pg_Dimensions", "pg_Dithering">>,
     <<UWORD, "pg_GraphicFlags">>, <<UBYTE, "pg_PrintDensity">>,
     <<UWORD, "pg_PrintMaxWidth", "pg_PrintMaxHeight">>,
     <<UBYTE, "pg_PrintXOffset", "pg_PrintYOffset">>, <<LABEL, "PrinterGfxPref_SIZEOF">> >>)

PrinterPSPrefs_i == Structure(0, <<
     <<4 * 4, "ps_Reserved">>, <<UBYTE, "ps_DriverMode", "ps_PaperFormat">>,
     <<2, "ps_Reserved1">>,
     <<LONG, "ps_Copies", "ps_PaperWidth", "ps_PaperHeight", "ps_HorizontalDPI", "ps_VerticalDPI">>,
     <<UBYTE, "ps_Font", "ps_Pitch", "ps_Orientation", "ps_Tab">>, <<8, "ps_Reserved2">>,
     <<LONG, "ps_LeftMargin", "ps_RightMargin", "ps_TopMargin", "ps_BottomMargin", "ps_FontPointSize", "ps_Leading">>,
     <<8, "ps_Reserved3">>, <<LONG, "ps_LeftEdge", "ps_TopEdge", "ps_Width", "ps_Height">>,
     <<UBYTE, "ps_Image", "ps_Shading", "ps_Dithering">>, <<9, "ps_Reserved4">>,
     <<UBYTE, "ps_Aspect", "ps_ScalingType", "ps_Reserved5", "ps_Centering">>,
     <<8, "ps_Reserved6">>, <<LABEL, "PrinterPSPrefs_SIZEOF">> >>)

PrinterTxtPrefs_i == Structure(0, <<
     <<4 * 4, "pt_Reserved">>, <<30, "pt_Driver">>, <<UBYTE, "pt_Port">>,
     <<UWORD, "pt_PaperType", "pt_PaperSize", "pt_PaperLength", "pt_Pitch", "pt_Spacing", "pt_LeftMargin", "pt_RightMargin", "pt_Quality">>,
     <<LABEL, "PrinterTxtPrefs_SIZEOF">> >>)

PrinterUnitPrefs_i == Structure(0, <<
     <<LONG, "pu_Reserved", "pu_UnitNum">>, <<ULONG, "pu_OpenDeviceFlags">>,
     <<32, "pu_DeviceName">>, <<LABEL, "PrinterUnitPrefs_SIZEOF">> >>)

PrinterDeviceUnitPrefs_i == Structure(0, <<
     <<LONG, "pd_Reserved", "pd_UnitNum">>, <<32, "pd_UnitName">>,
     <<LABEL, "PrinterDeviceUnitPrefs_SIZEOF">> >>)

ScreenModePrefs_i == Structure(0, <<
     <<4 * 4, "smp_Reserved">>, <<ULONG, "smp_DisplayID">>,
     <<UWORD, "smp_Width", "smp_Height", "smp_Depth", "smp_Control">>,
     <<LABEL, "ScreenModePrefs_SIZEOF">> >>)

SerialPrefs_i == Structure(0, <<
     <<3 * 4, "sp_Reserved">>,
     <<ULONG, "sp_Unit0Map", "sp_BaudRate", "sp_InputBuffer", "sp_OutputBuffer">>,
     <<UBYTE, "sp_InputHandshake", "sp_OutputHandshake", "sp_Parity", "sp_BitsPerChar", "sp_StopBits">>,
     <<LABEL, "SerialPrefs_SIZEOF">> >>)

SoundPrefs_i == Structure(0, <<
     <<4 * 4, "sop_Reserved">>, <<BOOL, "sop_DisplayQueue", "sop_AudioQueue">>,
     <<UWORD, "sop_AudioType", "sop_AudioVolume", "sop_AudioPeriod", "sop_AudioDuration">>,
     <<256, "sop_AudioFileName">>, <<LABEL, "SoundPrefs_SIZEOF">> >>)

WBPatternPrefs_i == Structure(0, <<
     <<(4 * 4), "wbp_Reserved">>, <<UWORD, "wbp_Which", "wbp_Flags">>,
     <<BYTE, "wbp_Revision", "wbp_Depth">>, <<UWORD, "wbp_DataLength">>,
     <<LABEL, "WBPatternPrefs_SIZEOF">> >>)

WorkbenchPrefs_i == Structure(0, <<
     <<ULONG, "wbp_DefaultStackSize", "wbp_TypeRestartTime", "wbp_IconPrecision">>,
     <<symbols.ra_SIZEOF, "wbp_EmbossRect">>, <<BOOL, "wbp_Borderless">>,
     <<LONG, "wbp_MaxNameLength">>, <<BOOL, "wbp_NewIconsSupport", "wbp_ColorIconSupport">>,
     <<ULONG, "wbp_ImageMemType">>, <<BOOL, "wbp_LockPens", "wbp_NoTitleBar", "wbp_NoGauge">>,
     <<LABEL, "WorkbenchPrefs_SIZEOF">> >>)

WorkbenchHiddenDevicePrefs_i == Structure(0, <<
     <<UBYTE, "whdp_Name">>, <<LABEL, "WorkbenchHiddenDevicePrefs_SIZEOF">> >>)

RexxRsrc_i == Structure(symbols.LN_SIZE, <<
     <<WORD, "rr_Func">>, <<APTR, "rr_Base">>, <<LONG, "rr_Size", "rr_Arg1", "rr_Arg2">>,
     <<LABEL, "RRSIZEOF">> >>)

IoBuff_i == Structure(symbols.RRSIZEOF, <<
     <<APTR, "iobRpt">>, <<LONG, "iobRct", "iobDFH">>, <<APTR, "iobLock">>, <<LONG, "iobBct">>,
     <<204, "iobArea">>, <<LABEL, "iobSIZEOF">> >>)

RexxMsgPort_i == Structure(symbols.RRSIZEOF, <<
     <<symbols.MP_SIZE, "rmp_Port">>, <<symbols.LH_SIZE, "rmp_ReplyList">>,
     <<LABEL, "rmp_SIZEOF">> >>)

RxsLib_i == Structure(symbols.LIB_SIZE, <<
     <<UBYTE, "rl_Flags", "rl_Shadow">>, <<APTR, "rl_SysBase", "rl_DOSBase", "rl_IeeeDPBase">>,
     <<LONG, "rl_SegList", "rl_NIL", "rl_Chunk", "rl_MaxNest">>,
     <<APTR, "rl_NULL", "rl_FALSE", "rl_TRUE", "rl_REXX", "rl_COMMAND", "rl_STDIN", "rl_STDOUT", "rl_STDERR", "rl_Version", "rl_TaskName">>,
     <<LONG, "rl_TaskPri", "rl_TaskSeg", "rl_StackSize">>,
     <<APTR, "rl_RexxDir", "rl_CTABLE", "rl_Notice">>, <<symbols.MP_SIZE, "rl_RexxPort">>,
     <<UWORD, "rl_ReadLock">>, <<APTR, "rl_TraceFH">>, <<symbols.LH_SIZE, "rl_TaskList">>,
     <<WORD, "rl_NumTask">>, <<symbols.LH_SIZE, "rl_LibList">>, <<WORD, "rl_NumLib">>,
     <<symbols.LH_SIZE, "rl_ClipList">>, <<WORD, "rl_NumClip">>,
     <<symbols.LH_SIZE, "rl_MsgList">>, <<WORD, "rl_NumMsg">>,
     <<symbols.LH_SIZE, "rl_PgmList">>, <<WORD, "rl_NumPgm">>, <<UWORD, "rl_TraceCnt">>,
     <<WORD, "rl_avail">>, <<LABEL, "rl_SIZEOF">> >>)

NexxStr_i == Structure(0, <<
     <<LONG, "ns_Ivalue">>, <<UWORD, "ns_Length">>, <<UBYTE, "ns_Flags", "ns_Hash">>,
     <<8, "ns_Buff">>, <<LABEL, "NSMINSIZE">> >>)

RexxArg_i == Structure(0, <<
     <<LONG, "ra_Size">>, <<UWORD, "ra_Length">>, <<UBYTE, "ra_Flags", "ra_Hash">>,
     <<8, "ra_Buff">>, <<LABEL, "RexxArg_SIZEOF">> >>)

RexxMsg_i == Structure(symbols.MN_SIZE, <<
     <<APTR, "rm_TaskBlock", "rm_LibBase">>, <<LONG, "rm_Action", "rm_Result1", "rm_Result2">>,
     <<16 * 4, "rm_Args">>, <<APTR, "rm_PassPort", "rm_CommAddr", "rm_FileExt">>,
     <<LONG, "rm_Stdin", "rm_Stdout", "rm_avail">>, <<LABEL, "RMSIZEOF">> >>)

RexxTask_i == Structure(200, <<
     <<symbols.MP_SIZE, "rt_MsgPort">>, <<UBYTE, "rt_Flags">>, <<BYTE, "rt_SigBit">>,
     <<APTR, "rt_ClientID", "rt_MsgPkt", "rt_TaskID", "rt_RexxPort", "rt_ErrTrap", "rt_StackPtr">>,
     <<symbols.LH_SIZE, "rt_Header1", "rt_Header2", "rt_Header3", "rt_Header4", "rt_Header5">>,
     <<LABEL, "rt_SIZEOF">> >>)

SrcNode_i == Structure(0, <<
     <<APTR, "sn_Succ", "sn_Pred", "sn_Ptr">>, <<LONG, "sn_Size">>, <<LABEL, "sn_SIZEOF">> >>)

IconIdentifyMsg_i == Structure(0, <<
     <<APTR, "iim_SysBase", "iim_DOSBase", "iim_UtilityBase", "iim_IconBase">>,
     <<BPTR, "iim_FileLock", "iim_ParentLock">>, <<APTR, "iim_FIB">>,
     <<BPTR, "iim_FileHandle">>, <<APTR, "iim_Tags">>, <<LABEL, "IconIdentifyMsg_SIZEOF">> >>)

WBStartup_i == Structure(0, <<
     <<symbols.MN_SIZE, "sm_Message">>, <<APTR, "sm_Process">>, <<BPTR, "sm_Segment">>,
     <<LONG, "sm_NumArgs">>, <<APTR, "sm_ToolWindow", "sm_ArgList">>, <<LABEL, "sm_SIZEOF">> >>)

WBArg_i == Structure(0, << <<BPTR, "wa_Lock">>, <<APTR, "wa_Name">>, <<LABEL, "wa_SIZEOF">> >>)

DrawerData_i == Structure(0, <<
     <<symbols.nw_SIZE, "dd_NewWindow">>, <<LONG, "dd_CurrentX", "dd_CurrentY">>,
     <<LABEL, "OldDrawerData_SIZEOF">>, <<ULONG, "dd_Flags">>, <<UWORD, "dd_ViewModes">>,
     <<LABEL, "DrawerData_SIZEOF">> >>)

DiskObject_i == Structure(0, <<
     <<UWORD, "do_Magic", "do_Version">>, <<symbols.gg_SIZEOF, "do_Gadget">>,
     <<UBYTE, "do_Type", "do_PAD_BYTE">>, <<APTR, "do_DefaultTool", "do_ToolTypes">>,
     <<LONG, "do_CurrentX", "do_CurrentY">>, <<APTR, "do_DrawerData", "do_ToolWindow">>,
     <<LONG, "do_StackSize">>, <<LABEL, "do_SIZEOF">> >>)

FreeList_i == Structure(0, <<
     <<WORD, "fl_NumFree">>, <<symbols.LH_SIZE, "fl_MemList">>, <<LABEL, "FreeList_SIZEOF">> >>)

AppMessage_i == Structure(0, <<
     <<symbols.MN_SIZE, "am_Message">>, <<UWORD, "am_Type">>,
     <<ULONG, "am_UserData", "am_ID">>, <<LONG, "am_NumArgs">>, <<APTR, "am_ArgList">>,
     <<UWORD, "am_Version", "am_Class">>, <<WORD, "am_MouseX", "am_MouseY">>,
     <<ULONG, "am_Seconds", "am_Micros">>, <<8, "am_Reserved">>,
     <<LABEL, "AppMessage_SIZEOF">> >>)

AppWindow_i == Structure(0, << <<0, "aw_PRIVATE">>, <<LABEL, "AppWindow_SIZEOF">> >>)

AppWindowDropZone_i == Structure(0, <<
     <<0, "awdz_PRIVATE">>, <<LABEL, "AppWindowDropZone_SIZEOF">> >>)

AppIcon_i == Structure(0, << <<0, "ai_PRIVATE">>, <<LABEL, "AppIcon_SIZEOF">> >>)

AppMenuItem_i == Structure(0, << <<0, "ami_PRIVATE">>, <<LABEL, "AppMenuItem_SIZEOF">> >>)

AppMenu_i == Structure(0, << <<0, "am_PRIVATE">>, <<LABEL, "AppMenu_SIZEOF">> >>)

SetupCleanupHookMsg_i == Structure(0, <<
     <<ULONG, "schm_Length">>, <<LONG, "schm_State">>, <<LABEL, "SetupCleanupHookMsg_SIZEOF">> >>)

AppIconRenderMsg_i == Structure(0, <<
     <<APTR, "arm_RastPort", "arm_Icon", "arm_Label", "arm_Tags">>,
     <<WORD, "arm_Left", "arm_Top", "arm_Width", "arm_Height">>, <<ULONG, "arm_State">>,
     <<LABEL, "AppIconRenderMsg_SIZEOF">> >>)

AppWindowDropZoneMsg_i == Structure(0, <<
     <<APTR, "adzm_RastPort">>, <<symbols.ibox_SIZEOF, "adzm_DropZoneBox">>,
     <<ULONG, "adzm_ID", "adzm_UserData">>, <<LONG, "adzm_Action">>,
     <<LABEL, "AppWindowDropZoneMsg_SIZEOF">> >>)

IconSelectMsg_i == Structure(0, <<
     <<ULONG, "ism_Length">>, <<BPTR, "ism_Drawer">>, <<APTR, "ism_Name">>,
     <<UWORD, "ism_Type">>, <<BOOL, "ism_Selected">>,
     <<APTR, "ism_Tags", "ism_DrawerWindow", "ism_ParentWindow">>,
     <<WORD, "ism_Left", "ism_Top", "ism_Width", "ism_Height">>,
     <<LABEL, "IconSelectMsg_SIZEOF">> >>)

CopyBeginMsg_i == Structure(0, <<
     <<ULONG, "cbm_Length">>, <<LONG, "cbm_Action">>,
     <<BPTR, "cbm_SourceDrawer", "cbm_DestinationDrawer">>, <<LABEL, "CopyBeginMsg_SIZEOF">> >>)

CopyDataMsg_i == Structure(0, <<
     <<ULONG, "cdm_Length">>, <<LONG, "cdm_Action">>, <<BPTR, "cdm_SourceLock">>,
     <<APTR, "cdm_SourceName">>, <<BPTR, "cdm_DestinationLock">>,
     <<APTR, "cdm_DestinationName">>, <<LONG, "cdm_DestinationX", "cdm_DestinationY">>,
     <<LABEL, "CopyDataMsg_SIZEOF">> >>)

CopyEndMsg_i == Structure(0, <<
     <<ULONG, "cem_Length">>, <<LONG, "cem_Action">>, <<LABEL, "CopyEndMsg_SIZEOF">> >>)

DeleteBeginMsg_i == Structure(0, <<
     <<ULONG, "dbm_Length">>, <<LONG, "dbm_Action">>, <<LABEL, "DeleteBeginMsg_SIZEOF">> >>)

DeleteDataMsg_i == Structure(0, <<
     <<ULONG, "ddm_Length">>, <<LONG, "ddm_Action">>, <<BPTR, "ddm_Lock">>,
     <<APTR, "ddm_Name">>, <<LABEL, "DeleteDataMsg_SIZEOF">> >>)

DeleteEndMsg_i == Structure(0, <<
     <<ULONG, "dem_Length">>, <<LONG, "dem_Action">>, <<LABEL, "DeleteEndMsg_SIZEOF">> >>)

TextInputMsg_i == Structure(0, <<
     <<ULONG, "tim_Length">>, <<LONG, "tim_Action">>, <<APTR, "tim_Prompt">>,
     <<LABEL, "TextInputMsg_SIZEOF">> >>)
=============================================================================
