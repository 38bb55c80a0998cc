--------------------------- MODULE ProgramStructs ---------------------------
(***************************************************************************)
(* The structures of ProgramIncludes as the C headers declare them.        *)
(***************************************************************************)
EXTENDS Layouts

Preferences_h == Struct(<<
     <<Byte, "FontHeight", "PrinterPort">>, <<Word, "BaudRate">>,
     <<tags.timeval, "KeyRptSpeed", "KeyRptDelay", "DoubleClick">>,
     <<Array(Word, 36), "PointerMatrix">>, <<Byte, "XOffset", "YOffset">>,
     <<Word, "color17", "color18", "color19", "PointerTicks", "color0", "color1", "color2", "color3">>,
     <<Byte, "ViewXOffset", "ViewYOffset">>,
     <<Word, "ViewInitX", "ViewInitY", "EnableCLI", "PrinterType">>,
     <<Array(Byte, 30), "PrinterFilename">>,
     <<Word, "PrintPitch", "PrintQuality", "PrintSpacing", "PrintLeftMargin", "PrintRightMargin", "PrintImage", "PrintAspect", "PrintShade", "PrintThreshold", "PaperSize", "PaperLength", "PaperType">>,
     <<Byte, "SerRWBits", "SerStopBuf", "SerParShk", "LaceWB">>, <<Array(Byte, 12), "Pad">>,
     <<Array(Byte, 16), "PrtDevName">>,
     <<Byte, "DefaultPrtUnit", "DefaultSerUnit", "RowSizeChange", "ColumnSizeChange">>,
     <<Word, "PrintFlags", "PrintMaxWidth", "PrintMaxHeight">>,
     <<Byte, "PrintDensity", "PrintXOffset">>, <<Word, "wb_Width", "wb_Height">>,
     <<Byte, "wb_Depth", "ext_size">> >>)

AnimHeader_h == Struct(<<
     <<Byte, "ah_Operation", "ah_Mask">>,
     <<Word, "ah_Width", "ah_Height", "ah_Left", "ah_Top">>,
     <<Long, "ah_AbsTime", "ah_RelTime">>, <<Byte, "ah_Interleave", "ah_Pad0">>,
     <<Long, "ah_Flags">>, <<Array(Byte, 16), "ah_Pad">> >>)

adtFrame_h == Struct(<<
     <<Long, "MethodID", "alf_TimeStamp", "alf_Frame", "alf_Duration">>,
     <<Ptr, "alf_BitMap", "alf_CMap", "alf_Sample">>,
     <<Long, "alf_SampleLength", "alf_Period">>, <<Ptr, "alf_UserData">> >>)

adtNewFormatFrame_h == Struct(<<
     <<Long, "MethodID", "alf_TimeStamp", "alf_Frame", "alf_Duration">>,
     <<Ptr, "alf_BitMap", "alf_CMap", "alf_Sample">>,
     <<Long, "alf_SampleLength", "alf_Period">>, <<Ptr, "alf_UserData">>, <<Long, "alf_Size">>,
     <<Ptr, "alf_LeftSample", "alf_RightSample">>, <<Long, "alf_SamplesPerSec">> >>)

adtStart_h == Struct(<< <<Long, "MethodID", "asa_Frame">> >>)

DataTypeHeader_h == Struct(<<
     <<Ptr, "dth_Name", "dth_BaseName", "dth_Pattern", "dth_Mask">>,
     <<Long, "dth_GroupID", "dth_ID">>,
     <<Word, "dth_MaskLen", "dth_Pad", "dth_Flags", "dth_Priority">> >>)

DTHookContext_h == Struct(<<
     <<Ptr, "dthc_SysBase", "dthc_DOSBase", "dthc_IFFParseBase", "dthc_UtilityBase">>,
     <<Long, "dthc_Lock">>, <<Ptr, "dthc_FIB">>, <<Long, "dthc_FileHandle">>,
     <<Ptr, "dthc_IFF", "dthc_Buffer">>, <<Long, "dthc_BufferLength">> >>)

Tool_h == Struct(<< <<Word, "tn_Which", "tn_Flags">>, <<Ptr, "tn_Program">> >>)

DataType_h == Struct(<<
     <<tags.Node, "dtn_Node1", "dtn_Node2">>, <<Ptr, "dtn_Header">>,
     <<tags.List, "dtn_ToolList">>, <<Ptr, "dtn_FunctionName", "dtn_AttrList">>,
     <<Long, "dtn_Length">> >>)

ToolNode_h == Struct(<<
     <<tags.Node, "tn_Node">>, <<tags.Tool, "tn_Tool">>, <<Long, "tn_Length">> >>)

DTSpecialInfo_h == Struct(<<
     <<tags.SignalSemaphore, "si_Lock">>,
     <<Long, "si_Flags", "si_TopVert", "si_VisVert", "si_TotVert", "si_OTopVert", "si_VertUnit", "si_TopHoriz", "si_VisHoriz", "si_TotHoriz", "si_OTopHoriz", "si_HorizUnit">> >>)

DTMethod_h == Struct(<< <<Ptr, "dtm_Label", "dtm_Command">>, <<Long, "dtm_Method">> >>)

FrameInfo_h == Struct(<<
     <<Long, "fri_PropertyFlags", "fri_Resolution">>,
     <<Byte, "fri_RedBits", "fri_GreenBits", "fri_BlueBits">>,
     <<Inner(Struct(<<<<Long, "Width", "Height", "Depth">>>>)), "fri_Dimensions">>,
     <<Ptr, "fri_Screen", "fri_ColorMap">>, <<Long, "fri_Flags">> >>)

dtGeneral_h == Struct(<< <<Long, "MethodID">>, <<Ptr, "dtg_GInfo">> >>)

dtSelect_h == Struct(<<
     <<Long, "MethodID">>, <<Ptr, "dts_GInfo">>, <<tags.Rectangle, "dts_Select">> >>)

dtFrameBox_h == Struct(<<
     <<Long, "MethodID">>, <<Ptr, "dtf_GInfo", "dtf_ContentsInfo", "dtf_FrameInfo">>,
     <<Long, "dtf_SizeFrameInfo", "dtf_FrameFlags">> >>)

dtGoto_h == Struct(<<
     <<Long, "MethodID">>, <<Ptr, "dtg_GInfo", "dtg_NodeName", "dtg_AttrList">> >>)

dtTrigger_h == Struct(<<
     <<Long, "MethodID">>, <<Ptr, "dtt_GInfo">>, <<Long, "dtt_Function">>, <<Ptr, "dtt_Data">> >>)

dtDraw_h == Struct(<<
     <<Long, "MethodID">>, <<Ptr, "dtd_RPort">>,
     <<Long, "dtd_Left", "dtd_Top", "dtd_Width", "dtd_Height", "dtd_TopHoriz", "dtd_TopVert">>,
     <<Ptr, "dtd_AttrList">> >>)

dtWrite_h == Struct(<<
     <<Long, "MethodID">>, <<Ptr, "dtw_GInfo">>, <<Long, "dtw_FileHandle", "dtw_Mode">>,
     <<Ptr, "dtw_AttrList">> >>)

pdtBlitPixelArray_h == Struct(<<
     <<Long, "MethodID">>, <<Ptr, "pbpa_PixelData">>,
     <<Long, "pbpa_PixelFormat", "pbpa_PixelArrayMod", "pbpa_Left", "pbpa_Top", "pbpa_Width", "pbpa_Height">> >>)

pdtScale_h == Struct(<< <<Long, "MethodID", "ps_NewWidth", "ps_NewHeight", "ps_Flags">> >>)

BitMapHeader_h == Struct(<<
     <<Word, "bmh_Width", "bmh_Height", "bmh_Left", "bmh_Top">>,
     <<Byte, "bmh_Depth", "bmh_Masking", "bmh_Compression", "bmh_Pad">>,
     <<Word, "bmh_Transparent">>, <<Byte, "bmh_XAspect", "bmh_YAspect">>,
     <<Word, "bmh_PageWidth", "bmh_PageHeight">> >>)

ColorRegister_h == Struct(<< <<Byte, "red", "green", "blue">> >>)

VoiceHeader_h == Struct(<<
     <<Long, "vh_OneShotHiSamples", "vh_RepeatHiSamples", "vh_SamplesPerHiCycle">>,
     <<Word, "vh_SamplesPerSec">>, <<Byte, "vh_Octaves", "vh_Compression">>,
     <<Long, "vh_Volume">> >>)

Line_h == Struct(<<
     <<tags.MinNode, "ln_Link">>, <<Ptr, "ln_Text">>, <<Long, "ln_TextLen">>,
     <<Word, "ln_XOffset", "ln_YOffset", "ln_Width", "ln_Height", "ln_Flags">>,
     <<Byte, "ln_FgPen", "ln_BgPen">>, <<Long, "ln_Style">>, <<Ptr, "ln_Data">> >>)

FontContents_h == Struct(<<
     <<Array(Byte, 256), "fc_FileName">>, <<Word, "fc_YSize">>,
     <<Byte, "fc_Style", "fc_Flags">> >>)

TFontContents_h == Struct(<<
     <<Array(Byte, 254), "tfc_FileName">>, <<Word, "tfc_TagCount", "tfc_YSize">>,
     <<Byte, "tfc_Style", "tfc_Flags">> >>)

FontContentsHeader_h == Struct(<< <<Word, "fch_FileID", "fch_NumEntries">> >>)

DiskFontHeader_h == Struct(<<
     <<tags.Node, "dfh_DF">>, <<Word, "dfh_FileID", "dfh_Revision">>, <<Long, "dfh_Segment">>,
     <<Array(Byte, 32), "dfh_Name">>, <<tags.TextFont, "dfh_TF">> >>)

AvailFonts_h == Struct(<< <<Word, "af_Type">>, <<tags.TextAttr, "af_Attr">> >>)

TAvailFonts_h == Struct(<< <<Word, "taf_Type">>, <<tags.TTextAttr, "taf_Attr">> >>)

AvailFontsHeader_h == Struct(<< <<Word, "afh_NumEntries">> >>)

GlyphEngine_h == Struct(<< <<Ptr, "gle_Library", "gle_Name">> >>)

GlyphMap_h == Struct(<<
     <<Word, "glm_BMModulo", "glm_BMRows", "glm_BlackLeft", "glm_BlackTop", "glm_BlackWidth", "glm_BlackHeight">>,
     <<Long, "glm_XOrigin", "glm_YOrigin">>, <<Word, "glm_X0", "glm_Y0", "glm_X1", "glm_Y1">>,
     <<Long, "glm_Width">>, <<Ptr, "glm_BitMap">> >>)

GlyphWidthEntry_h == Struct(<<
     <<tags.MinNode, "gwe_Node">>, <<Word, "gwe_Code">>, <<Long, "gwe_Width">> >>)

ColorWheelHSB_h == Struct(<< <<Long, "cw_Hue", "cw_Saturation", "cw_Brightness">> >>)

ColorWheelRGB_h == Struct(<< <<Long, "cw_Red", "cw_Green", "cw_Blue">> >>)

IBox_h == Struct(<< <<Word, "Left", "Top", "Width", "Height">> >>)

GadgetInfo_h == Struct(<<
     <<Ptr, "gi_Screen", "gi_Window", "gi_Requester", "gi_RastPort", "gi_Layer">>,
     <<tags.IBox, "gi_Domain">>,
     <<Inner(Struct(<<<<Byte, "DetailPen", "BlockPen">>>>)), "gi_Pens">>, <<Ptr, "gi_DrInfo">>,
     <<Array(Long, 6), "gi_Reserved">> >>)

IClass_h == Struct(<<
     <<tags.Hook, "cl_Dispatcher">>, <<Long, "cl_Reserved">>, <<Ptr, "cl_Super">>,
     <<Long, "cl_ID">>, <<Word, "cl_InstOffset", "cl_InstSize">>,
     <<Long, "cl_UserData", "cl_SubclassCount", "cl_ObjectCount", "cl_Flags">> >>)

_Object_h == Struct(<< <<tags.MinNode, "o_Node">>, <<Ptr, "o_Class">> >>)

ClassLibrary_h == Struct(<<
     <<tags.Library, "cl_Lib">>, <<Word, "cl_Pad">>, <<Ptr, "cl_Class">> >>)

Msg_h == Struct(<< <<Long, "MethodID">> >>)

opSet_h == Struct(<< <<Long, "MethodID">>, <<Ptr, "ops_AttrList", "ops_GInfo">> >>)

opUpdate_h == Struct(<<
     <<Long, "MethodID">>, <<Ptr, "opu_AttrList", "opu_GInfo">>, <<Long, "opu_Flags">> >>)

opGet_h == Struct(<< <<Long, "MethodID", "opg_AttrID">>, <<Ptr, "opg_Storage">> >>)

opAddTail_h == Struct(<< <<Long, "MethodID">>, <<Ptr, "opat_List">> >>)

opMember_h == Struct(<< <<Long, "MethodID">>, <<Ptr, "opam_Object">> >>)

gpHitTest_h == Struct(<<
     <<Long, "MethodID">>, <<Ptr, "gpht_GInfo">>,
     <<Inner(Struct(<<<<Word, "X", "Y">>>>)), "gpht_Mouse">> >>)

gpRender_h == Struct(<<
     <<Long, "MethodID">>, <<Ptr, "gpr_GInfo", "gpr_RPort">>, <<Long, "gpr_Redraw">> >>)

gpInput_h == Struct(<<
     <<Long, "MethodID">>, <<Ptr, "gpi_GInfo", "gpi_IEvent", "gpi_Termination">>,
     <<Inner(Struct(<<<<Word, "X", "Y">>>>)), "gpi_Mouse">>, <<Ptr, "gpi_TabletData">> >>)

gpGoInactive_h == Struct(<<
     <<Long, "MethodID">>, <<Ptr, "gpgi_GInfo">>, <<Long, "gpgi_Abort">> >>)

gpLayout_h == Struct(<< <<Long, "MethodID">>, <<Ptr, "gpl_GInfo">>, <<Long, "gpl_Initial">> >>)

gpDomain_h == Struct(<<
     <<Long, "MethodID">>, <<Ptr, "gpd_GInfo", "gpd_RPort">>, <<Long, "gpd_Which">>,
     <<tags.IBox, "gpd_Domain">>, <<Ptr, "gpd_Attrs">> >>)

gpKeyTest_h == Struct(<<
     <<Long, "MethodID">>, <<Ptr, "gpkt_GInfo", "gpkt_IMsg">>, <<Long, "gpkt_VanillaKey">> >>)

gpKeyInput_h == Struct(<<
     <<Long, "MethodID">>, <<Ptr, "gpk_GInfo", "gpk_IEvent", "gpk_Termination">> >>)

gpKeyGoInactive_h == Struct(<<
     <<Long, "MethodID">>, <<Ptr, "gpki_GInfo">>, <<Long, "gpki_Abort">> >>)

impFrameBox_h == Struct(<<
     <<Long, "MethodID">>, <<Ptr, "imp_ContentsBox", "imp_FrameBox", "imp_DrInfo">>,
     <<Long, "imp_FrameFlags">> >>)

impDraw_h == Struct(<<
     <<Long, "MethodID">>, <<Ptr, "imp_RPort">>,
     <<Inner(Struct(<<<<Word, "X", "Y">>>>)), "imp_Offset">>, <<Long, "imp_State">>,
     <<Ptr, "imp_DrInfo">>,
     <<Inner(Struct(<<<<Word, "Width", "Height">>>>)), "imp_Dimensions">> >>)

impErase_h == Struct(<<
     <<Long, "MethodID">>, <<Ptr, "imp_RPort">>,
     <<Inner(Struct(<<<<Word, "X", "Y">>>>)), "imp_Offset">>,
     <<Inner(Struct(<<<<Word, "Width", "Height">>>>)), "imp_Dimensions">> >>)

impHitTest_h == Struct(<<
     <<Long, "MethodID">>, <<Inner(Struct(<<<<Word, "X", "Y">>>>)), "imp_Point">>,
     <<Inner(Struct(<<<<Word, "Width", "Height">>>>)), "imp_Dimensions">> >>)

impDomainFrame_h == Struct(<<
     <<Long, "MethodID">>, <<Ptr, "imp_DrInfo", "imp_RPort">>, <<Long, "imp_Which">>,
     <<tags.IBox, "imp_Domain">>, <<Ptr, "imp_Attrs">> >>)

Menu_h == Struct(<<
     <<Ptr, "NextMenu">>, <<Word, "LeftEdge", "TopEdge", "Width", "Height", "Flags">>,
     <<Ptr, "MenuName", "FirstItem">>, <<Word, "JazzX", "JazzY", "BeatX", "BeatY">> >>)

MenuItem_h == Struct(<<
     <<Ptr, "NextItem">>, <<Word, "LeftEdge", "TopEdge", "Width", "Height", "Flags">>,
     <<Long, "MutualExclude">>, <<Ptr, "ItemFill", "SelectFill">>, <<Byte, "Command">>,
     <<Ptr, "SubItem">>, <<Word, "NextSelect">> >>)

Requester_h == Struct(<<
     <<Ptr, "OlderRequest">>,
     <<Word, "LeftEdge", "TopEdge", "Width", "Height", "RelLeft", "RelTop">>,
     <<Ptr, "ReqGadget", "ReqBorder", "ReqText">>, <<Word, "Flags">>, <<Byte, "BackFill">>,
     <<Ptr, "ReqLayer">>, <<Array(Byte, 32), "ReqPad1">>,
     <<Ptr, "ImageBMap", "RWindow", "ReqImage">>, <<Array(Byte, 32), "ReqPad2">> >>)

Gadget_h == Struct(<<
     <<Ptr, "NextGadget">>,
     <<Word, "LeftEdge", "TopEdge", "Width", "Height", "Flags", "Activation", "GadgetType">>,
     <<Ptr, "GadgetRender", "SelectRender", "GadgetText">>, <<Long, "MutualExclude">>,
     <<Ptr, "SpecialInfo">>, <<Word, "GadgetID">>, <<Ptr, "UserData">> >>)

ExtGadget_h == Struct(<<
     <<Ptr, "NextGadget">>,
     <<Word, "LeftEdge", "TopEdge", "Width", "Height", "Flags", "Activation", "GadgetType">>,
     <<Ptr, "GadgetRender", "SelectRender", "GadgetText">>, <<Long, "MutualExclude">>,
     <<Ptr, "SpecialInfo">>, <<Word, "GadgetID">>, <<Ptr, "UserData">>, <<Long, "MoreFlags">>,
     <<Word, "BoundsLeftEdge", "BoundsTopEdge", "BoundsWidth", "BoundsHeight">> >>)

BoolInfo_h == Struct(<< <<Word, "Flags">>, <<Ptr, "Mask">>, <<Long, "Reserved">> >>)

PropInfo_h == Struct(<<
     <<Word, "Flags", "HorizPot", "VertPot", "HorizBody", "VertBody", "CWidth", "CHeight", "HPotRes", "VPotRes", "LeftBorder", "TopBorder">> >>)

StringInfo_h == Struct(<<
     <<Ptr, "Buffer", "UndoBuffer">>,
     <<Word, "BufferPos", "MaxChars", "DispPos", "UndoPos", "NumChars", "DispCount", "CLeft", "CTop">>,
     <<Ptr, "Extension">>, <<Long, "LongInt">>, <<Ptr, "AltKeyMap">> >>)

IntuiText_h == Struct(<<
     <<Byte, "FrontPen", "BackPen", "DrawMode">>, <<Word, "LeftEdge", "TopEdge">>,
     <<Ptr, "ITextFont", "IText", "NextText">> >>)

Border_h == Struct(<<
     <<Word, "LeftEdge", "TopEdge">>, <<Byte, "FrontPen", "BackPen", "DrawMode", "Count">>,
     <<Ptr, "XY", "NextBorder">> >>)

Image_h == Struct(<<
     <<Word, "LeftEdge", "TopEdge", "Width", "Height", "Depth">>, <<Ptr, "ImageData">>,
     <<Byte, "PlanePick", "PlaneOnOff">>, <<Ptr, "NextImage">> >>)

IntuiMessage_h == Struct(<<
     <<tags.Message, "ExecMessage">>, <<Long, "Class">>, <<Word, "Code", "Qualifier">>,
     <<Ptr, "IAddress">>, <<Word, "MouseX", "MouseY">>, <<Long, "Seconds", "Micros">>,
     <<Ptr, "IDCMPWindow", "SpecialLink">> >>)

ExtIntuiMessage_h == Struct(<<
     <<tags.IntuiMessage, "eim_IntuiMessage">>, <<Ptr, "eim_TabletData">> >>)

Window_h == Struct(<<
     <<Ptr, "NextWindow">>,
     <<Word, "LeftEdge", "TopEdge", "Width", "Height", "MouseY", "MouseX", "MinWidth", "MinHeight", "MaxWidth", "MaxHeight">>,
     <<Long, "Flags">>, <<Ptr, "MenuStrip", "Title", "FirstRequest", "DMRequest">>,
     <<Word, "ReqCount">>, <<Ptr, "WScreen", "RPort">>,
     <<Byte, "BorderLeft", "BorderTop", "BorderRight", "BorderBottom">>,
     <<Ptr, "BorderRPort", "FirstGadget", "Parent", "Descendant", "Pointer">>,
     <<Byte, "PtrHeight", "PtrWidth", "XOffset", "YOffset">>, <<Long, "IDCMPFlags">>,
     <<Ptr, "UserPort", "WindowPort", "MessageKey">>, <<Byte, "DetailPen", "BlockPen">>,
     <<Ptr, "CheckMark", "ScreenTitle">>,
     <<Word, "GZZMouseX", "GZZMouseY", "GZZWidth", "GZZHeight">>,
     <<Ptr, "ExtData", "UserData", "WLayer", "IFont">>, <<Long, "MoreFlags">> >>)

NewWindow_h == Struct(<<
     <<Word, "LeftEdge", "TopEdge", "Width", "Height">>, <<Byte, "DetailPen", "BlockPen">>,
     <<Long, "IDCMPFlags", "Flags">>,
     <<Ptr, "FirstGadget", "CheckMark", "Title", "Screen", "BitMap">>,
     <<Word, "MinWidth", "MinHeight", "MaxWidth", "MaxHeight", "Type">> >>)

ExtNewWindow_h == Struct(<<
     <<Word, "LeftEdge", "TopEdge", "Width", "Height">>, <<Byte, "DetailPen", "BlockPen">>,
     <<Long, "IDCMPFlags", "Flags">>,
     <<Ptr, "FirstGadget", "CheckMark", "Title", "Screen", "BitMap">>,
     <<Word, "MinWidth", "MinHeight", "MaxWidth", "MaxHeight", "Type">>, <<Ptr, "Extension">> >>)

Remember_h == Struct(<< <<Ptr, "NextRemember">>, <<Long, "RememberSize">>, <<Ptr, "Memory">> >>)

ColorSpec_h == Struct(<< <<Word, "ColorIndex", "Red", "Green", "Blue">> >>)

EasyStruct_h == Struct(<<
     <<Long, "es_StructSize", "es_Flags">>,
     <<Ptr, "es_Title", "es_TextFormat", "es_GadgetFormat">> >>)

TabletData_h == Struct(<<
     <<Word, "td_XFraction", "td_YFraction">>,
     <<Long, "td_TabletX", "td_TabletY", "td_RangeX", "td_RangeY">>, <<Ptr, "td_TagList">> >>)

TabletHookData_h == Struct(<<
     <<Ptr, "thd_Screen">>, <<Long, "thd_Width", "thd_Height", "thd_ScreenChanged">> >>)

IntuitionBase_h == Struct(<<
     <<tags.Library, "LibNode">>, <<tags.View, "ViewLord">>,
     <<Ptr, "ActiveWindow", "ActiveScreen", "FirstScreen">>, <<Long, "Flags">>,
     <<Word, "MouseY", "MouseX">>, <<Long, "Seconds", "Micros">> >>)

DrawInfo_h == Struct(<<
     <<Word, "dri_Version", "dri_NumPens">>, <<Ptr, "dri_Pens", "dri_Font">>,
     <<Word, "dri_Depth">>, <<Inner(Struct(<<<<Word, "X", "Y">>>>)), "dri_Resolution">>,
     <<Long, "dri_Flags">>, <<Ptr, "dri_CheckMark", "dri_AmigaKey">>,
     <<Array(Long, 5), "dri_Reserved">> >>)

Screen_h == Struct(<<
     <<Ptr, "NextScreen", "FirstWindow">>,
     <<Word, "LeftEdge", "TopEdge", "Width", "Height", "MouseY", "MouseX", "Flags">>,
     <<Ptr, "Title", "DefaultTitle">>,
     <<Byte, "BarHeight", "BarVBorder", "BarHBorder", "MenuVBorder", "MenuHBorder", "WBorTop", "WBorLeft", "WBorRight", "WBorBottom">>,
     <<Ptr, "Font">>, <<tags.ViewPort, "ViewPort">>, <<tags.RastPort, "RastPort">>,
     <<tags.BitMap, "BitMap">>, <<tags.Layer_Info, "LayerInfo">>, <<Ptr, "FirstGadget">>,
     <<Byte, "DetailPen", "BlockPen">>, <<Word, "SaveColor0">>,
     <<Ptr, "BarLayer", "ExtData", "UserData">> >>)

NewScreen_h == Struct(<<
     <<Word, "LeftEdge", "TopEdge", "Width", "Height", "Depth">>,
     <<Byte, "DetailPen", "BlockPen">>, <<Word, "ViewModes", "Type">>,
     <<Ptr, "Font", "DefaultTitle", "Gadgets", "CustomBitMap">> >>)

ExtNewScreen_h == Struct(<<
     <<Word, "LeftEdge", "TopEdge", "Width", "Height", "Depth">>,
     <<Byte, "DetailPen", "BlockPen">>, <<Word, "ViewModes", "Type">>,
     <<Ptr, "Font", "DefaultTitle", "Gadgets", "CustomBitMap", "Extension">> >>)

PubScreenNode_h == Struct(<<
     <<tags.Node, "psn_Node">>, <<Ptr, "psn_Screen">>,
     <<Word, "psn_Flags", "psn_Size", "psn_VisitorCount">>, <<Ptr, "psn_SigTask">>,
     <<Byte, "psn_SigBit">> >>)

ScreenBuffer_h == Struct(<< <<Ptr, "sb_BitMap", "sb_DBufInfo">> >>)

StringExtend_h == Struct(<<
     <<Ptr, "Font">>, <<Array(Byte, 2), "Pens", "ActivePens">>, <<Long, "InitialModes">>,
     <<Ptr, "EditHook", "WorkBuffer">>, <<Array(Long, 4), "Reserved">> >>)

SGWork_h == Struct(<<
     <<Ptr, "Gadget", "StringInfo", "WorkBuffer", "PrevBuffer">>, <<Long, "Modes">>,
     <<Ptr, "IEvent">>, <<Word, "Code", "BufferPos", "NumChars">>,
     <<Long, "Actions", "LongInt">>, <<Ptr, "GadgetInfo">>, <<Word, "EditOp">> >>)

AmigaGuideMsg_h == Struct(<<
     <<tags.Message, "agm_Msg">>, <<Long, "agm_Type">>, <<Ptr, "agm_Data">>,
     <<Long, "agm_DSize", "agm_DType", "agm_Pri_Ret", "agm_Sec_Ret">>,
     <<Ptr, "agm_System1", "agm_System2">> >>)

NewAmigaGuide_h == Struct(<<
     <<Long, "nag_Lock">>,
     <<Ptr, "nag_Name", "nag_Screen", "nag_PubScreen", "nag_HostPort", "nag_ClientPort", "nag_BaseName">>,
     <<Long, "nag_Flags">>, <<Ptr, "nag_Context", "nag_Node">>, <<Long, "nag_Line">>,
     <<Ptr, "nag_Extens", "nag_Client">> >>)

XRef_h == Struct(<<
     <<tags.Node, "xr_Node">>, <<Word, "xr_Pad">>, <<Ptr, "xr_DF", "xr_File", "xr_Name">>,
     <<Long, "xr_Line">>, <<Array(Long, 2), "xr_Reserved">> >>)

AmigaGuideHost_h == Struct(<<
     <<tags.Hook, "agh_Dispatcher">>, <<Long, "agh_Reserved", "agh_Flags", "agh_UseCnt">>,
     <<Ptr, "agh_SystemData", "agh_UserData">> >>)

opFindHost_h == Struct(<<
     <<Long, "MethodID">>,
     <<Ptr, "ofh_Attrs", "ofh_Node", "ofh_TOC", "ofh_Title", "ofh_Next", "ofh_Prev">> >>)

opNodeIO_h == Struct(<<
     <<Long, "MethodID">>, <<Ptr, "onm_Attrs", "onm_Node", "onm_FileName", "onm_DocBuffer">>,
     <<Long, "onm_BuffLen", "onm_Flags">> >>)

opExpungeNode_h == Struct(<< <<Long, "MethodID">>, <<Ptr, "oen_Attrs">> >>)

FileRequester_h == Struct(<<
     <<Array(Byte, 4), "fr_Reserved0">>, <<Ptr, "fr_File", "fr_Drawer">>,
     <<Array(Byte, 10), "fr_Reserved1">>,
     <<Word, "fr_LeftEdge", "fr_TopEdge", "fr_Width", "fr_Height">>,
     <<Array(Byte, 2), "fr_Reserved2">>, <<Long, "fr_NumArgs">>,
     <<Ptr, "fr_ArgList", "fr_UserData">>, <<Array(Byte, 8), "fr_Reserved3">>,
     <<Ptr, "fr_Pattern">> >>)

FontRequester_h == Struct(<<
     <<Array(Byte, 8), "fo_Reserved0">>, <<tags.TextAttr, "fo_Attr">>,
     <<Byte, "fo_FrontPen", "fo_BackPen", "fo_DrawMode", "fo_Reserved1">>,
     <<Ptr, "fo_UserData">>, <<Word, "fo_LeftEdge", "fo_TopEdge", "fo_Width", "fo_Height">>,
     <<tags.TTextAttr, "fo_TAttr">> >>)

ScreenModeRequester_h == Struct(<<
     <<Long, "sm_DisplayID", "sm_DisplayWidth", "sm_DisplayHeight">>,
     <<Word, "sm_DisplayDepth", "sm_OverscanType", "sm_AutoScroll">>,
     <<Long, "sm_BitMapWidth", "sm_BitMapHeight">>,
     <<Word, "sm_LeftEdge", "sm_TopEdge", "sm_Width", "sm_Height", "sm_InfoOpened", "sm_InfoLeftEdge", "sm_InfoTopEdge", "sm_InfoWidth", "sm_InfoHeight">>,
     <<Ptr, "sm_UserData">> >>)

DisplayMode_h == Struct(<<
     <<tags.Node, "dm_Node">>, <<tags.DimensionInfo, "dm_DimensionInfo">>,
     <<Long, "dm_PropertyFlags">> >>)

NewBroker_h == Struct(<<
     <<Byte, "nb_Version">>, <<Ptr, "nb_Name", "nb_Title", "nb_Descr">>,
     <<Word, "nb_Unique", "nb_Flags">>, <<Byte, "nb_Pri">>, <<Ptr, "nb_Port">>,
     <<Word, "nb_ReservedChannel">> >>)

InputXpression_h == Struct(<<
     <<Byte, "ix_Version", "ix_Class">>,
     <<Word, "ix_Code", "ix_CodeMask", "ix_Qualifier", "ix_QualMask", "ix_QualSame">> >>)

ExpansionRom_h == Struct(<<
     <<Byte, "er_Type", "er_Product", "er_Flags", "er_Reserved03">>,
     <<Word, "er_Manufacturer">>, <<Long, "er_SerialNumber">>, <<Word, "er_InitDiagVec">>,
     <<Byte, "er_Reserved0c", "er_Reserved0d", "er_Reserved0e", "er_Reserved0f">> >>)

ExpansionControl_h == Struct(<<
     <<Byte, "ec_Interrupt", "ec_Z3_HighBase", "ec_BaseAddress", "ec_Shutup", "ec_Reserved14", "ec_Reserved15", "ec_Reserved16", "ec_Reserved17", "ec_Reserved18", "ec_Reserved19", "ec_Reserved1a", "ec_Reserved1b", "ec_Reserved1c", "ec_Reserved1d", "ec_Reserved1e", "ec_Reserved1f">> >>)

DiagArea_h == Struct(<<
     <<Byte, "da_Config", "da_Flags">>,
     <<Word, "da_Size", "da_DiagPoint", "da_BootPoint", "da_Name", "da_Reserved01", "da_Reserved02">> >>)

ConfigDev_h == Struct(<<
     <<tags.Node, "cd_Node">>, <<Byte, "cd_Flags", "cd_Pad">>, <<tags.ExpansionRom, "cd_Rom">>,
     <<Ptr, "cd_BoardAddr">>, <<Long, "cd_BoardSize">>, <<Word, "cd_SlotAddr", "cd_SlotSize">>,
     <<Ptr, "cd_Driver", "cd_NextCD">>, <<Array(Long, 4), "cd_Unused">> >>)

CurrentBinding_h == Struct(<<
     <<Ptr, "cb_ConfigDev", "cb_FileName", "cb_ProductString", "cb_ToolTypes">> >>)

BootNode_h == Struct(<<
     <<tags.Node, "bn_Node">>, <<Word, "bn_Flags">>, <<Ptr, "bn_DeviceNode">> >>)

ExpansionBase_h == Struct(<<
     <<tags.Library, "LibNode">>, <<Byte, "Flags", "eb_Private01">>,
     <<Long, "eb_Private02", "eb_Private03">>, <<tags.CurrentBinding, "eb_Private04">>,
     <<tags.List, "eb_Private05", "MountList">> >>)

NewGadget_h == Struct(<<
     <<Word, "ng_LeftEdge", "ng_TopEdge", "ng_Width", "ng_Height">>,
     <<Ptr, "ng_GadgetText", "ng_TextAttr">>, <<Word, "ng_GadgetID">>, <<Long, "ng_Flags">>,
     <<Ptr, "ng_VisualInfo", "ng_UserData">> >>)

NewMenu_h == Struct(<<
     <<Byte, "nm_Type">>, <<Ptr, "nm_Label", "nm_CommKey">>, <<Word, "nm_Flags">>,
     <<Long, "nm_MutualExclude">>, <<Ptr, "nm_UserData">> >>)

LVDrawMsg_h == Struct(<<
     <<Long, "lvdm_MethodID">>, <<Ptr, "lvdm_RastPort", "lvdm_DrawInfo">>,
     <<tags.Rectangle, "lvdm_Bounds">>, <<Long, "lvdm_State">> >>)

IFFHandle_h == Struct(<< <<Long, "iff_Stream", "iff_Flags", "iff_Depth">> >>)

IFFStreamCmd_h == Struct(<< <<Long, "sc_Command">>, <<Ptr, "sc_Buf">>, <<Long, "sc_NBytes">> >>)

ContextNode_h == Struct(<<
     <<tags.MinNode, "cn_Node">>, <<Long, "cn_ID", "cn_Type", "cn_Size", "cn_Scan">> >>)

LocalContextItem_h == Struct(<<
     <<tags.MinNode, "lci_Node">>, <<Long, "lci_ID", "lci_Type", "lci_Ident">> >>)

StoredProperty_h == Struct(<< <<Long, "sp_Size">>, <<Ptr, "sp_Data">> >>)

CollectionItem_h == Struct(<< <<Ptr, "ci_Next">>, <<Long, "ci_Size">>, <<Ptr, "ci_Data">> >>)

ClipboardHandle_h == Struct(<<
     <<tags.IOClipReq, "cbh_Req">>, <<tags.MsgPort, "cbh_CBport", "cbh_SatisfyPort">> >>)

LocaleBase_h == Struct(<< <<tags.Library, "lb_LibNode">>, <<Word, "lb_SysPatches">> >>)

Locale_h == Struct(<<
     <<Ptr, "loc_LocaleName", "loc_LanguageName">>, <<Array(Ptr, 10), "loc_PrefLanguages">>,
     <<Long, "loc_Flags", "loc_CodeSet", "loc_CountryCode", "loc_TelephoneCode", "loc_GMTOffset">>,
     <<Byte, "loc_MeasuringSystem", "loc_CalendarType">>, <<Array(Byte, 2), "loc_Reserved0">>,
     <<Ptr, "loc_DateTimeFormat", "loc_DateFormat", "loc_TimeFormat", "loc_ShortDateTimeFormat", "loc_ShortDateFormat", "loc_ShortTimeFormat", "loc_DecimalPoint", "loc_GroupSeparator", "loc_FracGroupSeparator", "loc_Grouping", "loc_FracGrouping", "loc_MonDecimalPoint", "loc_MonGroupSeparator", "loc_MonFracGroupSeparator", "loc_MonGrouping", "loc_MonFracGrouping">>,
     <<Byte, "loc_MonFracDigits", "loc_MonIntFracDigits">>,
     <<Array(Byte, 2), "loc_Reserved1">>,
     <<Ptr, "loc_MonCS", "loc_MonSmallCS", "loc_MonIntCS", "loc_MonPositiveSign">>,
     <<Byte, "loc_MonPositiveSpaceSep", "loc_MonPositiveSignPos", "loc_MonPositiveCSPos", "loc_Reserved2">>,
     <<Ptr, "loc_MonNegativeSign">>,
     <<Byte, "loc_MonNegativeSpaceSep", "loc_MonNegativeSignPos", "loc_MonNegativeCSPos", "loc_Reserved3">> >>)

Catalog_h == Struct(<<
     <<tags.Node, "cat_Link">>, <<Word, "cat_Pad">>, <<Ptr, "cat_Language">>,
     <<Long, "cat_CodeSet">>, <<Word, "cat_Version", "cat_Revision">> >>)

KeyQuery_h == Struct(<< <<Word, "kq_KeyCode", "kq_Pressed">> >>)

MathIEEEBase_h == Struct(<<
     <<tags.Library, "MathIEEEBase_LibNode">>, <<Array(Byte, 18), "MathIEEEBase_reserved">>,
     <<Ptr, "MathIEEEBase_TaskOpenLib", "MathIEEEBase_TaskCloseLib">> >>)

libraries_MathIEEEResource_h == Struct(<<
     <<tags.Node, "MathIEEEResource_Node">>, <<Word, "MathIEEEResource_Flags">>,
     <<Ptr, "MathIEEEResource_BaseAddr", "MathIEEEResource_DblBasInit", "MathIEEEResource_DblTransInit", "MathIEEEResource_SglBasInit", "MathIEEEResource_SglTransInit", "MathIEEEResource_ExtBasInit", "MathIEEEResource_ExtTransInit">> >>)

NVInfo_h == Struct(<< <<Long, "nvi_MaxStorage", "nvi_FreeStorage">> >>)

NVEntry_h == Struct(<<
     <<tags.MinNode, "nve_Node">>, <<Ptr, "nve_Name">>, <<Long, "nve_Size", "nve_Protection">> >>)

Conductor_h == Struct(<<
     <<tags.Node, "cdt_Link">>, <<Word, "cdt_Reserved0">>, <<tags.MinList, "cdt_Players">>,
     <<Long, "cdt_ClockTime", "cdt_StartTime", "cdt_ExternalTime", "cdt_MaxExternalTime", "cdt_Metronome">>,
     <<Word, "cdt_Reserved1", "cdt_Flags">>, <<Byte, "cdt_State">> >>)

Player_h == Struct(<<
     <<tags.Node, "pl_Link">>, <<Byte, "pl_Reserved0", "pl_Reserved1">>,
     <<Ptr, "pl_Hook", "pl_Source", "pl_Task">>, <<Long, "pl_MetricTime", "pl_AlarmTime">>,
     <<Ptr, "pl_UserData">>, <<Word, "pl_PlayerID", "pl_Flags">> >>)

pmTime_h == Struct(<< <<Long, "pmt_Method", "pmt_Time">> >>)

pmState_h == Struct(<< <<Long, "pms_Method", "pms_OldState">> >>)

RealTimeBase_h == Struct(<<
     <<tags.Library, "rtb_LibNode">>, <<Array(Byte, 2), "rtb_Reserved0">>,
     <<Long, "rtb_Time", "rtb_TimeFrac">>, <<Word, "rtb_Reserved1", "rtb_TickErr">> >>)

AslPrefs_h == Struct(<<
     <<Array(Long, 4), "ap_Reserved">>,
     <<Byte, "ap_SortBy", "ap_SortDrawers", "ap_SortOrder", "ap_SizePosition">>,
     <<Word, "ap_RelativeLeft", "ap_RelativeTop">>,
     <<Byte, "ap_RelativeWidth", "ap_RelativeHeight">> >>)

FontPrefs_h == Struct(<<
     <<Array(Long, 3), "fp_Reserved">>, <<Word, "fp_Reserved2", "fp_Type">>,
     <<Byte, "fp_FrontPen", "fp_BackPen", "fp_DrawMode">>, <<tags.TextAttr, "fp_TextAttr">>,
     <<Array(Byte, 128), "fp_Name">> >>)

IControlPrefs_h == Struct(<<
     <<Array(Long, 4), "ic_Reserved">>, <<Word, "ic_TimeOut", "ic_MetaDrag">>,
     <<Long, "ic_Flags">>,
     <<Byte, "ic_WBtoFront", "ic_FrontToBack", "ic_ReqTrue", "ic_ReqFalse">> >>)

InputPrefs_h == Struct(<<
     <<Array(Byte, 16), "ip_Keymap">>, <<Word, "ip_PointerTicks">>,
     <<tags.timeval, "ip_DoubleClick", "ip_KeyRptDelay", "ip_KeyRptSpeed">>,
     <<Word, "ip_MouseAccel">> >>)

CountryPrefs_h == Struct(<<
     <<Array(Long, 4), "cp_Reserved">>, <<Long, "cp_CountryCode", "cp_TelephoneCode">>,
     <<Byte, "cp_MeasuringSystem">>, <<Array(Byte, 80), "cp_DateTimeFormat">>,
     <<Array(Byte, 40), "cp_DateFormat", "cp_TimeFormat">>,
     <<Array(Byte, 80), "cp_ShortDateTimeFormat">>,
     <<Array(Byte, 40), "cp_ShortDateFormat", "cp_ShortTimeFormat">>,
     <<Array(Byte, 10), "cp_DecimalPoint", "cp_GroupSeparator", "cp_FracGroupSeparator", "cp_Grouping", "cp_FracGrouping", "cp_MonDecimalPoint", "cp_MonGroupSeparator", "cp_MonFracGroupSeparator", "cp_MonGrouping", "cp_MonFracGrouping">>,
     <<Byte, "cp_MonFracDigits", "cp_MonIntFracDigits">>,
     <<Array(Byte, 10), "cp_MonCS", "cp_MonSmallCS", "cp_MonIntCS", "cp_MonPositiveSign">>,
     <<Byte, "cp_MonPositiveSpaceSep", "cp_MonPositiveSignPos", "cp_MonPositiveCSPos">>,
     <<Array(Byte, 10), "cp_MonNegativeSign">>,
     <<Byte, "cp_MonNegativeSpaceSep", "cp_MonNegativeSignPos", "cp_MonNegativeCSPos", "cp_CalendarType">> >>)

LocalePrefs_h == Struct(<<
     <<Array(Long, 4), "lp_Reserved">>, <<Array(Byte, 32), "lp_CountryName">>,
     <<Array(Byte, 300), "lp_PreferredLanguages">>, <<Long, "lp_GMTOffset", "lp_Flags">>,
     <<tags.CountryPrefs, "lp_CountryData">> >>)

OverscanPrefs_h == Struct(<<
     <<Long, "os_Reserved", "os_Magic">>,
     <<Word, "os_HStart", "os_HStop", "os_VStart", "os_VStop">>,
     <<Long, "os_DisplayID", "os_ViewPos", "os_Text">>, <<tags.Rectangle, "os_Standard">> >>)

PalettePrefs_h == Struct(<<
     <<Array(Long, 4), "pap_Reserved">>,
     <<Array(Word, 32), "pap_4ColorPens", "pap_8ColorPens">>,
     <<Array(tags.ColorSpec, 32), "pap_Colors">> >>)

PointerPrefs_h == Struct(<<
     <<Array(Long, 4), "pp_Reserved">>,
     <<Word, "pp_Which", "pp_Size", "pp_Width", "pp_Height", "pp_Depth", "pp_YSize", "pp_X", "pp_Y">> >>)

RGBTable_h == Struct(<< <<Byte, "t_Red", "t_Green", "t_Blue">> >>)

PrefHeader_h == Struct(<< <<Byte, "ph_Version", "ph_Type">>, <<Long, "ph_Flags">> >>)

PrinterGfxPrefs_h == Struct(<<
     <<Array(Long, 4), "pg_Reserved">>,
     <<Word, "pg_Aspect", "pg_Shade", "pg_Image", "pg_Threshold">>,
     <<Byte, "pg_ColorCorrect", "pg_Dimensions", "pg_Dithering">>, <<Word, "pg_GraphicFlags">>,
     <<Byte, "pg_PrintDensity">>, <<Word, "pg_PrintMaxWidth", "pg_PrintMaxHeight">>,
     <<Byte, "pg_PrintXOffset", "pg_PrintYOffset">> >>)

PrinterPSPrefs_h == Struct(<<
     <<Array(Long, 4), "ps_Reserved">>, <<Byte, "ps_DriverMode", "ps_PaperFormat">>,
     <<Array(Byte, 2), "ps_Reserved1">>,
     <<Long, "ps_Copies", "ps_PaperWidth", "ps_PaperHeight", "ps_HorizontalDPI", "ps_VerticalDPI">>,
     <<Byte, "ps_Font", "ps_Pitch", "ps_Orientation", "ps_Tab">>,
     <<Array(Byte, 8), "ps_Reserved2">>,
     <<Long, "ps_LeftMargin", "ps_RightMargin", "ps_TopMargin", "ps_BottomMargin", "ps_FontPointSize", "ps_Leading">>,
     <<Array(Byte, 8), "ps_Reserved3">>,
     <<Long, "ps_LeftEdge", "ps_TopEdge", "ps_Width", "ps_Height">>,
     <<Byte, "ps_Image", "ps_Shading", "ps_Dithering">>, <<Array(Byte, 9), "ps_Reserved4">>,
     <<Byte, "ps_Aspect", "ps_ScalingType", "ps_Reserved5", "ps_Centering">>,
     <<Array(Byte, 8), "ps_Reserved6">> >>)

PrinterTxtPrefs_h == Struct(<<
     <<Array(Long, 4), "pt_Reserved">>, <<Array(Byte, 30), "pt_Driver">>, <<Byte, "pt_Port">>,
     <<Word, "pt_PaperType", "pt_PaperSize", "pt_PaperLength", "pt_Pitch", "pt_Spacing", "pt_LeftMargin", "pt_RightMargin", "pt_Quality">> >>)

PrinterUnitPrefs_h == Struct(<<
     <<Array(Long, 4), "pu_Reserved">>, <<Long, "pu_UnitNum", "pu_OpenDeviceFlags">>,
     <<Array(Byte, 32), "pu_DeviceName">> >>)

PrinterDeviceUnitPrefs_h == Struct(<<
     <<Array(Long, 4), "pd_Reserved">>, <<Long, "pd_UnitNum">>,
     <<Array(Byte, 32), "pd_UnitName">> >>)

ScreenModePrefs_h == Struct(<<
     <<Array(Long, 4), "smp_Reserved">>, <<Long, "smp_DisplayID">>,
     <<Word, "smp_Width", "smp_Height", "smp_Depth", "smp_Control">> >>)

SerialPrefs_h == Struct(<<
     <<Array(Long, 3), "sp_Reserved">>,
     <<Long, "sp_Unit0Map", "sp_BaudRate", "sp_InputBuffer", "sp_OutputBuffer">>,
     <<Byte, "sp_InputHandshake", "sp_OutputHandshake", "sp_Parity", "sp_BitsPerChar", "sp_StopBits">> >>)

SoundPrefs_h == Struct(<<
     <<Array(Long, 4), "sop_Reserved">>,
     <<Word, "sop_DisplayQueue", "sop_AudioQueue", "sop_AudioType", "sop_AudioVolume", "sop_AudioPeriod", "sop_AudioDuration">>,
     <<Array(Byte, 256), "sop_AudioFileName">> >>)

WBPatternPrefs_h == Struct(<<
     <<Array(Long, 4), "wbp_Reserved">>, <<Word, "wbp_Which", "wbp_Flags">>,
     <<Byte, "wbp_Revision", "wbp_Depth">>, <<Word, "wbp_DataLength">> >>)

WorkbenchPrefs_h == Struct(<<
     <<Long, "wbp_DefaultStackSize", "wbp_TypeRestartTime", "wbp_IconPrecision">>,
     <<tags.Rectangle, "wbp_EmbossRect">>, <<Word, "wbp_Borderless">>,
     <<Long, "wbp_MaxNameLength">>, <<Word, "wbp_NewIconsSupport", "wbp_ColorIconSupport">>,
     <<Long, "wbp_ImageMemType">>, <<Word, "wbp_LockPens", "wbp_NoTitleBar", "wbp_NoGauge">> >>)

WorkbenchHiddenDevicePrefs_h == Struct(<< <<Array(Byte, 0), "whdp_Name">> >>)

RexxRsrc_h == Struct(<<
     <<tags.Node, "rr_Node">>, <<Word, "rr_Func">>, <<Ptr, "rr_Base">>,
     <<Long, "rr_Size", "rr_Arg1", "rr_Arg2">> >>)

IoBuff_h == Struct(<<
     <<tags.RexxRsrc, "iobNode">>, <<Ptr, "iobRpt">>, <<Long, "iobRct", "iobDFH">>,
     <<Ptr, "iobLock">>, <<Long, "iobBct">>, <<Array(Byte, 204), "iobArea">> >>)

RexxMsgPort_h == Struct(<<
     <<tags.RexxRsrc, "rmp_Node">>, <<tags.MsgPort, "rmp_Port">>,
     <<tags.List, "rmp_ReplyList">> >>)

RxsLib_h == Struct(<<
     <<tags.Library, "rl_Node">>, <<Byte, "rl_Flags", "rl_Shadow">>,
     <<Ptr, "rl_SysBase", "rl_DOSBase", "rl_IeeeDPBase">>,
     <<Long, "rl_SegList", "rl_NIL", "rl_Chunk", "rl_MaxNest">>,
     <<Ptr, "rl_NULL", "rl_FALSE", "rl_TRUE", "rl_REXX", "rl_COMMAND", "rl_STDIN", "rl_STDOUT", "rl_STDERR", "rl_Version", "rl_TaskName">>,
     <<Long, "rl_TaskPri", "rl_TaskSeg", "rl_StackSize">>,
     <<Ptr, "rl_RexxDir", "rl_CTABLE", "rl_Notice">>, <<tags.MsgPort, "rl_RexxPort">>,
     <<Word, "rl_ReadLock">>, <<Long, "rl_TraceFH">>, <<tags.List, "rl_TaskList">>,
     <<Word, "rl_NumTask">>, <<tags.List, "rl_LibList">>, <<Word, "rl_NumLib">>,
     <<tags.List, "rl_ClipList">>, <<Word, "rl_NumClip">>, <<tags.List, "rl_MsgList">>,
     <<Word, "rl_NumMsg">>, <<tags.List, "rl_PgmList">>,
     <<Word, "rl_NumPgm", "rl_TraceCnt", "rl_avail">> >>)

NexxStr_h == Struct(<<
     <<Long, "ns_Ivalue">>, <<Word, "ns_Length">>, <<Byte, "ns_Flags", "ns_Hash">>,
     <<Array(Byte, 8), "ns_Buff">> >>)

RexxArg_h == Struct(<<
     <<Long, "ra_Size">>, <<Word, "ra_Length">>, <<Byte, "ra_Flags", "ra_Hash">>,
     <<Array(Byte, 8), "ra_Buff">> >>)

RexxMsg_h == Struct(<<
     <<tags.Message, "rm_Node">>, <<Ptr, "rm_TaskBlock", "rm_LibBase">>,
     <<Long, "rm_Action", "rm_Result1", "rm_Result2">>, <<Array(Ptr, 16), "rm_Args">>,
     <<Ptr, "rm_PassPort", "rm_CommAddr", "rm_FileExt">>,
     <<Long, "rm_Stdin", "rm_Stdout", "rm_avail">> >>)

RexxTask_h == Struct(<<
     <<Array(Byte, 200), "rt_Global">>, <<tags.MsgPort, "rt_MsgPort">>,
     <<Byte, "rt_Flags", "rt_SigBit">>,
     <<Ptr, "rt_ClientID", "rt_MsgPkt", "rt_TaskID", "rt_RexxPort", "rt_ErrTrap", "rt_StackPtr">>,
     <<tags.List, "rt_Header1", "rt_Header2", "rt_Header3", "rt_Header4", "rt_Header5">> >>)

SrcNode_h == Struct(<< <<Ptr, "sn_Succ", "sn_Pred", "sn_Ptr">>, <<Long, "sn_Size">> >>)

IconIdentifyMsg_h == Struct(<<
     <<Ptr, "iim_SysBase", "iim_DOSBase", "iim_UtilityBase", "iim_IconBase">>,
     <<Long, "iim_FileLock", "iim_ParentLock">>, <<Ptr, "iim_FIB">>,
     <<Long, "iim_FileHandle">>, <<Ptr, "iim_Tags">> >>)

WBStartup_h == Struct(<<
     <<tags.Message, "sm_Message">>, <<Ptr, "sm_Process">>,
     <<Long, "sm_Segment", "sm_NumArgs">>, <<Ptr, "sm_ToolWindow", "sm_ArgList">> >>)

WBArg_h == Struct(<< <<Long, "wa_Lock">>, <<Ptr, "wa_Name">> >>)

DrawerData_h == Struct(<<
     <<tags.NewWindow, "dd_NewWindow">>, <<Long, "dd_CurrentX", "dd_CurrentY", "dd_Flags">>,
     <<Word, "dd_ViewModes">> >>)

DiskObject_h == Struct(<<
     <<Word, "do_Magic", "do_Version">>, <<tags.Gadget, "do_Gadget">>, <<Byte, "do_Type">>,
     <<Ptr, "do_DefaultTool", "do_ToolTypes">>, <<Long, "do_CurrentX", "do_CurrentY">>,
     <<Ptr, "do_DrawerData", "do_ToolWindow">>, <<Long, "do_StackSize">> >>)

FreeList_h == Struct(<< <<Word, "fl_NumFree">>, <<tags.List, "fl_MemList">> >>)

AppMessage_h == Struct(<<
     <<tags.Message, "am_Message">>, <<Word, "am_Type">>,
     <<Long, "am_UserData", "am_ID", "am_NumArgs">>, <<Ptr, "am_ArgList">>,
     <<Word, "am_Version", "am_Class", "am_MouseX", "am_MouseY">>,
     <<Long, "am_Seconds", "am_Micros">>, <<Array(Long, 8), "am_Reserved">> >>)

AppWindow_h == Struct(<< <<Ptr, "aw_PRIVATE">> >>)

AppWindowDropZone_h == Struct(<< <<Ptr, "awdz_PRIVATE">> >>)

AppIcon_h == Struct(<< <<Ptr, "ai_PRIVATE">> >>)

AppMenuItem_h == Struct(<< <<Ptr, "ami_PRIVATE">> >>)

AppMenu_h == Struct(<< <<Ptr, "am_PRIVATE">> >>)

SetupCleanupHookMsg_h == Struct(<< <<Long, "schm_Length", "schm_State">> >>)

AppIconRenderMsg_h == Struct(<<
     <<Ptr, "arm_RastPort", "arm_Icon", "arm_Label", "arm_Tags">>,
     <<Word, "arm_Left", "arm_Top", "arm_Width", "arm_Height">>, <<Long, "arm_State">> >>)

AppWindowDropZoneMsg_h == Struct(<<
     <<Ptr, "adzm_RastPort">>, <<tags.IBox, "adzm_DropZoneBox">>,
     <<Long, "adzm_ID", "adzm_UserData", "adzm_Action">> >>)

IconSelectMsg_h == Struct(<<
     <<Long, "ism_Length", "ism_Drawer">>, <<Ptr, "ism_Name">>,
     <<Word, "ism_Type", "ism_Selected">>,
     <<Ptr, "ism_Tags", "ism_DrawerWindow", "ism_ParentWindow">>,
     <<Word, "ism_Left", "ism_Top", "ism_Width", "ism_Height">> >>)

CopyBeginMsg_h == Struct(<<
     <<Long, "cbm_Length", "cbm_Action", "cbm_SourceDrawer", "cbm_DestinationDrawer">> >>)

CopyDataMsg_h == Struct(<<
     <<Long, "cdm_Length", "cdm_Action", "cdm_SourceLock">>, <<Ptr, "cdm_SourceName">>,
     <<Long, "cdm_DestinationLock">>, <<Ptr, "cdm_DestinationName">>,
     <<Long, "cdm_DestinationX", "cdm_DestinationY">> >>)

CopyEndMsg_h == Struct(<< <<Long, "cem_Length", "cem_Action">> >>)

DeleteBeginMsg_h == Struct(<< <<Long, "dbm_Length", "dbm_Action">> >>)

DeleteDataMsg_h == Struct(<<
     <<Long, "ddm_Length", "ddm_Action", "ddm_Lock">>, <<Ptr, "ddm_Name">> >>)

DeleteEndMsg_h == Struct(<< <<Long, "dem_Length", "dem_Action">> >>)

TextInputMsg_h == Struct(<< <<Long, "tim_Length", "tim_Action">>, <<Ptr, "tim_Prompt">> >>)
=============================================================================
