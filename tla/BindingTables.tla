--------------------------- MODULE BindingTables ----------------------------
EXTENDS LibBindings, TLC

(***************************************************************************)
(* The #pragma libcall, tagcall and syscall lines of ndk/include_h/pragmas and *)
(* netinclude/pragmas: the vector in decimal, the digits of the code.      *)
(***************************************************************************)

amigaguide_pragmas ==
  [ LockAmigaGuideBase |-> Libcall(36, <<8, 0, 1>>),
    UnlockAmigaGuideBase |-> Libcall(42, <<0, 0, 1>>),
    OpenAmigaGuideA |-> Libcall(54, <<9, 8, 0, 2>>),
    OpenAmigaGuide |-> Tagcall(54, <<9, 8, 0, 2>>),
    OpenAmigaGuideAsyncA |-> Libcall(60, <<0, 8, 0, 2>>),
    OpenAmigaGuideAsync |-> Tagcall(60, <<0, 8, 0, 2>>),
    CloseAmigaGuide |-> Libcall(66, <<8, 0, 1>>), AmigaGuideSignal |-> Libcall(72, <<8, 0, 1>>),
    GetAmigaGuideMsg |-> Libcall(78, <<8, 0, 1>>),
    ReplyAmigaGuideMsg |-> Libcall(84, <<8, 0, 1>>),
    SetAmigaGuideContextA |-> Libcall(90, <<1, 0, 8, 0, 3>>),
    SetAmigaGuideContext |-> Tagcall(90, <<1, 0, 8, 0, 3>>),
    SendAmigaGuideContextA |-> Libcall(96, <<0, 8, 0, 2>>),
    SendAmigaGuideContext |-> Tagcall(96, <<0, 8, 0, 2>>),
    SendAmigaGuideCmdA |-> Libcall(102, <<1, 0, 8, 0, 3>>),
    SendAmigaGuideCmd |-> Tagcall(102, <<1, 0, 8, 0, 3>>),
    SetAmigaGuideAttrsA |-> Libcall(108, <<9, 8, 0, 2>>),
    SetAmigaGuideAttrs |-> Tagcall(108, <<9, 8, 0, 2>>),
    GetAmigaGuideAttr |-> Libcall(114, <<9, 8, 0, 0, 3>>),
    LoadXRef |-> Libcall(126, <<9, 8, 0, 2>>), ExpungeXRef |-> Libcall(132, <<0, 0>>),
    AddAmigaGuideHostA |-> Libcall(138, <<9, 0, 8, 0, 3>>),
    AddAmigaGuideHost |-> Tagcall(138, <<9, 0, 8, 0, 3>>),
    RemoveAmigaGuideHostA |-> Libcall(144, <<9, 8, 0, 2>>),
    RemoveAmigaGuideHost |-> Tagcall(144, <<9, 8, 0, 2>>),
    GetAmigaGuideString |-> Libcall(210, <<0, 0, 1>>) ]

aml_pragmas1 ==
  [ RexxDispatcher |-> Libcall(30, <<8, 0, 1>>), CreateServerA |-> Libcall(36, <<8, 0, 1>>),
    CreateServer |-> Tagcall(36, <<8, 0, 1>>), DisposeServer |-> Libcall(42, <<8, 0, 1>>),
    SetServerAttrsA |-> Libcall(48, <<9, 8, 0, 2>>),
    SetServerAttrs |-> Tagcall(48, <<9, 8, 0, 2>>),
    GetServerAttrsA |-> Libcall(54, <<9, 8, 0, 2>>),
    GetServerAttrs |-> Tagcall(54, <<9, 8, 0, 2>>),
    GetServerHeaders |-> Libcall(60, <<0, 8, 0, 2>>),
    GetServerArticles |-> Libcall(66, <<0, 10, 9, 8, 0, 4>>),
    CreateFolderA |-> Libcall(72, <<9, 8, 0, 2>>), CreateFolder |-> Tagcall(72, <<9, 8, 0, 2>>),
    DisposeFolder |-> Libcall(78, <<8, 0, 1>>), OpenFolderA |-> Libcall(84, <<9, 8, 0, 2>>),
    OpenFolder |-> Tagcall(84, <<9, 8, 0, 2>>), SaveFolder |-> Libcall(90, <<8, 0, 1>>),
    RemFolder |-> Libcall(96, <<8, 0, 1>>), SetFolderAttrsA |-> Libcall(102, <<9, 8, 0, 2>>),
    SetFolderAttrs |-> Tagcall(102, <<9, 8, 0, 2>>),
    GetFolderAttrsA |-> Libcall(108, <<9, 8, 0, 2>>),
    GetFolderAttrs |-> Tagcall(108, <<9, 8, 0, 2>>),
    AddFolderArticle |-> Libcall(114, <<9, 0, 8, 0, 3>>),
    RemFolderArticle |-> Libcall(120, <<9, 8, 0, 2>>),
    ReadFolderSpool |-> Libcall(126, <<0, 9, 8, 0, 3>>),
    WriteFolderSpool |-> Libcall(132, <<0, 9, 8, 0, 3>>),
    ScanFolderIndex |-> Libcall(138, <<0, 9, 8, 0, 3>>),
    ExpungeFolder |-> Libcall(144, <<10, 9, 8, 0, 3>>),
    CreateFolderIndex |-> Libcall(150, <<8, 0, 1>>),
    SortFolderIndex |-> Libcall(156, <<0, 8, 0, 2>>),
    CreateArticleA |-> Libcall(162, <<9, 8, 0, 2>>),
    CreateArticle |-> Tagcall(162, <<9, 8, 0, 2>>), DisposeArticle |-> Libcall(168, <<8, 0, 1>>),
    OpenArticle |-> Libcall(174, <<1, 0, 9, 8, 0, 4>>),
    CopyArticle |-> Libcall(180, <<9, 8, 0, 2>>),
    SetArticleAttrsA |-> Libcall(186, <<9, 8, 0, 2>>),
    SetArticleAttrs |-> Tagcall(186, <<9, 8, 0, 2>>),
    GetArticleAttrsA |-> Libcall(192, <<9, 8, 0, 2>>),
    GetArticleAttrs |-> Tagcall(192, <<9, 8, 0, 2>>),
    SendArticle |-> Libcall(198, <<10, 9, 8, 0, 3>>),
    AddArticlePartA |-> Libcall(204, <<10, 9, 8, 0, 3>>),
    AddArticlePart |-> Tagcall(204, <<10, 9, 8, 0, 3>>),
    RemArticlePart |-> Libcall(210, <<0, 8, 0, 2>>) ]

aml_pragmas2 ==
  [ GetArticlePart |-> Libcall(216, <<0, 8, 0, 2>>),
    GetArticlePartAttrsA |-> Libcall(222, <<9, 8, 0, 2>>),
    GetArticlePartAttrs |-> Tagcall(222, <<9, 8, 0, 2>>),
    SetArticlePartAttrsA |-> Libcall(228, <<9, 8, 0, 2>>),
    SetArticlePartAttrs |-> Tagcall(228, <<9, 8, 0, 2>>),
    CreateArticlePartA |-> Libcall(234, <<9, 8, 0, 2>>),
    CreateArticlePart |-> Tagcall(234, <<9, 8, 0, 2>>),
    DisposeArticlePart |-> Libcall(240, <<8, 0, 1>>),
    GetArticlePartDataA |-> Libcall(246, <<10, 9, 8, 0, 3>>),
    GetArticlePartData |-> Tagcall(246, <<10, 9, 8, 0, 3>>),
    SetArticlePartDataA |-> Libcall(252, <<9, 8, 0, 2>>),
    SetArticlePartData |-> Tagcall(252, <<9, 8, 0, 2>>),
    CreateAddressEntryA |-> Libcall(258, <<8, 0, 1>>),
    CreateAddressEntry |-> Tagcall(258, <<8, 0, 1>>),
    DisposeAddressEntry |-> Libcall(264, <<8, 0, 1>>),
    OpenAddressEntry |-> Libcall(270, <<0, 8, 0, 2>>),
    SaveAddressEntry |-> Libcall(276, <<9, 8, 0, 2>>),
    RemAddressEntry |-> Libcall(282, <<9, 8, 0, 2>>),
    GetAddressEntryAttrsA |-> Libcall(288, <<9, 8, 0, 2>>),
    GetAddressEntryAttrs |-> Tagcall(288, <<9, 8, 0, 2>>),
    SetAddressEntryAttrsA |-> Libcall(294, <<9, 8, 0, 2>>),
    SetAddressEntryAttrs |-> Tagcall(294, <<9, 8, 0, 2>>),
    MatchAddressA |-> Libcall(300, <<9, 8, 0, 2>>), MatchAddress |-> Tagcall(300, <<9, 8, 0, 2>>),
    FindAddressEntryA |-> Libcall(306, <<9, 8, 0, 2>>),
    FindAddressEntry |-> Tagcall(306, <<9, 8, 0, 2>>),
    HuntAddressEntryA |-> Libcall(312, <<9, 8, 0, 2>>),
    HuntAddressEntry |-> Tagcall(312, <<9, 8, 0, 2>>),
    ScanAddressIndex |-> Libcall(318, <<1, 0, 9, 8, 0, 4>>),
    AddCustomField |-> Libcall(324, <<10, 9, 8, 0, 3>>),
    RemCustomField |-> Libcall(330, <<9, 8, 0, 2>>),
    GetCustomFieldData |-> Libcall(336, <<9, 8, 0, 2>>),
    CreateDecoderA |-> Libcall(342, <<8, 0, 1>>), CreateDecoder |-> Tagcall(342, <<8, 0, 1>>),
    DisposeDecoder |-> Libcall(348, <<8, 0, 1>>),
    GetDecoderAttrsA |-> Libcall(354, <<9, 8, 0, 2>>),
    GetDecoderAttrs |-> Tagcall(354, <<9, 8, 0, 2>>),
    SetDecoderAttrsA |-> Libcall(360, <<9, 8, 0, 2>>),
    SetDecoderAttrs |-> Tagcall(360, <<9, 8, 0, 2>>), Decode |-> Libcall(366, <<0, 8, 0, 2>>) ]

aml_pragmas3 ==
  [ Encode |-> Libcall(372, <<0, 8, 0, 2>>) ]

arexx_pragmas ==
  [ AREXX_GetClass |-> Libcall(30, <<0, 0>>) ]

asl_pragmas ==
  [ AllocFileRequest |-> Libcall(30, <<0, 0>>), FreeFileRequest |-> Libcall(36, <<8, 0, 1>>),
    RequestFile |-> Libcall(42, <<8, 0, 1>>), AllocAslRequest |-> Libcall(48, <<8, 0, 0, 2>>),
    AllocAslRequestTags |-> Tagcall(48, <<8, 0, 0, 2>>),
    FreeAslRequest |-> Libcall(54, <<8, 0, 1>>), AslRequest |-> Libcall(60, <<9, 8, 0, 2>>),
    AslRequestTags |-> Tagcall(60, <<9, 8, 0, 2>>), AbortAslRequest |-> Libcall(78, <<8, 0, 1>>),
    ActivateAslRequest |-> Libcall(84, <<8, 0, 1>>) ]

battclock_pragmas ==
  [ ResetBattClock |-> Libcall(6, <<0, 0>>), ReadBattClock |-> Libcall(12, <<0, 0>>),
    WriteBattClock |-> Libcall(18, <<0, 0, 1>>) ]

battmem_pragmas ==
  [ ObtainBattSemaphore |-> Libcall(6, <<0, 0>>), ReleaseBattSemaphore |-> Libcall(12, <<0, 0>>),
    ReadBattMem |-> Libcall(18, <<1, 0, 8, 0, 3>>),
    WriteBattMem |-> Libcall(24, <<1, 0, 8, 0, 3>>) ]

bevel_pragmas ==
  [ BEVEL_GetClass |-> Libcall(30, <<0, 0>>) ]

bitmap_pragmas ==
  [ BITMAP_GetClass |-> Libcall(30, <<0, 0>>) ]

bullet_pragmas ==
  [ OpenEngine |-> Libcall(30, <<0, 0>>), CloseEngine |-> Libcall(36, <<8, 0, 1>>),
    SetInfoA |-> Libcall(42, <<9, 8, 0, 2>>), SetInfo |-> Tagcall(42, <<9, 8, 0, 2>>),
    ObtainInfoA |-> Libcall(48, <<9, 8, 0, 2>>), ObtainInfo |-> Tagcall(48, <<9, 8, 0, 2>>),
    ReleaseInfoA |-> Libcall(54, <<9, 8, 0, 2>>), ReleaseInfo |-> Tagcall(54, <<9, 8, 0, 2>>) ]

button_pragmas ==
  [ BUTTON_GetClass |-> Libcall(30, <<0, 0>>) ]

cardres_pragmas ==
  [ OwnCard |-> Libcall(6, <<9, 0, 1>>), ReleaseCard |-> Libcall(12, <<0, 9, 0, 2>>),
    GetCardMap |-> Libcall(18, <<0, 0>>), BeginCardAccess |-> Libcall(24, <<9, 0, 1>>),
    EndCardAccess |-> Libcall(30, <<9, 0, 1>>), ReadCardStatus |-> Libcall(36, <<0, 0>>),
    CardResetRemove |-> Libcall(42, <<0, 9, 0, 2>>),
    CardMiscControl |-> Libcall(48, <<1, 9, 0, 2>>),
    CardAccessSpeed |-> Libcall(54, <<0, 9, 0, 2>>),
    CardProgramVoltage |-> Libcall(60, <<0, 9, 0, 2>>),
    CardResetCard |-> Libcall(66, <<9, 0, 1>>), CopyTuple |-> Libcall(72, <<0, 1, 8, 9, 0, 4>>),
    DeviceTuple |-> Libcall(78, <<9, 8, 0, 2>>), IfAmigaXIP |-> Libcall(84, <<10, 0, 1>>),
    CardForceChange |-> Libcall(90, <<0, 0>>), CardChangeCount |-> Libcall(96, <<0, 0>>),
    CardInterface |-> Libcall(102, <<0, 0>>) ]

checkbox_pragmas ==
  [ CHECKBOX_GetClass |-> Libcall(30, <<0, 0>>) ]

chooser_pragmas ==
  [ CHOOSER_GetClass |-> Libcall(30, <<0, 0>>), AllocChooserNodeA |-> Libcall(36, <<8, 0, 1>>),
    AllocChooserNode |-> Tagcall(36, <<8, 0, 1>>), FreeChooserNode |-> Libcall(42, <<8, 0, 1>>),
    SetChooserNodeAttrsA |-> Libcall(48, <<9, 8, 0, 2>>),
    SetChooserNodeAttrs |-> Tagcall(48, <<9, 8, 0, 2>>),
    GetChooserNodeAttrsA |-> Libcall(54, <<9, 8, 0, 2>>),
    GetChooserNodeAttrs |-> Tagcall(54, <<9, 8, 0, 2>>) ]

clicktab_pragmas ==
  [ CLICKTAB_GetClass |-> Libcall(30, <<0, 0>>), AllocClickTabNodeA |-> Libcall(36, <<8, 0, 1>>),
    AllocClickTabNode |-> Tagcall(36, <<8, 0, 1>>), FreeClickTabNode |-> Libcall(42, <<8, 0, 1>>),
    SetClickTabNodeAttrsA |-> Libcall(48, <<9, 8, 0, 2>>),
    SetClickTabNodeAttrs |-> Tagcall(48, <<9, 8, 0, 2>>),
    GetClickTabNodeAttrsA |-> Libcall(54, <<9, 8, 0, 2>>),
    GetClickTabNodeAttrs |-> Tagcall(54, <<9, 8, 0, 2>>) ]

colorwheel_pragmas ==
  [ ConvertHSBToRGB |-> Libcall(30, <<9, 8, 0, 2>>),
    ConvertRGBToHSB |-> Libcall(36, <<9, 8, 0, 2>>) ]

commodities_pragmas ==
  [ CreateCxObj |-> Libcall(30, <<9, 8, 0, 0, 3>>), CxBroker |-> Libcall(36, <<0, 8, 0, 2>>),
    ActivateCxObj |-> Libcall(42, <<0, 8, 0, 2>>), DeleteCxObj |-> Libcall(48, <<8, 0, 1>>),
    DeleteCxObjAll |-> Libcall(54, <<8, 0, 1>>), CxObjType |-> Libcall(60, <<8, 0, 1>>),
    CxObjError |-> Libcall(66, <<8, 0, 1>>), ClearCxObjError |-> Libcall(72, <<8, 0, 1>>),
    SetCxObjPri |-> Libcall(78, <<0, 8, 0, 2>>), AttachCxObj |-> Libcall(84, <<9, 8, 0, 2>>),
    EnqueueCxObj |-> Libcall(90, <<9, 8, 0, 2>>), InsertCxObj |-> Libcall(96, <<10, 9, 8, 0, 3>>),
    RemoveCxObj |-> Libcall(102, <<8, 0, 1>>), SetTranslate |-> Libcall(114, <<9, 8, 0, 2>>),
    SetFilter |-> Libcall(120, <<9, 8, 0, 2>>), SetFilterIX |-> Libcall(126, <<9, 8, 0, 2>>),
    ParseIX |-> Libcall(132, <<9, 8, 0, 2>>), CxMsgType |-> Libcall(138, <<8, 0, 1>>),
    CxMsgData |-> Libcall(144, <<8, 0, 1>>), CxMsgID |-> Libcall(150, <<8, 0, 1>>),
    DivertCxMsg |-> Libcall(156, <<10, 9, 8, 0, 3>>), RouteCxMsg |-> Libcall(162, <<9, 8, 0, 2>>),
    DisposeCxMsg |-> Libcall(168, <<8, 0, 1>>), InvertKeyMap |-> Libcall(174, <<9, 8, 0, 0, 3>>),
    AddIEvents |-> Libcall(180, <<8, 0, 1>>), MatchIX |-> Libcall(204, <<9, 8, 0, 2>>) ]

console_pragmas ==
  [ CDInputHandler |-> Libcall(42, <<9, 8, 0, 2>>),
    RawKeyConvert |-> Libcall(48, <<10, 1, 9, 8, 0, 4>>) ]

datatypes_pragmas ==
  [ ObtainDataTypeA |-> Libcall(36, <<9, 8, 0, 0, 3>>),
    ObtainDataType |-> Tagcall(36, <<9, 8, 0, 0, 3>>),
    ReleaseDataType |-> Libcall(42, <<8, 0, 1>>), NewDTObjectA |-> Libcall(48, <<8, 0, 0, 2>>),
    NewDTObject |-> Tagcall(48, <<8, 0, 0, 2>>), DisposeDTObject |-> Libcall(54, <<8, 0, 1>>),
    SetDTAttrsA |-> Libcall(60, <<11, 10, 9, 8, 0, 4>>),
    SetDTAttrs |-> Tagcall(60, <<11, 10, 9, 8, 0, 4>>),
    GetDTAttrsA |-> Libcall(66, <<10, 8, 0, 2>>), GetDTAttrs |-> Tagcall(66, <<10, 8, 0, 2>>),
    AddDTObject |-> Libcall(72, <<0, 10, 9, 8, 0, 4>>),
    RefreshDTObjectA |-> Libcall(78, <<11, 10, 9, 8, 0, 4>>),
    RefreshDTObjects |-> Tagcall(78, <<11, 10, 9, 8, 0, 4>>),
    RefreshDTObject |-> Tagcall(78, <<11, 10, 9, 8, 0, 4>>),
    DoAsyncLayout |-> Libcall(84, <<9, 8, 0, 2>>),
    DoDTMethodA |-> Libcall(90, <<11, 10, 9, 8, 0, 4>>),
    DoDTMethod |-> Tagcall(90, <<11, 10, 9, 8, 0, 4>>),
    RemoveDTObject |-> Libcall(96, <<9, 8, 0, 2>>), GetDTMethods |-> Libcall(102, <<8, 0, 1>>),
    GetDTTriggerMethods |-> Libcall(108, <<8, 0, 1>>),
    PrintDTObjectA |-> Libcall(114, <<11, 10, 9, 8, 0, 4>>),
    PrintDTObject |-> Tagcall(114, <<11, 10, 9, 8, 0, 4>>),
    ObtainDTDrawInfoA |-> Libcall(120, <<9, 8, 0, 2>>),
    ObtainDTDrawInfo |-> Tagcall(120, <<9, 8, 0, 2>>),
    DrawDTObjectA |-> Libcall(126, <<10, 5, 4, 3, 2, 1, 0, 9, 8, 0, 9>>),
    DrawDTObject |-> Tagcall(126, <<10, 5, 4, 3, 2, 1, 0, 9, 8, 0, 9>>),
    ReleaseDTDrawInfo |-> Libcall(132, <<9, 8, 0, 2>>), GetDTString |-> Libcall(138, <<0, 0, 1>>) ]

datebrowser_pragmas ==
  [ DATEBROWSER_GetClass |-> Libcall(30, <<0, 0>>),
    JulianWeekDay |-> Libcall(36, <<2, 1, 0, 0, 3>>),
    JulianMonthDays |-> Libcall(42, <<1, 0, 0, 2>>), JulianLeapYear |-> Libcall(48, <<0, 0, 1>>) ]

disk_pragmas ==
  [ AllocUnit |-> Libcall(6, <<0, 0, 1>>), FreeUnit |-> Libcall(12, <<0, 0, 1>>),
    GetUnit |-> Libcall(18, <<9, 0, 1>>), GiveUnit |-> Libcall(24, <<0, 0>>),
    GetUnitID |-> Libcall(30, <<0, 0, 1>>), ReadUnitID |-> Libcall(36, <<0, 0, 1>>) ]

diskfont_pragmas ==
  [ OpenDiskFont |-> Libcall(30, <<8, 0, 1>>), AvailFonts |-> Libcall(36, <<1, 0, 8, 0, 3>>),
    NewFontContents |-> Libcall(42, <<9, 8, 0, 2>>),
    DisposeFontContents |-> Libcall(48, <<9, 0, 1>>),
    NewScaledDiskFont |-> Libcall(54, <<9, 8, 0, 2>>),
    GetDiskFontCtrl |-> Libcall(60, <<0, 0, 1>>), SetDiskFontCtrlA |-> Libcall(66, <<8, 0, 1>>),
    SetDiskFontCtrl |-> Tagcall(66, <<8, 0, 1>>) ]

dos_pragmas1 ==
  [ Open |-> Libcall(30, <<2, 1, 0, 2>>), Close |-> Libcall(36, <<1, 0, 1>>),
    Read |-> Libcall(42, <<3, 2, 1, 0, 3>>), Write |-> Libcall(48, <<3, 2, 1, 0, 3>>),
    Input |-> Libcall(54, <<0, 0>>), Output |-> Libcall(60, <<0, 0>>),
    Seek |-> Libcall(66, <<3, 2, 1, 0, 3>>), DeleteFile |-> Libcall(72, <<1, 0, 1>>),
    Rename |-> Libcall(78, <<2, 1, 0, 2>>), Lock |-> Libcall(84, <<2, 1, 0, 2>>),
    UnLock |-> Libcall(90, <<1, 0, 1>>), DupLock |-> Libcall(96, <<1, 0, 1>>),
    Examine |-> Libcall(102, <<2, 1, 0, 2>>), ExNext |-> Libcall(108, <<2, 1, 0, 2>>),
    Info |-> Libcall(114, <<2, 1, 0, 2>>), CreateDir |-> Libcall(120, <<1, 0, 1>>),
    CurrentDir |-> Libcall(126, <<1, 0, 1>>), IoErr |-> Libcall(132, <<0, 0>>),
    CreateProc |-> Libcall(138, <<4, 3, 2, 1, 0, 4>>), Exit |-> Libcall(144, <<1, 0, 1>>),
    LoadSeg |-> Libcall(150, <<1, 0, 1>>), UnLoadSeg |-> Libcall(156, <<1, 0, 1>>),
    DeviceProc |-> Libcall(174, <<1, 0, 1>>), SetComment |-> Libcall(180, <<2, 1, 0, 2>>),
    SetProtection |-> Libcall(186, <<2, 1, 0, 2>>), DateStamp |-> Libcall(192, <<1, 0, 1>>),
    Delay |-> Libcall(198, <<1, 0, 1>>), WaitForChar |-> Libcall(204, <<2, 1, 0, 2>>),
    ParentDir |-> Libcall(210, <<1, 0, 1>>), IsInteractive |-> Libcall(216, <<1, 0, 1>>),
    Execute |-> Libcall(222, <<3, 2, 1, 0, 3>>), AllocDosObject |-> Libcall(228, <<2, 1, 0, 2>>),
    AllocDosObjectTagList |-> Libcall(228, <<2, 1, 0, 2>>),
    AllocDosObjectTags |-> Tagcall(228, <<2, 1, 0, 2>>),
    FreeDosObject |-> Libcall(234, <<2, 1, 0, 2>>),
    DoPkt |-> Libcall(240, <<7, 6, 5, 4, 3, 2, 1, 0, 7>>),
    DoPkt0 |-> Libcall(240, <<2, 1, 0, 2>>), DoPkt1 |-> Libcall(240, <<3, 2, 1, 0, 3>>),
    DoPkt2 |-> Libcall(240, <<4, 3, 2, 1, 0, 4>>),
    DoPkt3 |-> Libcall(240, <<5, 4, 3, 2, 1, 0, 5>>),
    DoPkt4 |-> Libcall(240, <<6, 5, 4, 3, 2, 1, 0, 6>>),
    SendPkt |-> Libcall(246, <<3, 2, 1, 0, 3>>), WaitPkt |-> Libcall(252, <<0, 0>>),
    ReplyPkt |-> Libcall(258, <<3, 2, 1, 0, 3>>), AbortPkt |-> Libcall(264, <<2, 1, 0, 2>>),
    LockRecord |-> Libcall(270, <<5, 4, 3, 2, 1, 0, 5>>),
    LockRecords |-> Libcall(276, <<2, 1, 0, 2>>), UnLockRecord |-> Libcall(282, <<3, 2, 1, 0, 3>>) ]

dos_pragmas2 ==
  [ UnLockRecords |-> Libcall(288, <<1, 0, 1>>), SelectInput |-> Libcall(294, <<1, 0, 1>>),
    SelectOutput |-> Libcall(300, <<1, 0, 1>>), FGetC |-> Libcall(306, <<1, 0, 1>>),
    FPutC |-> Libcall(312, <<2, 1, 0, 2>>), UnGetC |-> Libcall(318, <<2, 1, 0, 2>>),
    FRead |-> Libcall(324, <<4, 3, 2, 1, 0, 4>>), FWrite |-> Libcall(330, <<4, 3, 2, 1, 0, 4>>),
    FGets |-> Libcall(336, <<3, 2, 1, 0, 3>>), FPuts |-> Libcall(342, <<2, 1, 0, 2>>),
    VFWritef |-> Libcall(348, <<3, 2, 1, 0, 3>>), FWritef |-> Tagcall(348, <<3, 2, 1, 0, 3>>),
    VFPrintf |-> Libcall(354, <<3, 2, 1, 0, 3>>), FPrintf |-> Tagcall(354, <<3, 2, 1, 0, 3>>),
    Flush |-> Libcall(360, <<1, 0, 1>>), SetVBuf |-> Libcall(366, <<4, 3, 2, 1, 0, 4>>),
    DupLockFromFH |-> Libcall(372, <<1, 0, 1>>), OpenFromLock |-> Libcall(378, <<1, 0, 1>>),
    ParentOfFH |-> Libcall(384, <<1, 0, 1>>), ExamineFH |-> Libcall(390, <<2, 1, 0, 2>>),
    SetFileDate |-> Libcall(396, <<2, 1, 0, 2>>),
    NameFromLock |-> Libcall(402, <<3, 2, 1, 0, 3>>),
    NameFromFH |-> Libcall(408, <<3, 2, 1, 0, 3>>),
    SplitName |-> Libcall(414, <<5, 4, 3, 2, 1, 0, 5>>),
    SameLock |-> Libcall(420, <<2, 1, 0, 2>>), SetMode |-> Libcall(426, <<2, 1, 0, 2>>),
    ExAll |-> Libcall(432, <<5, 4, 3, 2, 1, 0, 5>>),
    ReadLink |-> Libcall(438, <<5, 4, 3, 2, 1, 0, 5>>),
    MakeLink |-> Libcall(444, <<3, 2, 1, 0, 3>>), ChangeMode |-> Libcall(450, <<3, 2, 1, 0, 3>>),
    SetFileSize |-> Libcall(456, <<3, 2, 1, 0, 3>>), SetIoErr |-> Libcall(462, <<1, 0, 1>>),
    Fault |-> Libcall(468, <<4, 3, 2, 1, 0, 4>>), PrintFault |-> Libcall(474, <<2, 1, 0, 2>>),
    ErrorReport |-> Libcall(480, <<4, 3, 2, 1, 0, 4>>), Cli |-> Libcall(492, <<0, 0>>),
    CreateNewProc |-> Libcall(498, <<1, 0, 1>>),
    CreateNewProcTagList |-> Libcall(498, <<1, 0, 1>>),
    CreateNewProcTags |-> Tagcall(498, <<1, 0, 1>>),
    RunCommand |-> Libcall(504, <<4, 3, 2, 1, 0, 4>>), GetConsoleTask |-> Libcall(510, <<0, 0>>),
    SetConsoleTask |-> Libcall(516, <<1, 0, 1>>), GetFileSysTask |-> Libcall(522, <<0, 0>>),
    SetFileSysTask |-> Libcall(528, <<1, 0, 1>>), GetArgStr |-> Libcall(534, <<0, 0>>),
    SetArgStr |-> Libcall(540, <<1, 0, 1>>) ]

dos_pragmas3 ==
  [ FindCliProc |-> Libcall(546, <<1, 0, 1>>), MaxCli |-> Libcall(552, <<0, 0>>),
    SetCurrentDirName |-> Libcall(558, <<1, 0, 1>>),
    GetCurrentDirName |-> Libcall(564, <<2, 1, 0, 2>>),
    SetProgramName |-> Libcall(570, <<1, 0, 1>>), GetProgramName |-> Libcall(576, <<2, 1, 0, 2>>),
    SetPrompt |-> Libcall(582, <<1, 0, 1>>), GetPrompt |-> Libcall(588, <<2, 1, 0, 2>>),
    SetProgramDir |-> Libcall(594, <<1, 0, 1>>), GetProgramDir |-> Libcall(600, <<0, 0>>),
    SystemTagList |-> Libcall(606, <<2, 1, 0, 2>>), System |-> Libcall(606, <<2, 1, 0, 2>>),
    SystemTags |-> Tagcall(606, <<2, 1, 0, 2>>), AssignLock |-> Libcall(612, <<2, 1, 0, 2>>),
    AssignLate |-> Libcall(618, <<2, 1, 0, 2>>), AssignPath |-> Libcall(624, <<2, 1, 0, 2>>),
    AssignAdd |-> Libcall(630, <<2, 1, 0, 2>>), RemAssignList |-> Libcall(636, <<2, 1, 0, 2>>),
    GetDeviceProc |-> Libcall(642, <<2, 1, 0, 2>>), FreeDeviceProc |-> Libcall(648, <<1, 0, 1>>),
    LockDosList |-> Libcall(654, <<1, 0, 1>>), UnLockDosList |-> Libcall(660, <<1, 0, 1>>),
    AttemptLockDosList |-> Libcall(666, <<1, 0, 1>>), RemDosEntry |-> Libcall(672, <<1, 0, 1>>),
    AddDosEntry |-> Libcall(678, <<1, 0, 1>>), FindDosEntry |-> Libcall(684, <<3, 2, 1, 0, 3>>),
    NextDosEntry |-> Libcall(690, <<2, 1, 0, 2>>), MakeDosEntry |-> Libcall(696, <<2, 1, 0, 2>>),
    FreeDosEntry |-> Libcall(702, <<1, 0, 1>>), IsFileSystem |-> Libcall(708, <<1, 0, 1>>),
    Format |-> Libcall(714, <<3, 2, 1, 0, 3>>), Relabel |-> Libcall(720, <<2, 1, 0, 2>>),
    Inhibit |-> Libcall(726, <<2, 1, 0, 2>>), AddBuffers |-> Libcall(732, <<2, 1, 0, 2>>),
    CompareDates |-> Libcall(738, <<2, 1, 0, 2>>), DateToStr |-> Libcall(744, <<1, 0, 1>>),
    StrToDate |-> Libcall(750, <<1, 0, 1>>),
    InternalLoadSeg |-> Libcall(756, <<10, 9, 8, 0, 0, 4>>),
    InternalUnLoadSeg |-> Libcall(762, <<9, 1, 0, 2>>),
    NewLoadSeg |-> Libcall(768, <<2, 1, 0, 2>>),
    NewLoadSegTagList |-> Libcall(768, <<2, 1, 0, 2>>),
    NewLoadSegTags |-> Tagcall(768, <<2, 1, 0, 2>>),
    AddSegment |-> Libcall(774, <<3, 2, 1, 0, 3>>),
    FindSegment |-> Libcall(780, <<3, 2, 1, 0, 3>>), RemSegment |-> Libcall(786, <<1, 0, 1>>),
    CheckSignal |-> Libcall(792, <<1, 0, 1>>), ReadArgs |-> Libcall(798, <<3, 2, 1, 0, 3>>) ]

dos_pragmas4 ==
  [ FindArg |-> Libcall(804, <<2, 1, 0, 2>>), ReadItem |-> Libcall(810, <<3, 2, 1, 0, 3>>),
    StrToLong |-> Libcall(816, <<2, 1, 0, 2>>), MatchFirst |-> Libcall(822, <<2, 1, 0, 2>>),
    MatchNext |-> Libcall(828, <<1, 0, 1>>), MatchEnd |-> Libcall(834, <<1, 0, 1>>),
    ParsePattern |-> Libcall(840, <<3, 2, 1, 0, 3>>),
    MatchPattern |-> Libcall(846, <<2, 1, 0, 2>>), FreeArgs |-> Libcall(858, <<1, 0, 1>>),
    FilePart |-> Libcall(870, <<1, 0, 1>>), PathPart |-> Libcall(876, <<1, 0, 1>>),
    AddPart |-> Libcall(882, <<3, 2, 1, 0, 3>>), StartNotify |-> Libcall(888, <<1, 0, 1>>),
    EndNotify |-> Libcall(894, <<1, 0, 1>>), SetVar |-> Libcall(900, <<4, 3, 2, 1, 0, 4>>),
    GetVar |-> Libcall(906, <<4, 3, 2, 1, 0, 4>>), DeleteVar |-> Libcall(912, <<2, 1, 0, 2>>),
    FindVar |-> Libcall(918, <<2, 1, 0, 2>>), CliInitNewcli |-> Libcall(930, <<8, 0, 1>>),
    CliInitRun |-> Libcall(936, <<8, 0, 1>>), WriteChars |-> Libcall(942, <<2, 1, 0, 2>>),
    PutStr |-> Libcall(948, <<1, 0, 1>>), VPrintf |-> Libcall(954, <<2, 1, 0, 2>>),
    Printf |-> Tagcall(954, <<2, 1, 0, 2>>),
    ParsePatternNoCase |-> Libcall(966, <<3, 2, 1, 0, 3>>),
    MatchPatternNoCase |-> Libcall(972, <<2, 1, 0, 2>>),
    SameDevice |-> Libcall(984, <<2, 1, 0, 2>>),
    ExAllEnd |-> Libcall(990, <<5, 4, 3, 2, 1, 0, 5>>), SetOwner |-> Libcall(996, <<2, 1, 0, 2>>) ]

drawlist_pragmas ==
  [ DRAWLIST_GetClass |-> Libcall(30, <<0, 0>>) ]

exec_pragmas1 ==
  [ Supervisor |-> Libcall(30, <<13, 0, 1>>), InitCode |-> Libcall(72, <<1, 0, 0, 2>>),
    InitStruct |-> Libcall(78, <<0, 10, 9, 0, 3>>),
    MakeLibrary |-> Libcall(84, <<1, 0, 10, 9, 8, 0, 5>>),
    MakeFunctions |-> Libcall(90, <<10, 9, 8, 0, 3>>), FindResident |-> Libcall(96, <<9, 0, 1>>),
    InitResident |-> Libcall(102, <<1, 9, 0, 2>>), Alert |-> Libcall(108, <<7, 0, 1>>),
    Debug |-> Libcall(114, <<0, 0, 1>>), Disable |-> Libcall(120, <<0, 0>>),
    Enable |-> Libcall(126, <<0, 0>>), Forbid |-> Libcall(132, <<0, 0>>),
    Permit |-> Libcall(138, <<0, 0>>), SetSR |-> Libcall(144, <<1, 0, 0, 2>>),
    SuperState |-> Libcall(150, <<0, 0>>), UserState |-> Libcall(156, <<0, 0, 1>>),
    SetIntVector |-> Libcall(162, <<9, 0, 0, 2>>), AddIntServer |-> Libcall(168, <<9, 0, 0, 2>>),
    RemIntServer |-> Libcall(174, <<9, 0, 0, 2>>), Cause |-> Libcall(180, <<9, 0, 1>>),
    Allocate |-> Libcall(186, <<0, 8, 0, 2>>), Deallocate |-> Libcall(192, <<0, 9, 8, 0, 3>>),
    AllocMem |-> Libcall(198, <<1, 0, 0, 2>>), AllocAbs |-> Libcall(204, <<9, 0, 0, 2>>),
    FreeMem |-> Libcall(210, <<0, 9, 0, 2>>), AvailMem |-> Libcall(216, <<1, 0, 1>>),
    AllocEntry |-> Libcall(222, <<8, 0, 1>>), FreeEntry |-> Libcall(228, <<8, 0, 1>>),
    Insert |-> Libcall(234, <<10, 9, 8, 0, 3>>), AddHead |-> Libcall(240, <<9, 8, 0, 2>>),
    AddTail |-> Libcall(246, <<9, 8, 0, 2>>), Remove |-> Libcall(252, <<9, 0, 1>>),
    RemHead |-> Libcall(258, <<8, 0, 1>>), RemTail |-> Libcall(264, <<8, 0, 1>>),
    Enqueue |-> Libcall(270, <<9, 8, 0, 2>>), FindName |-> Libcall(276, <<9, 8, 0, 2>>),
    AddTask |-> Libcall(282, <<11, 10, 9, 0, 3>>), RemTask |-> Libcall(288, <<9, 0, 1>>),
    FindTask |-> Libcall(294, <<9, 0, 1>>), SetTaskPri |-> Libcall(300, <<0, 9, 0, 2>>),
    SetSignal |-> Libcall(306, <<1, 0, 0, 2>>), SetExcept |-> Libcall(312, <<1, 0, 0, 2>>),
    Wait |-> Libcall(318, <<0, 0, 1>>), Signal |-> Libcall(324, <<0, 9, 0, 2>>),
    AllocSignal |-> Libcall(330, <<0, 0, 1>>), FreeSignal |-> Libcall(336, <<0, 0, 1>>),
    AllocTrap |-> Libcall(342, <<0, 0, 1>>) ]

exec_pragmas2 ==
  [ FreeTrap |-> Libcall(348, <<0, 0, 1>>), AddPort |-> Libcall(354, <<9, 0, 1>>),
    RemPort |-> Libcall(360, <<9, 0, 1>>), PutMsg |-> Libcall(366, <<9, 8, 0, 2>>),
    GetMsg |-> Libcall(372, <<8, 0, 1>>), ReplyMsg |-> Libcall(378, <<9, 0, 1>>),
    WaitPort |-> Libcall(384, <<8, 0, 1>>), FindPort |-> Libcall(390, <<9, 0, 1>>),
    AddLibrary |-> Libcall(396, <<9, 0, 1>>), RemLibrary |-> Libcall(402, <<9, 0, 1>>),
    OldOpenLibrary |-> Libcall(408, <<9, 0, 1>>), CloseLibrary |-> Libcall(414, <<9, 0, 1>>),
    SetFunction |-> Libcall(420, <<0, 8, 9, 0, 3>>), SumLibrary |-> Libcall(426, <<9, 0, 1>>),
    AddDevice |-> Libcall(432, <<9, 0, 1>>), RemDevice |-> Libcall(438, <<9, 0, 1>>),
    OpenDevice |-> Libcall(444, <<1, 9, 0, 8, 0, 4>>), CloseDevice |-> Libcall(450, <<9, 0, 1>>),
    DoIO |-> Libcall(456, <<9, 0, 1>>), SendIO |-> Libcall(462, <<9, 0, 1>>),
    CheckIO |-> Libcall(468, <<9, 0, 1>>), WaitIO |-> Libcall(474, <<9, 0, 1>>),
    AbortIO |-> Libcall(480, <<9, 0, 1>>), AddResource |-> Libcall(486, <<9, 0, 1>>),
    RemResource |-> Libcall(492, <<9, 0, 1>>), OpenResource |-> Libcall(498, <<9, 0, 1>>),
    RawDoFmt |-> Libcall(522, <<11, 10, 9, 8, 0, 4>>), GetCC |-> Libcall(528, <<0, 0>>),
    TypeOfMem |-> Libcall(534, <<9, 0, 1>>), Procure |-> Libcall(540, <<9, 8, 0, 2>>),
    Vacate |-> Libcall(546, <<9, 8, 0, 2>>), OpenLibrary |-> Libcall(552, <<0, 9, 0, 2>>),
    InitSemaphore |-> Libcall(558, <<8, 0, 1>>), ObtainSemaphore |-> Libcall(564, <<8, 0, 1>>),
    ReleaseSemaphore |-> Libcall(570, <<8, 0, 1>>),
    AttemptSemaphore |-> Libcall(576, <<8, 0, 1>>),
    ObtainSemaphoreList |-> Libcall(582, <<8, 0, 1>>),
    ReleaseSemaphoreList |-> Libcall(588, <<8, 0, 1>>),
    FindSemaphore |-> Libcall(594, <<9, 0, 1>>), AddSemaphore |-> Libcall(600, <<9, 0, 1>>),
    RemSemaphore |-> Libcall(606, <<9, 0, 1>>), SumKickData |-> Libcall(612, <<0, 0>>),
    AddMemList |-> Libcall(618, <<9, 8, 2, 1, 0, 0, 5>>),
    CopyMem |-> Libcall(624, <<0, 9, 8, 0, 3>>), CopyMemQuick |-> Libcall(630, <<0, 9, 8, 0, 3>>),
    CacheClearU |-> Libcall(636, <<0, 0>>) ]

exec_pragmas3 ==
  [ CacheClearE |-> Libcall(642, <<1, 0, 8, 0, 3>>),
    CacheControl |-> Libcall(648, <<1, 0, 0, 2>>),
    CreateIORequest |-> Libcall(654, <<0, 8, 0, 2>>),
    DeleteIORequest |-> Libcall(660, <<8, 0, 1>>), CreateMsgPort |-> Libcall(666, <<0, 0>>),
    DeleteMsgPort |-> Libcall(672, <<8, 0, 1>>),
    ObtainSemaphoreShared |-> Libcall(678, <<8, 0, 1>>),
    AllocVec |-> Libcall(684, <<1, 0, 0, 2>>), FreeVec |-> Libcall(690, <<9, 0, 1>>),
    CreatePool |-> Libcall(696, <<2, 1, 0, 0, 3>>), DeletePool |-> Libcall(702, <<8, 0, 1>>),
    AllocPooled |-> Libcall(708, <<0, 8, 0, 2>>), FreePooled |-> Libcall(714, <<0, 9, 8, 0, 3>>),
    AttemptSemaphoreShared |-> Libcall(720, <<8, 0, 1>>), ColdReboot |-> Libcall(726, <<0, 0>>),
    StackSwap |-> Libcall(732, <<8, 0, 1>>), CachePreDMA |-> Libcall(762, <<0, 9, 8, 0, 3>>),
    CachePostDMA |-> Libcall(768, <<0, 9, 8, 0, 3>>), AddMemHandler |-> Libcall(774, <<9, 0, 1>>),
    RemMemHandler |-> Libcall(780, <<9, 0, 1>>), ObtainQuickVector |-> Libcall(786, <<8, 0, 1>>),
    NewMinList |-> Libcall(828, <<8, 0, 1>>), AVL_AddNode |-> Libcall(852, <<10, 9, 8, 0, 3>>),
    AVL_RemNodeByAddress |-> Libcall(858, <<9, 8, 0, 2>>),
    AVL_RemNodeByKey |-> Libcall(864, <<10, 9, 8, 0, 3>>),
    AVL_FindNode |-> Libcall(870, <<10, 9, 8, 0, 3>>),
    AVL_FindPrevNodeByAddress |-> Libcall(876, <<8, 0, 1>>),
    AVL_FindPrevNodeByKey |-> Libcall(882, <<10, 9, 8, 0, 3>>),
    AVL_FindNextNodeByAddress |-> Libcall(888, <<8, 0, 1>>),
    AVL_FindNextNodeByKey |-> Libcall(894, <<10, 9, 8, 0, 3>>),
    AVL_FindFirstNode |-> Libcall(900, <<8, 0, 1>>),
    AVL_FindLastNode |-> Libcall(906, <<8, 0, 1>>) ]

exec_sysbase_pragmas1 ==
  [ Supervisor |-> Libcall(30, <<13, 0, 1>>), InitCode |-> Libcall(72, <<1, 0, 0, 2>>),
    InitStruct |-> Libcall(78, <<0, 10, 9, 0, 3>>),
    MakeLibrary |-> Libcall(84, <<1, 0, 10, 9, 8, 0, 5>>),
    MakeFunctions |-> Libcall(90, <<10, 9, 8, 0, 3>>), FindResident |-> Libcall(96, <<9, 0, 1>>),
    InitResident |-> Libcall(102, <<1, 9, 0, 2>>), Alert |-> Libcall(108, <<7, 0, 1>>),
    Debug |-> Libcall(114, <<0, 0, 1>>), Disable |-> Libcall(120, <<0, 0>>),
    Enable |-> Libcall(126, <<0, 0>>), Forbid |-> Libcall(132, <<0, 0>>),
    Permit |-> Libcall(138, <<0, 0>>), SetSR |-> Libcall(144, <<1, 0, 0, 2>>),
    SuperState |-> Libcall(150, <<0, 0>>), UserState |-> Libcall(156, <<0, 0, 1>>),
    SetIntVector |-> Libcall(162, <<9, 0, 0, 2>>), AddIntServer |-> Libcall(168, <<9, 0, 0, 2>>),
    RemIntServer |-> Libcall(174, <<9, 0, 0, 2>>), Cause |-> Libcall(180, <<9, 0, 1>>),
    Allocate |-> Libcall(186, <<0, 8, 0, 2>>), Deallocate |-> Libcall(192, <<0, 9, 8, 0, 3>>),
    AllocMem |-> Libcall(198, <<1, 0, 0, 2>>), AllocAbs |-> Libcall(204, <<9, 0, 0, 2>>),
    FreeMem |-> Libcall(210, <<0, 9, 0, 2>>), AvailMem |-> Libcall(216, <<1, 0, 1>>),
    AllocEntry |-> Libcall(222, <<8, 0, 1>>), FreeEntry |-> Libcall(228, <<8, 0, 1>>),
    Insert |-> Libcall(234, <<10, 9, 8, 0, 3>>), AddHead |-> Libcall(240, <<9, 8, 0, 2>>),
    AddTail |-> Libcall(246, <<9, 8, 0, 2>>), Remove |-> Libcall(252, <<9, 0, 1>>),
    RemHead |-> Libcall(258, <<8, 0, 1>>), RemTail |-> Libcall(264, <<8, 0, 1>>),
    Enqueue |-> Libcall(270, <<9, 8, 0, 2>>), FindName |-> Libcall(276, <<9, 8, 0, 2>>),
    AddTask |-> Libcall(282, <<11, 10, 9, 0, 3>>), RemTask |-> Libcall(288, <<9, 0, 1>>),
    FindTask |-> Libcall(294, <<9, 0, 1>>), SetTaskPri |-> Libcall(300, <<0, 9, 0, 2>>),
    SetSignal |-> Libcall(306, <<1, 0, 0, 2>>), SetExcept |-> Libcall(312, <<1, 0, 0, 2>>),
    Wait |-> Libcall(318, <<0, 0, 1>>), Signal |-> Libcall(324, <<0, 9, 0, 2>>),
    AllocSignal |-> Libcall(330, <<0, 0, 1>>), FreeSignal |-> Libcall(336, <<0, 0, 1>>),
    AllocTrap |-> Libcall(342, <<0, 0, 1>>) ]

exec_sysbase_pragmas2 ==
  [ FreeTrap |-> Libcall(348, <<0, 0, 1>>), AddPort |-> Libcall(354, <<9, 0, 1>>),
    RemPort |-> Libcall(360, <<9, 0, 1>>), PutMsg |-> Libcall(366, <<9, 8, 0, 2>>),
    GetMsg |-> Libcall(372, <<8, 0, 1>>), ReplyMsg |-> Libcall(378, <<9, 0, 1>>),
    WaitPort |-> Libcall(384, <<8, 0, 1>>), FindPort |-> Libcall(390, <<9, 0, 1>>),
    AddLibrary |-> Libcall(396, <<9, 0, 1>>), RemLibrary |-> Libcall(402, <<9, 0, 1>>),
    OldOpenLibrary |-> Libcall(408, <<9, 0, 1>>), CloseLibrary |-> Libcall(414, <<9, 0, 1>>),
    SetFunction |-> Libcall(420, <<0, 8, 9, 0, 3>>), SumLibrary |-> Libcall(426, <<9, 0, 1>>),
    AddDevice |-> Libcall(432, <<9, 0, 1>>), RemDevice |-> Libcall(438, <<9, 0, 1>>),
    OpenDevice |-> Libcall(444, <<1, 9, 0, 8, 0, 4>>), CloseDevice |-> Libcall(450, <<9, 0, 1>>),
    DoIO |-> Libcall(456, <<9, 0, 1>>), SendIO |-> Libcall(462, <<9, 0, 1>>),
    CheckIO |-> Libcall(468, <<9, 0, 1>>), WaitIO |-> Libcall(474, <<9, 0, 1>>),
    AbortIO |-> Libcall(480, <<9, 0, 1>>), AddResource |-> Libcall(486, <<9, 0, 1>>),
    RemResource |-> Libcall(492, <<9, 0, 1>>), OpenResource |-> Libcall(498, <<9, 0, 1>>),
    RawDoFmt |-> Libcall(522, <<11, 10, 9, 8, 0, 4>>), GetCC |-> Libcall(528, <<0, 0>>),
    TypeOfMem |-> Libcall(534, <<9, 0, 1>>), Procure |-> Libcall(540, <<9, 8, 0, 2>>),
    Vacate |-> Libcall(546, <<9, 8, 0, 2>>), OpenLibrary |-> Libcall(552, <<0, 9, 0, 2>>),
    InitSemaphore |-> Libcall(558, <<8, 0, 1>>), ObtainSemaphore |-> Libcall(564, <<8, 0, 1>>),
    ReleaseSemaphore |-> Libcall(570, <<8, 0, 1>>),
    AttemptSemaphore |-> Libcall(576, <<8, 0, 1>>),
    ObtainSemaphoreList |-> Libcall(582, <<8, 0, 1>>),
    ReleaseSemaphoreList |-> Libcall(588, <<8, 0, 1>>),
    FindSemaphore |-> Libcall(594, <<9, 0, 1>>), AddSemaphore |-> Libcall(600, <<9, 0, 1>>),
    RemSemaphore |-> Libcall(606, <<9, 0, 1>>), SumKickData |-> Libcall(612, <<0, 0>>),
    AddMemList |-> Libcall(618, <<9, 8, 2, 1, 0, 0, 5>>),
    CopyMem |-> Libcall(624, <<0, 9, 8, 0, 3>>), CopyMemQuick |-> Libcall(630, <<0, 9, 8, 0, 3>>),
    CacheClearU |-> Libcall(636, <<0, 0>>) ]

exec_sysbase_pragmas3 ==
  [ CacheClearE |-> Libcall(642, <<1, 0, 8, 0, 3>>),
    CacheControl |-> Libcall(648, <<1, 0, 0, 2>>),
    CreateIORequest |-> Libcall(654, <<0, 8, 0, 2>>),
    DeleteIORequest |-> Libcall(660, <<8, 0, 1>>), CreateMsgPort |-> Libcall(666, <<0, 0>>),
    DeleteMsgPort |-> Libcall(672, <<8, 0, 1>>),
    ObtainSemaphoreShared |-> Libcall(678, <<8, 0, 1>>),
    AllocVec |-> Libcall(684, <<1, 0, 0, 2>>), FreeVec |-> Libcall(690, <<9, 0, 1>>),
    CreatePool |-> Libcall(696, <<2, 1, 0, 0, 3>>), DeletePool |-> Libcall(702, <<8, 0, 1>>),
    AllocPooled |-> Libcall(708, <<0, 8, 0, 2>>), FreePooled |-> Libcall(714, <<0, 9, 8, 0, 3>>),
    AttemptSemaphoreShared |-> Libcall(720, <<8, 0, 1>>), ColdReboot |-> Libcall(726, <<0, 0>>),
    StackSwap |-> Libcall(732, <<8, 0, 1>>), CachePreDMA |-> Libcall(762, <<0, 9, 8, 0, 3>>),
    CachePostDMA |-> Libcall(768, <<0, 9, 8, 0, 3>>), AddMemHandler |-> Libcall(774, <<9, 0, 1>>),
    RemMemHandler |-> Libcall(780, <<9, 0, 1>>), ObtainQuickVector |-> Libcall(786, <<8, 0, 1>>),
    NewMinList |-> Libcall(828, <<8, 0, 1>>), AVL_AddNode |-> Libcall(852, <<10, 9, 8, 0, 3>>),
    AVL_RemNodeByAddress |-> Libcall(858, <<9, 8, 0, 2>>),
    AVL_RemNodeByKey |-> Libcall(864, <<10, 9, 8, 0, 3>>),
    AVL_FindNode |-> Libcall(870, <<10, 9, 8, 0, 3>>),
    AVL_FindPrevNodeByAddress |-> Libcall(876, <<8, 0, 1>>),
    AVL_FindPrevNodeByKey |-> Libcall(882, <<10, 9, 8, 0, 3>>),
    AVL_FindNextNodeByAddress |-> Libcall(888, <<8, 0, 1>>),
    AVL_FindNextNodeByKey |-> Libcall(894, <<10, 9, 8, 0, 3>>),
    AVL_FindFirstNode |-> Libcall(900, <<8, 0, 1>>),
    AVL_FindLastNode |-> Libcall(906, <<8, 0, 1>>) ]

expansion_pragmas ==
  [ AddConfigDev |-> Libcall(30, <<8, 0, 1>>), AddBootNode |-> Libcall(36, <<9, 8, 1, 0, 0, 4>>),
    AllocBoardMem |-> Libcall(42, <<0, 0, 1>>), AllocConfigDev |-> Libcall(48, <<0, 0>>),
    AllocExpansionMem |-> Libcall(54, <<1, 0, 0, 2>>),
    ConfigBoard |-> Libcall(60, <<9, 8, 0, 2>>), ConfigChain |-> Libcall(66, <<8, 0, 1>>),
    FindConfigDev |-> Libcall(72, <<1, 0, 8, 0, 3>>),
    FreeBoardMem |-> Libcall(78, <<1, 0, 0, 2>>), FreeConfigDev |-> Libcall(84, <<8, 0, 1>>),
    FreeExpansionMem |-> Libcall(90, <<1, 0, 0, 2>>),
    ReadExpansionByte |-> Libcall(96, <<0, 8, 0, 2>>),
    ReadExpansionRom |-> Libcall(102, <<9, 8, 0, 2>>), RemConfigDev |-> Libcall(108, <<8, 0, 1>>),
    WriteExpansionByte |-> Libcall(114, <<1, 0, 8, 0, 3>>),
    ObtainConfigBinding |-> Libcall(120, <<0, 0>>),
    ReleaseConfigBinding |-> Libcall(126, <<0, 0>>),
    SetCurrentBinding |-> Libcall(132, <<0, 8, 0, 2>>),
    GetCurrentBinding |-> Libcall(138, <<0, 8, 0, 2>>), MakeDosNode |-> Libcall(144, <<8, 0, 1>>),
    AddDosNode |-> Libcall(150, <<8, 1, 0, 0, 3>>) ]

fuelgauge_pragmas ==
  [ FUELGAUGE_GetClass |-> Libcall(30, <<0, 0>>) ]

gadtools_pragmas ==
  [ CreateGadgetA |-> Libcall(30, <<10, 9, 8, 0, 0, 4>>),
    CreateGadget |-> Tagcall(30, <<10, 9, 8, 0, 0, 4>>), FreeGadgets |-> Libcall(36, <<8, 0, 1>>),
    GT_SetGadgetAttrsA |-> Libcall(42, <<11, 10, 9, 8, 0, 4>>),
    GT_SetGadgetAttrs |-> Tagcall(42, <<11, 10, 9, 8, 0, 4>>),
    CreateMenusA |-> Libcall(48, <<9, 8, 0, 2>>), CreateMenus |-> Tagcall(48, <<9, 8, 0, 2>>),
    FreeMenus |-> Libcall(54, <<8, 0, 1>>), LayoutMenuItemsA |-> Libcall(60, <<10, 9, 8, 0, 3>>),
    LayoutMenuItems |-> Tagcall(60, <<10, 9, 8, 0, 3>>),
    LayoutMenusA |-> Libcall(66, <<10, 9, 8, 0, 3>>),
    LayoutMenus |-> Tagcall(66, <<10, 9, 8, 0, 3>>), GT_GetIMsg |-> Libcall(72, <<8, 0, 1>>),
    GT_ReplyIMsg |-> Libcall(78, <<9, 0, 1>>), GT_RefreshWindow |-> Libcall(84, <<9, 8, 0, 2>>),
    GT_BeginRefresh |-> Libcall(90, <<8, 0, 1>>), GT_EndRefresh |-> Libcall(96, <<0, 8, 0, 2>>),
    GT_FilterIMsg |-> Libcall(102, <<9, 0, 1>>), GT_PostFilterIMsg |-> Libcall(108, <<9, 0, 1>>),
    CreateContext |-> Libcall(114, <<8, 0, 1>>),
    DrawBevelBoxA |-> Libcall(120, <<9, 3, 2, 1, 0, 8, 0, 6>>),
    DrawBevelBox |-> Tagcall(120, <<9, 3, 2, 1, 0, 8, 0, 6>>),
    GetVisualInfoA |-> Libcall(126, <<9, 8, 0, 2>>),
    GetVisualInfo |-> Tagcall(126, <<9, 8, 0, 2>>), FreeVisualInfo |-> Libcall(132, <<8, 0, 1>>),
    GT_GetGadgetAttrsA |-> Libcall(174, <<11, 10, 9, 8, 0, 4>>),
    GT_GetGadgetAttrs |-> Tagcall(174, <<11, 10, 9, 8, 0, 4>>) ]

getfile_pragmas ==
  [ GETFILE_GetClass |-> Libcall(30, <<0, 0>>) ]

getfont_pragmas ==
  [ GETFONT_GetClass |-> Libcall(30, <<0, 0>>) ]

getscreenmode_pragmas ==
  [ GETSCREENMODE_GetClass |-> Libcall(30, <<0, 0>>) ]

glyph_pragmas ==
  [ GLYPH_GetClass |-> Libcall(30, <<0, 0>>) ]

graphics_pragmas1 ==
  [ BltBitMap |-> Libcall(30, <<10, 7, 6, 5, 4, 3, 2, 9, 1, 0, 8, 0, 11>>),
    BltTemplate |-> Libcall(36, <<5, 4, 3, 2, 9, 1, 0, 8, 0, 8>>),
    ClearEOL |-> Libcall(42, <<9, 0, 1>>), ClearScreen |-> Libcall(48, <<9, 0, 1>>),
    TextLength |-> Libcall(54, <<0, 8, 9, 0, 3>>), Text |-> Libcall(60, <<0, 8, 9, 0, 3>>),
    SetFont |-> Libcall(66, <<8, 9, 0, 2>>), OpenFont |-> Libcall(72, <<8, 0, 1>>),
    CloseFont |-> Libcall(78, <<9, 0, 1>>), AskSoftStyle |-> Libcall(84, <<9, 0, 1>>),
    SetSoftStyle |-> Libcall(90, <<1, 0, 9, 0, 3>>), AddBob |-> Libcall(96, <<9, 8, 0, 2>>),
    AddVSprite |-> Libcall(102, <<9, 8, 0, 2>>), DoCollision |-> Libcall(108, <<9, 0, 1>>),
    DrawGList |-> Libcall(114, <<8, 9, 0, 2>>), InitGels |-> Libcall(120, <<10, 9, 8, 0, 3>>),
    InitMasks |-> Libcall(126, <<8, 0, 1>>), RemIBob |-> Libcall(132, <<10, 9, 8, 0, 3>>),
    RemVSprite |-> Libcall(138, <<8, 0, 1>>), SetCollision |-> Libcall(144, <<9, 8, 0, 0, 3>>),
    SortGList |-> Libcall(150, <<9, 0, 1>>), AddAnimOb |-> Libcall(156, <<10, 9, 8, 0, 3>>),
    Animate |-> Libcall(162, <<9, 8, 0, 2>>), GetGBuffers |-> Libcall(168, <<0, 9, 8, 0, 3>>),
    InitGMasks |-> Libcall(174, <<8, 0, 1>>),
    DrawEllipse |-> Libcall(180, <<3, 2, 1, 0, 9, 0, 5>>),
    AreaEllipse |-> Libcall(186, <<3, 2, 1, 0, 9, 0, 5>>),
    LoadRGB4 |-> Libcall(192, <<0, 9, 8, 0, 3>>), InitRastPort |-> Libcall(198, <<9, 0, 1>>),
    InitVPort |-> Libcall(204, <<8, 0, 1>>), MrgCop |-> Libcall(210, <<9, 0, 1>>),
    MakeVPort |-> Libcall(216, <<9, 8, 0, 2>>), LoadView |-> Libcall(222, <<9, 0, 1>>),
    WaitBlit |-> Libcall(228, <<0, 0>>), SetRast |-> Libcall(234, <<0, 9, 0, 2>>),
    Move |-> Libcall(240, <<1, 0, 9, 0, 3>>), Draw |-> Libcall(246, <<1, 0, 9, 0, 3>>),
    AreaMove |-> Libcall(252, <<1, 0, 9, 0, 3>>), AreaDraw |-> Libcall(258, <<1, 0, 9, 0, 3>>),
    AreaEnd |-> Libcall(264, <<9, 0, 1>>), WaitTOF |-> Libcall(270, <<0, 0>>),
    QBlit |-> Libcall(276, <<9, 0, 1>>), InitArea |-> Libcall(282, <<0, 9, 8, 0, 3>>),
    SetRGB4 |-> Libcall(288, <<3, 2, 1, 0, 8, 0, 5>>), QBSBlit |-> Libcall(294, <<9, 0, 1>>),
    BltClear |-> Libcall(300, <<1, 0, 9, 0, 3>>),
    RectFill |-> Libcall(306, <<3, 2, 1, 0, 9, 0, 5>>),
    BltPattern |-> Libcall(312, <<4, 3, 2, 1, 0, 8, 9, 0, 7>>),
    ReadPixel |-> Libcall(318, <<1, 0, 9, 0, 3>>) ]

graphics_pragmas2 ==
  [ WritePixel |-> Libcall(324, <<1, 0, 9, 0, 3>>), Flood |-> Libcall(330, <<1, 0, 2, 9, 0, 4>>),
    PolyDraw |-> Libcall(336, <<8, 0, 9, 0, 3>>), SetAPen |-> Libcall(342, <<0, 9, 0, 2>>),
    SetBPen |-> Libcall(348, <<0, 9, 0, 2>>), SetDrMd |-> Libcall(354, <<0, 9, 0, 2>>),
    InitView |-> Libcall(360, <<9, 0, 1>>), CBump |-> Libcall(366, <<9, 0, 1>>),
    CMove |-> Libcall(372, <<1, 0, 9, 0, 3>>), CWait |-> Libcall(378, <<1, 0, 9, 0, 3>>),
    VBeamPos |-> Libcall(384, <<0, 0>>), InitBitMap |-> Libcall(390, <<2, 1, 0, 8, 0, 4>>),
    ScrollRaster |-> Libcall(396, <<5, 4, 3, 2, 1, 0, 9, 0, 7>>),
    WaitBOVP |-> Libcall(402, <<8, 0, 1>>), GetSprite |-> Libcall(408, <<0, 8, 0, 2>>),
    FreeSprite |-> Libcall(414, <<0, 0, 1>>), ChangeSprite |-> Libcall(420, <<10, 9, 8, 0, 3>>),
    MoveSprite |-> Libcall(426, <<1, 0, 9, 8, 0, 4>>),
    LockLayerRom |-> Libcall(432, <<13, 0, 1>>), UnlockLayerRom |-> Libcall(438, <<13, 0, 1>>),
    SyncSBitMap |-> Libcall(444, <<8, 0, 1>>), CopySBitMap |-> Libcall(450, <<8, 0, 1>>),
    OwnBlitter |-> Libcall(456, <<0, 0>>), DisownBlitter |-> Libcall(462, <<0, 0>>),
    InitTmpRas |-> Libcall(468, <<0, 9, 8, 0, 3>>), AskFont |-> Libcall(474, <<8, 9, 0, 2>>),
    AddFont |-> Libcall(480, <<9, 0, 1>>), RemFont |-> Libcall(486, <<9, 0, 1>>),
    AllocRaster |-> Libcall(492, <<1, 0, 0, 2>>), FreeRaster |-> Libcall(498, <<1, 0, 8, 0, 3>>),
    AndRectRegion |-> Libcall(504, <<9, 8, 0, 2>>), OrRectRegion |-> Libcall(510, <<9, 8, 0, 2>>),
    NewRegion |-> Libcall(516, <<0, 0>>), ClearRectRegion |-> Libcall(522, <<9, 8, 0, 2>>),
    ClearRegion |-> Libcall(528, <<8, 0, 1>>), DisposeRegion |-> Libcall(534, <<8, 0, 1>>),
    FreeVPortCopLists |-> Libcall(540, <<8, 0, 1>>), FreeCopList |-> Libcall(546, <<8, 0, 1>>),
    ClipBlit |-> Libcall(552, <<6, 5, 4, 3, 2, 9, 1, 0, 8, 0, 9>>),
    XorRectRegion |-> Libcall(558, <<9, 8, 0, 2>>), FreeCprList |-> Libcall(564, <<8, 0, 1>>),
    GetColorMap |-> Libcall(570, <<0, 0, 1>>), FreeColorMap |-> Libcall(576, <<8, 0, 1>>),
    GetRGB4 |-> Libcall(582, <<0, 8, 0, 2>>), ScrollVPort |-> Libcall(588, <<8, 0, 1>>),
    UCopperListInit |-> Libcall(594, <<0, 8, 0, 2>>),
    FreeGBuffers |-> Libcall(600, <<0, 9, 8, 0, 3>>),
    BltBitMapRastPort |-> Libcall(606, <<6, 5, 4, 3, 2, 9, 1, 0, 8, 0, 9>>),
    OrRegionRegion |-> Libcall(612, <<9, 8, 0, 2>>),
    XorRegionRegion |-> Libcall(618, <<9, 8, 0, 2>>) ]

graphics_pragmas3 ==
  [ AndRegionRegion |-> Libcall(624, <<9, 8, 0, 2>>),
    SetRGB4CM |-> Libcall(630, <<3, 2, 1, 0, 8, 0, 5>>),
    BltMaskBitMapRastPort |-> Libcall(636, <<10, 6, 5, 4, 3, 2, 9, 1, 0, 8, 0, 10>>),
    AttemptLockLayerRom |-> Libcall(654, <<13, 0, 1>>), GfxNew |-> Libcall(660, <<0, 0, 1>>),
    GfxFree |-> Libcall(666, <<8, 0, 1>>), GfxAssociate |-> Libcall(672, <<9, 8, 0, 2>>),
    BitMapScale |-> Libcall(678, <<8, 0, 1>>), ScalerDiv |-> Libcall(684, <<2, 1, 0, 0, 3>>),
    TextExtent |-> Libcall(690, <<10, 0, 8, 9, 0, 4>>),
    TextFit |-> Libcall(696, <<3, 2, 1, 11, 10, 0, 8, 9, 0, 8>>),
    GfxLookUp |-> Libcall(702, <<8, 0, 1>>), VideoControl |-> Libcall(708, <<9, 8, 0, 2>>),
    VideoControlTags |-> Tagcall(708, <<9, 8, 0, 2>>),
    OpenMonitor |-> Libcall(714, <<0, 9, 0, 2>>), CloseMonitor |-> Libcall(720, <<8, 0, 1>>),
    FindDisplayInfo |-> Libcall(726, <<0, 0, 1>>), NextDisplayInfo |-> Libcall(732, <<0, 0, 1>>),
    GetDisplayInfoData |-> Libcall(756, <<2, 1, 0, 9, 8, 0, 5>>),
    FontExtent |-> Libcall(762, <<9, 8, 0, 2>>),
    ReadPixelLine8 |-> Libcall(768, <<9, 10, 2, 1, 0, 8, 0, 6>>),
    WritePixelLine8 |-> Libcall(774, <<9, 10, 2, 1, 0, 8, 0, 6>>),
    ReadPixelArray8 |-> Libcall(780, <<9, 10, 3, 2, 1, 0, 8, 0, 7>>),
    WritePixelArray8 |-> Libcall(786, <<9, 10, 3, 2, 1, 0, 8, 0, 7>>),
    GetVPModeID |-> Libcall(792, <<8, 0, 1>>), ModeNotAvailable |-> Libcall(798, <<0, 0, 1>>),
    EraseRect |-> Libcall(810, <<3, 2, 1, 0, 9, 0, 5>>),
    ExtendFont |-> Libcall(816, <<9, 8, 0, 2>>), ExtendFontTags |-> Tagcall(816, <<9, 8, 0, 2>>),
    StripFont |-> Libcall(822, <<8, 0, 1>>), CalcIVG |-> Libcall(828, <<9, 8, 0, 2>>),
    AttachPalExtra |-> Libcall(834, <<9, 8, 0, 2>>),
    ObtainBestPenA |-> Libcall(840, <<9, 3, 2, 1, 8, 0, 5>>),
    ObtainBestPen |-> Tagcall(840, <<9, 3, 2, 1, 8, 0, 5>>),
    SetRGB32 |-> Libcall(852, <<3, 2, 1, 0, 8, 0, 5>>), GetAPen |-> Libcall(858, <<8, 0, 1>>),
    GetBPen |-> Libcall(864, <<8, 0, 1>>), GetDrMd |-> Libcall(870, <<8, 0, 1>>),
    GetOutlinePen |-> Libcall(876, <<8, 0, 1>>), LoadRGB32 |-> Libcall(882, <<9, 8, 0, 2>>),
    SetChipRev |-> Libcall(888, <<0, 0, 1>>), SetABPenDrMd |-> Libcall(894, <<2, 1, 0, 9, 0, 4>>),
    GetRGB32 |-> Libcall(900, <<9, 1, 0, 8, 0, 4>>),
    AllocBitMap |-> Libcall(918, <<8, 3, 2, 1, 0, 0, 5>>),
    FreeBitMap |-> Libcall(924, <<8, 0, 1>>), GetExtSpriteA |-> Libcall(930, <<9, 10, 0, 2>>) ]

graphics_pragmas4 ==
  [ GetExtSprite |-> Tagcall(930, <<9, 10, 0, 2>>),
    CoerceMode |-> Libcall(936, <<1, 0, 8, 0, 3>>),
    ChangeVPBitMap |-> Libcall(942, <<10, 9, 8, 0, 3>>),
    ReleasePen |-> Libcall(948, <<0, 8, 0, 2>>),
    ObtainPen |-> Libcall(954, <<4, 3, 2, 1, 0, 8, 0, 6>>),
    GetBitMapAttr |-> Libcall(960, <<1, 8, 0, 2>>), AllocDBufInfo |-> Libcall(966, <<8, 0, 1>>),
    FreeDBufInfo |-> Libcall(972, <<9, 0, 1>>), SetOutlinePen |-> Libcall(978, <<0, 8, 0, 2>>),
    SetWriteMask |-> Libcall(984, <<0, 8, 0, 2>>), SetMaxPen |-> Libcall(990, <<0, 8, 0, 2>>),
    SetRGB32CM |-> Libcall(996, <<3, 2, 1, 0, 8, 0, 5>>),
    ScrollRasterBF |-> Libcall(1002, <<5, 4, 3, 2, 1, 0, 9, 0, 7>>),
    FindColor |-> Libcall(1008, <<4, 3, 2, 1, 11, 0, 5>>),
    AllocSpriteDataA |-> Libcall(1020, <<9, 10, 0, 2>>),
    AllocSpriteData |-> Tagcall(1020, <<9, 10, 0, 2>>),
    ChangeExtSpriteA |-> Libcall(1026, <<11, 10, 9, 8, 0, 4>>),
    ChangeExtSprite |-> Tagcall(1026, <<11, 10, 9, 8, 0, 4>>),
    FreeSpriteData |-> Libcall(1032, <<10, 0, 1>>), SetRPAttrsA |-> Libcall(1038, <<9, 8, 0, 2>>),
    SetRPAttrs |-> Tagcall(1038, <<9, 8, 0, 2>>), GetRPAttrsA |-> Libcall(1044, <<9, 8, 0, 2>>),
    GetRPAttrs |-> Tagcall(1044, <<9, 8, 0, 2>>), BestModeIDA |-> Libcall(1050, <<8, 0, 1>>),
    BestModeID |-> Tagcall(1050, <<8, 0, 1>>),
    WriteChunkyPixels |-> Libcall(1056, <<4, 10, 3, 2, 1, 0, 8, 0, 7>>) ]

icon_pragmas ==
  [ FreeFreeList |-> Libcall(54, <<8, 0, 1>>), AddFreeList |-> Libcall(72, <<10, 9, 8, 0, 3>>),
    GetDiskObject |-> Libcall(78, <<8, 0, 1>>), PutDiskObject |-> Libcall(84, <<9, 8, 0, 2>>),
    FreeDiskObject |-> Libcall(90, <<8, 0, 1>>), FindToolType |-> Libcall(96, <<9, 8, 0, 2>>),
    MatchToolValue |-> Libcall(102, <<9, 8, 0, 2>>),
    BumpRevision |-> Libcall(108, <<9, 8, 0, 2>>), GetDefDiskObject |-> Libcall(120, <<0, 0, 1>>),
    PutDefDiskObject |-> Libcall(126, <<8, 0, 1>>),
    GetDiskObjectNew |-> Libcall(132, <<8, 0, 1>>),
    DeleteDiskObject |-> Libcall(138, <<8, 0, 1>>),
    DupDiskObjectA |-> Libcall(150, <<9, 8, 0, 2>>),
    DupDiskObject |-> Tagcall(150, <<9, 8, 0, 2>>), IconControlA |-> Libcall(156, <<9, 8, 0, 2>>),
    IconControl |-> Tagcall(156, <<9, 8, 0, 2>>),
    DrawIconStateA |-> Libcall(162, <<11, 2, 1, 0, 10, 9, 8, 0, 7>>),
    DrawIconState |-> Tagcall(162, <<11, 2, 1, 0, 10, 9, 8, 0, 7>>),
    GetIconRectangleA |-> Libcall(168, <<12, 11, 10, 9, 8, 0, 5>>),
    GetIconRectangle |-> Tagcall(168, <<12, 11, 10, 9, 8, 0, 5>>),
    NewDiskObject |-> Libcall(174, <<0, 0, 1>>), GetIconTagList |-> Libcall(180, <<9, 8, 0, 2>>),
    GetIconTags |-> Tagcall(180, <<9, 8, 0, 2>>),
    PutIconTagList |-> Libcall(186, <<10, 9, 8, 0, 3>>),
    PutIconTags |-> Tagcall(186, <<10, 9, 8, 0, 3>>),
    LayoutIconA |-> Libcall(192, <<10, 9, 8, 0, 3>>),
    LayoutIcon |-> Tagcall(192, <<10, 9, 8, 0, 3>>),
    ChangeToSelectedIconColor |-> Libcall(198, <<8, 0, 1>>) ]

iffparse_pragmas ==
  [ AllocIFF |-> Libcall(30, <<0, 0>>), OpenIFF |-> Libcall(36, <<0, 8, 0, 2>>),
    ParseIFF |-> Libcall(42, <<0, 8, 0, 2>>), CloseIFF |-> Libcall(48, <<8, 0, 1>>),
    FreeIFF |-> Libcall(54, <<8, 0, 1>>), ReadChunkBytes |-> Libcall(60, <<0, 9, 8, 0, 3>>),
    WriteChunkBytes |-> Libcall(66, <<0, 9, 8, 0, 3>>),
    ReadChunkRecords |-> Libcall(72, <<1, 0, 9, 8, 0, 4>>),
    WriteChunkRecords |-> Libcall(78, <<1, 0, 9, 8, 0, 4>>),
    PushChunk |-> Libcall(84, <<2, 1, 0, 8, 0, 4>>), PopChunk |-> Libcall(90, <<8, 0, 1>>),
    EntryHandler |-> Libcall(102, <<10, 9, 2, 1, 0, 8, 0, 6>>),
    ExitHandler |-> Libcall(108, <<10, 9, 2, 1, 0, 8, 0, 6>>),
    PropChunk |-> Libcall(114, <<1, 0, 8, 0, 3>>), PropChunks |-> Libcall(120, <<0, 9, 8, 0, 3>>),
    StopChunk |-> Libcall(126, <<1, 0, 8, 0, 3>>), StopChunks |-> Libcall(132, <<0, 9, 8, 0, 3>>),
    CollectionChunk |-> Libcall(138, <<1, 0, 8, 0, 3>>),
    CollectionChunks |-> Libcall(144, <<0, 9, 8, 0, 3>>),
    StopOnExit |-> Libcall(150, <<1, 0, 8, 0, 3>>), FindProp |-> Libcall(156, <<1, 0, 8, 0, 3>>),
    FindCollection |-> Libcall(162, <<1, 0, 8, 0, 3>>),
    FindPropContext |-> Libcall(168, <<8, 0, 1>>), CurrentChunk |-> Libcall(174, <<8, 0, 1>>),
    ParentChunk |-> Libcall(180, <<8, 0, 1>>),
    AllocLocalItem |-> Libcall(186, <<3, 2, 1, 0, 0, 4>>),
    LocalItemData |-> Libcall(192, <<8, 0, 1>>),
    SetLocalItemPurge |-> Libcall(198, <<9, 8, 0, 2>>),
    FreeLocalItem |-> Libcall(204, <<8, 0, 1>>),
    FindLocalItem |-> Libcall(210, <<2, 1, 0, 8, 0, 4>>),
    StoreLocalItem |-> Libcall(216, <<0, 9, 8, 0, 3>>),
    StoreItemInContext |-> Libcall(222, <<10, 9, 8, 0, 3>>),
    InitIFF |-> Libcall(228, <<9, 0, 8, 0, 3>>), InitIFFasDOS |-> Libcall(234, <<8, 0, 1>>),
    InitIFFasClip |-> Libcall(240, <<8, 0, 1>>), OpenClipboard |-> Libcall(246, <<0, 0, 1>>),
    CloseClipboard |-> Libcall(252, <<8, 0, 1>>), GoodID |-> Libcall(258, <<0, 0, 1>>),
    GoodType |-> Libcall(264, <<0, 0, 1>>), IDtoStr |-> Libcall(270, <<8, 0, 0, 2>>) ]

input_pragmas ==
  [ PeekQualifier |-> Libcall(42, <<0, 0>>) ]

integer_pragmas ==
  [ INTEGER_GetClass |-> Libcall(30, <<0, 0>>) ]

intuition_pragmas1 ==
  [ OpenIntuition |-> Libcall(30, <<0, 0>>), Intuition |-> Libcall(36, <<8, 0, 1>>),
    AddGadget |-> Libcall(42, <<0, 9, 8, 0, 3>>), ClearDMRequest |-> Libcall(48, <<8, 0, 1>>),
    ClearMenuStrip |-> Libcall(54, <<8, 0, 1>>), ClearPointer |-> Libcall(60, <<8, 0, 1>>),
    CloseScreen |-> Libcall(66, <<8, 0, 1>>), CloseWindow |-> Libcall(72, <<8, 0, 1>>),
    CloseWorkBench |-> Libcall(78, <<0, 0>>), CurrentTime |-> Libcall(84, <<9, 8, 0, 2>>),
    DisplayAlert |-> Libcall(90, <<1, 8, 0, 0, 3>>), DisplayBeep |-> Libcall(96, <<8, 0, 1>>),
    DoubleClick |-> Libcall(102, <<3, 2, 1, 0, 0, 4>>),
    DrawBorder |-> Libcall(108, <<1, 0, 9, 8, 0, 4>>),
    DrawImage |-> Libcall(114, <<1, 0, 9, 8, 0, 4>>), EndRequest |-> Libcall(120, <<9, 8, 0, 2>>),
    GetDefPrefs |-> Libcall(126, <<0, 8, 0, 2>>), GetPrefs |-> Libcall(132, <<0, 8, 0, 2>>),
    InitRequester |-> Libcall(138, <<8, 0, 1>>), ItemAddress |-> Libcall(144, <<0, 8, 0, 2>>),
    ModifyIDCMP |-> Libcall(150, <<0, 8, 0, 2>>),
    ModifyProp |-> Libcall(156, <<4, 3, 2, 1, 0, 10, 9, 8, 0, 8>>),
    MoveScreen |-> Libcall(162, <<1, 0, 8, 0, 3>>),
    MoveWindow |-> Libcall(168, <<1, 0, 8, 0, 3>>),
    OffGadget |-> Libcall(174, <<10, 9, 8, 0, 3>>), OffMenu |-> Libcall(180, <<0, 8, 0, 2>>),
    OnGadget |-> Libcall(186, <<10, 9, 8, 0, 3>>), OnMenu |-> Libcall(192, <<0, 8, 0, 2>>),
    OpenScreen |-> Libcall(198, <<8, 0, 1>>), OpenWindow |-> Libcall(204, <<8, 0, 1>>),
    OpenWorkBench |-> Libcall(210, <<0, 0>>), PrintIText |-> Libcall(216, <<1, 0, 9, 8, 0, 4>>),
    RefreshGadgets |-> Libcall(222, <<10, 9, 8, 0, 3>>),
    RemoveGadget |-> Libcall(228, <<9, 8, 0, 2>>), ReportMouse |-> Libcall(234, <<8, 0, 0, 2>>),
    ReportMouse1 |-> Libcall(234, <<0, 8, 0, 2>>), Request |-> Libcall(240, <<9, 8, 0, 2>>),
    ScreenToBack |-> Libcall(246, <<8, 0, 1>>), ScreenToFront |-> Libcall(252, <<8, 0, 1>>),
    SetDMRequest |-> Libcall(258, <<9, 8, 0, 2>>), SetMenuStrip |-> Libcall(264, <<9, 8, 0, 2>>),
    SetPointer |-> Libcall(270, <<3, 2, 1, 0, 9, 8, 0, 6>>),
    SetWindowTitles |-> Libcall(276, <<10, 9, 8, 0, 3>>),
    ShowTitle |-> Libcall(282, <<0, 8, 0, 2>>), SizeWindow |-> Libcall(288, <<1, 0, 8, 0, 3>>),
    ViewAddress |-> Libcall(294, <<0, 0>>), ViewPortAddress |-> Libcall(300, <<8, 0, 1>>),
    WindowToBack |-> Libcall(306, <<8, 0, 1>>), WindowToFront |-> Libcall(312, <<8, 0, 1>>) ]

intuition_pragmas2 ==
  [ WindowLimits |-> Libcall(318, <<3, 2, 1, 0, 8, 0, 5>>),
    SetPrefs |-> Libcall(324, <<1, 0, 8, 0, 3>>), IntuiTextLength |-> Libcall(330, <<8, 0, 1>>),
    WBenchToBack |-> Libcall(336, <<0, 0>>), WBenchToFront |-> Libcall(342, <<0, 0>>),
    AutoRequest |-> Libcall(348, <<3, 2, 1, 0, 11, 10, 9, 8, 0, 8>>),
    BeginRefresh |-> Libcall(354, <<8, 0, 1>>),
    BuildSysRequest |-> Libcall(360, <<2, 1, 0, 11, 10, 9, 8, 0, 7>>),
    EndRefresh |-> Libcall(366, <<0, 8, 0, 2>>), FreeSysRequest |-> Libcall(372, <<8, 0, 1>>),
    MakeScreen |-> Libcall(378, <<8, 0, 1>>), RemakeDisplay |-> Libcall(384, <<0, 0>>),
    RethinkDisplay |-> Libcall(390, <<0, 0>>), AllocRemember |-> Libcall(396, <<1, 0, 8, 0, 3>>),
    FreeRemember |-> Libcall(408, <<0, 8, 0, 2>>), LockIBase |-> Libcall(414, <<0, 0, 1>>),
    UnlockIBase |-> Libcall(420, <<8, 0, 1>>),
    GetScreenData |-> Libcall(426, <<9, 1, 0, 8, 0, 4>>),
    RefreshGList |-> Libcall(432, <<0, 10, 9, 8, 0, 4>>),
    AddGList |-> Libcall(438, <<10, 1, 0, 9, 8, 0, 5>>),
    RemoveGList |-> Libcall(444, <<0, 9, 8, 0, 3>>), ActivateWindow |-> Libcall(450, <<8, 0, 1>>),
    RefreshWindowFrame |-> Libcall(456, <<8, 0, 1>>),
    ActivateGadget |-> Libcall(462, <<10, 9, 8, 0, 3>>),
    NewModifyProp |-> Libcall(468, <<5, 4, 3, 2, 1, 0, 10, 9, 8, 0, 9>>),
    QueryOverscan |-> Libcall(474, <<0, 9, 8, 0, 3>>),
    MoveWindowInFrontOf |-> Libcall(480, <<9, 8, 0, 2>>),
    ChangeWindowBox |-> Libcall(486, <<3, 2, 1, 0, 8, 0, 5>>),
    SetEditHook |-> Libcall(492, <<8, 0, 1>>), SetMouseQueue |-> Libcall(498, <<0, 8, 0, 2>>),
    ZipWindow |-> Libcall(504, <<8, 0, 1>>), LockPubScreen |-> Libcall(510, <<8, 0, 1>>),
    UnlockPubScreen |-> Libcall(516, <<9, 8, 0, 2>>),
    LockPubScreenList |-> Libcall(522, <<0, 0>>), UnlockPubScreenList |-> Libcall(528, <<0, 0>>),
    NextPubScreen |-> Libcall(534, <<9, 8, 0, 2>>),
    SetDefaultPubScreen |-> Libcall(540, <<8, 0, 1>>),
    SetPubScreenModes |-> Libcall(546, <<0, 0, 1>>),
    PubScreenStatus |-> Libcall(552, <<0, 8, 0, 2>>), ObtainGIRPort |-> Libcall(558, <<8, 0, 1>>),
    ReleaseGIRPort |-> Libcall(564, <<8, 0, 1>>),
    GadgetMouse |-> Libcall(570, <<10, 9, 8, 0, 3>>),
    GetDefaultPubScreen |-> Libcall(582, <<8, 0, 1>>),
    EasyRequestArgs |-> Libcall(588, <<11, 10, 9, 8, 0, 4>>),
    EasyRequest |-> Tagcall(588, <<11, 10, 9, 8, 0, 4>>) ]

intuition_pragmas3 ==
  [ BuildEasyRequestArgs |-> Libcall(594, <<11, 0, 9, 8, 0, 4>>),
    BuildEasyRequest |-> Tagcall(594, <<11, 0, 9, 8, 0, 4>>),
    SysReqHandler |-> Libcall(600, <<0, 9, 8, 0, 3>>),
    OpenWindowTagList |-> Libcall(606, <<9, 8, 0, 2>>),
    OpenWindowTags |-> Tagcall(606, <<9, 8, 0, 2>>),
    OpenScreenTagList |-> Libcall(612, <<9, 8, 0, 2>>),
    OpenScreenTags |-> Tagcall(612, <<9, 8, 0, 2>>),
    DrawImageState |-> Libcall(618, <<10, 2, 1, 0, 9, 8, 0, 6>>),
    PointInImage |-> Libcall(624, <<8, 0, 0, 2>>),
    EraseImage |-> Libcall(630, <<1, 0, 9, 8, 0, 4>>),
    NewObjectA |-> Libcall(636, <<10, 9, 8, 0, 3>>),
    NewObject |-> Tagcall(636, <<10, 9, 8, 0, 3>>), DisposeObject |-> Libcall(642, <<8, 0, 1>>),
    SetAttrsA |-> Libcall(648, <<9, 8, 0, 2>>), SetAttrs |-> Tagcall(648, <<9, 8, 0, 2>>),
    GetAttr |-> Libcall(654, <<9, 8, 0, 0, 3>>),
    SetGadgetAttrsA |-> Libcall(660, <<11, 10, 9, 8, 0, 4>>),
    SetGadgetAttrs |-> Tagcall(660, <<11, 10, 9, 8, 0, 4>>),
    NextObject |-> Libcall(666, <<8, 0, 1>>),
    MakeClass |-> Libcall(678, <<1, 0, 10, 9, 8, 0, 5>>), AddClass |-> Libcall(684, <<8, 0, 1>>),
    GetScreenDrawInfo |-> Libcall(690, <<8, 0, 1>>),
    FreeScreenDrawInfo |-> Libcall(696, <<9, 8, 0, 2>>),
    ResetMenuStrip |-> Libcall(702, <<9, 8, 0, 2>>), RemoveClass |-> Libcall(708, <<8, 0, 1>>),
    FreeClass |-> Libcall(714, <<8, 0, 1>>),
    AllocScreenBuffer |-> Libcall(768, <<0, 9, 8, 0, 3>>),
    FreeScreenBuffer |-> Libcall(774, <<9, 8, 0, 2>>),
    ChangeScreenBuffer |-> Libcall(780, <<9, 8, 0, 2>>),
    ScreenDepth |-> Libcall(786, <<9, 0, 8, 0, 3>>),
    ScreenPosition |-> Libcall(792, <<4, 3, 2, 1, 0, 8, 0, 6>>),
    ScrollWindowRaster |-> Libcall(798, <<5, 4, 3, 2, 1, 0, 9, 0, 7>>),
    LendMenus |-> Libcall(804, <<9, 8, 0, 2>>),
    DoGadgetMethodA |-> Libcall(810, <<11, 10, 9, 8, 0, 4>>),
    DoGadgetMethod |-> Tagcall(810, <<11, 10, 9, 8, 0, 4>>),
    SetWindowPointerA |-> Libcall(816, <<9, 8, 0, 2>>),
    SetWindowPointer |-> Tagcall(816, <<9, 8, 0, 2>>),
    TimedDisplayAlert |-> Libcall(822, <<9, 1, 8, 0, 0, 4>>),
    HelpControl |-> Libcall(828, <<0, 8, 0, 2>>) ]

keymap_pragmas ==
  [ SetKeyMapDefault |-> Libcall(30, <<8, 0, 1>>), AskKeyMapDefault |-> Libcall(36, <<0, 0>>),
    MapRawKey |-> Libcall(42, <<10, 1, 9, 8, 0, 4>>),
    MapANSI |-> Libcall(48, <<10, 1, 9, 0, 8, 0, 5>>) ]

label_pragmas ==
  [ LABEL_GetClass |-> Libcall(30, <<0, 0>>) ]

layers_pragmas ==
  [ InitLayers |-> Libcall(30, <<8, 0, 1>>),
    CreateUpfrontLayer |-> Libcall(36, <<10, 4, 3, 2, 1, 0, 9, 8, 0, 8>>),
    CreateBehindLayer |-> Libcall(42, <<10, 4, 3, 2, 1, 0, 9, 8, 0, 8>>),
    UpfrontLayer |-> Libcall(48, <<9, 8, 0, 2>>), BehindLayer |-> Libcall(54, <<9, 8, 0, 2>>),
    MoveLayer |-> Libcall(60, <<1, 0, 9, 8, 0, 4>>),
    SizeLayer |-> Libcall(66, <<1, 0, 9, 8, 0, 4>>),
    ScrollLayer |-> Libcall(72, <<1, 0, 9, 8, 0, 4>>), BeginUpdate |-> Libcall(78, <<8, 0, 1>>),
    EndUpdate |-> Libcall(84, <<0, 8, 0, 2>>), DeleteLayer |-> Libcall(90, <<9, 8, 0, 2>>),
    LockLayer |-> Libcall(96, <<9, 8, 0, 2>>), UnlockLayer |-> Libcall(102, <<8, 0, 1>>),
    LockLayers |-> Libcall(108, <<8, 0, 1>>), UnlockLayers |-> Libcall(114, <<8, 0, 1>>),
    LockLayerInfo |-> Libcall(120, <<8, 0, 1>>),
    SwapBitsRastPortClipRect |-> Libcall(126, <<9, 8, 0, 2>>),
    WhichLayer |-> Libcall(132, <<1, 0, 8, 0, 3>>), UnlockLayerInfo |-> Libcall(138, <<8, 0, 1>>),
    NewLayerInfo |-> Libcall(144, <<0, 0>>), DisposeLayerInfo |-> Libcall(150, <<8, 0, 1>>),
    FattenLayerInfo |-> Libcall(156, <<8, 0, 1>>), ThinLayerInfo |-> Libcall(162, <<8, 0, 1>>),
    MoveLayerInFrontOf |-> Libcall(168, <<9, 8, 0, 2>>),
    InstallClipRegion |-> Libcall(174, <<9, 8, 0, 2>>),
    MoveSizeLayer |-> Libcall(180, <<3, 2, 1, 0, 8, 0, 5>>),
    CreateUpfrontHookLayer |-> Libcall(186, <<10, 11, 4, 3, 2, 1, 0, 9, 8, 0, 9>>),
    CreateBehindHookLayer |-> Libcall(192, <<10, 11, 4, 3, 2, 1, 0, 9, 8, 0, 9>>),
    InstallLayerHook |-> Libcall(198, <<9, 8, 0, 2>>),
    InstallLayerInfoHook |-> Libcall(204, <<9, 8, 0, 2>>),
    SortLayerCR |-> Libcall(210, <<1, 0, 8, 0, 3>>),
    DoHookClipRects |-> Libcall(216, <<10, 9, 8, 0, 3>>) ]

layout_pragmas ==
  [ LAYOUT_GetClass |-> Libcall(30, <<0, 0>>),
    ActivateLayoutGadget |-> Libcall(36, <<0, 10, 9, 8, 0, 4>>),
    FlushLayoutDomainCache |-> Libcall(42, <<8, 0, 1>>),
    RethinkLayout |-> Libcall(48, <<0, 10, 9, 8, 0, 4>>),
    LayoutLimits |-> Libcall(54, <<11, 10, 9, 8, 0, 4>>), PAGE_GetClass |-> Libcall(60, <<0, 0>>),
    SetPageGadgetAttrsA |-> Libcall(66, <<12, 11, 10, 9, 8, 0, 5>>),
    SetPageGadgetAttrs |-> Tagcall(66, <<12, 11, 10, 9, 8, 0, 5>>),
    RefreshPageGadget |-> Libcall(72, <<11, 10, 9, 8, 0, 4>>) ]

listbrowser_pragmas ==
  [ LISTBROWSER_GetClass |-> Libcall(30, <<0, 0>>),
    AllocListBrowserNodeA |-> Libcall(36, <<8, 0, 0, 2>>),
    AllocListBrowserNode |-> Tagcall(36, <<8, 0, 0, 2>>),
    FreeListBrowserNode |-> Libcall(42, <<8, 0, 1>>),
    SetListBrowserNodeAttrsA |-> Libcall(48, <<9, 8, 0, 2>>),
    SetListBrowserNodeAttrs |-> Tagcall(48, <<9, 8, 0, 2>>),
    GetListBrowserNodeAttrsA |-> Libcall(54, <<9, 8, 0, 2>>),
    GetListBrowserNodeAttrs |-> Tagcall(54, <<9, 8, 0, 2>>),
    ListBrowserSelectAll |-> Libcall(60, <<8, 0, 1>>),
    ShowListBrowserNodeChildren |-> Libcall(66, <<0, 8, 0, 2>>),
    HideListBrowserNodeChildren |-> Libcall(72, <<8, 0, 1>>),
    ShowAllListBrowserChildren |-> Libcall(78, <<8, 0, 1>>),
    HideAllListBrowserChildren |-> Libcall(84, <<8, 0, 1>>),
    FreeListBrowserList |-> Libcall(90, <<8, 0, 1>>),
    AllocLBColumnInfoA |-> Libcall(96, <<8, 0, 0, 2>>),
    AllocLBColumnInfo |-> Tagcall(96, <<8, 0, 0, 2>>),
    SetLBColumnInfoAttrsA |-> Libcall(102, <<8, 9, 0, 2>>),
    SetLBColumnInfoAttrs |-> Tagcall(102, <<8, 9, 0, 2>>),
    GetLBColumnInfoAttrsA |-> Libcall(108, <<8, 9, 0, 2>>),
    GetLBColumnInfoAttrs |-> Tagcall(108, <<8, 9, 0, 2>>),
    FreeLBColumnInfo |-> Libcall(114, <<8, 0, 1>>),
    ListBrowserClearAll |-> Libcall(120, <<8, 0, 1>>) ]

locale_pragmas ==
  [ CloseCatalog |-> Libcall(36, <<8, 0, 1>>), CloseLocale |-> Libcall(42, <<8, 0, 1>>),
    ConvToLower |-> Libcall(48, <<0, 8, 0, 2>>), ConvToUpper |-> Libcall(54, <<0, 8, 0, 2>>),
    FormatDate |-> Libcall(60, <<11, 10, 9, 8, 0, 4>>),
    FormatString |-> Libcall(66, <<11, 10, 9, 8, 0, 4>>),
    GetCatalogStr |-> Libcall(72, <<9, 0, 8, 0, 3>>),
    GetLocaleStr |-> Libcall(78, <<0, 8, 0, 2>>), IsAlNum |-> Libcall(84, <<0, 8, 0, 2>>),
    IsAlpha |-> Libcall(90, <<0, 8, 0, 2>>), IsCntrl |-> Libcall(96, <<0, 8, 0, 2>>),
    IsDigit |-> Libcall(102, <<0, 8, 0, 2>>), IsGraph |-> Libcall(108, <<0, 8, 0, 2>>),
    IsLower |-> Libcall(114, <<0, 8, 0, 2>>), IsPrint |-> Libcall(120, <<0, 8, 0, 2>>),
    IsPunct |-> Libcall(126, <<0, 8, 0, 2>>), IsSpace |-> Libcall(132, <<0, 8, 0, 2>>),
    IsUpper |-> Libcall(138, <<0, 8, 0, 2>>), IsXDigit |-> Libcall(144, <<0, 8, 0, 2>>),
    OpenCatalogA |-> Libcall(150, <<10, 9, 8, 0, 3>>),
    OpenCatalog |-> Tagcall(150, <<10, 9, 8, 0, 3>>), OpenLocale |-> Libcall(156, <<8, 0, 1>>),
    ParseDate |-> Libcall(162, <<11, 10, 9, 8, 0, 4>>),
    StrConvert |-> Libcall(174, <<1, 0, 10, 9, 8, 0, 5>>),
    StrnCmp |-> Libcall(180, <<1, 0, 10, 9, 8, 0, 5>>) ]

lowlevel_pragmas ==
  [ ReadJoyPort |-> Libcall(30, <<0, 0, 1>>), GetLanguageSelection |-> Libcall(36, <<0, 0>>),
    GetKey |-> Libcall(48, <<0, 0>>), QueryKeys |-> Libcall(54, <<1, 8, 0, 2>>),
    AddKBInt |-> Libcall(60, <<9, 8, 0, 2>>), RemKBInt |-> Libcall(66, <<9, 0, 1>>),
    SystemControlA |-> Libcall(72, <<9, 0, 1>>), SystemControl |-> Tagcall(72, <<9, 0, 1>>),
    AddTimerInt |-> Libcall(78, <<9, 8, 0, 2>>), RemTimerInt |-> Libcall(84, <<9, 0, 1>>),
    StopTimerInt |-> Libcall(90, <<9, 0, 1>>), StartTimerInt |-> Libcall(96, <<1, 0, 9, 0, 3>>),
    ElapsedTime |-> Libcall(102, <<8, 0, 1>>), AddVBlankInt |-> Libcall(108, <<9, 8, 0, 2>>),
    RemVBlankInt |-> Libcall(114, <<9, 0, 1>>), SetJoyPortAttrsA |-> Libcall(132, <<9, 0, 0, 2>>),
    SetJoyPortAttrs |-> Tagcall(132, <<9, 0, 0, 2>>) ]

mathffp_pragmas ==
  [ SPFix |-> Libcall(30, <<0, 0, 1>>), SPFlt |-> Libcall(36, <<0, 0, 1>>),
    SPCmp |-> Libcall(42, <<0, 1, 0, 2>>), SPTst |-> Libcall(48, <<1, 0, 1>>),
    SPAbs |-> Libcall(54, <<0, 0, 1>>), SPNeg |-> Libcall(60, <<0, 0, 1>>),
    SPAdd |-> Libcall(66, <<0, 1, 0, 2>>), SPSub |-> Libcall(72, <<0, 1, 0, 2>>),
    SPMul |-> Libcall(78, <<0, 1, 0, 2>>), SPDiv |-> Libcall(84, <<0, 1, 0, 2>>),
    SPFloor |-> Libcall(90, <<0, 0, 1>>), SPCeil |-> Libcall(96, <<0, 0, 1>>) ]

mathieeedoubbas_pragmas ==
  [ IEEEDPFix |-> Libcall(30, <<0, 0, 1>>), IEEEDPFlt |-> Libcall(36, <<0, 0, 1>>),
    IEEEDPCmp |-> Libcall(42, <<2, 0, 0, 2>>), IEEEDPTst |-> Libcall(48, <<0, 0, 1>>),
    IEEEDPAbs |-> Libcall(54, <<0, 0, 1>>), IEEEDPNeg |-> Libcall(60, <<0, 0, 1>>),
    IEEEDPAdd |-> Libcall(66, <<2, 0, 0, 2>>), IEEEDPSub |-> Libcall(72, <<2, 0, 0, 2>>),
    IEEEDPMul |-> Libcall(78, <<2, 0, 0, 2>>), IEEEDPDiv |-> Libcall(84, <<2, 0, 0, 2>>),
    IEEEDPFloor |-> Libcall(90, <<0, 0, 1>>), IEEEDPCeil |-> Libcall(96, <<0, 0, 1>>) ]

mathieeedoubtrans_pragmas ==
  [ IEEEDPAtan |-> Libcall(30, <<0, 0, 1>>), IEEEDPSin |-> Libcall(36, <<0, 0, 1>>),
    IEEEDPCos |-> Libcall(42, <<0, 0, 1>>), IEEEDPTan |-> Libcall(48, <<0, 0, 1>>),
    IEEEDPSincos |-> Libcall(54, <<0, 8, 0, 2>>), IEEEDPSinh |-> Libcall(60, <<0, 0, 1>>),
    IEEEDPCosh |-> Libcall(66, <<0, 0, 1>>), IEEEDPTanh |-> Libcall(72, <<0, 0, 1>>),
    IEEEDPExp |-> Libcall(78, <<0, 0, 1>>), IEEEDPLog |-> Libcall(84, <<0, 0, 1>>),
    IEEEDPPow |-> Libcall(90, <<0, 2, 0, 2>>), IEEEDPSqrt |-> Libcall(96, <<0, 0, 1>>),
    IEEEDPTieee |-> Libcall(102, <<0, 0, 1>>), IEEEDPFieee |-> Libcall(108, <<0, 0, 1>>),
    IEEEDPAsin |-> Libcall(114, <<0, 0, 1>>), IEEEDPAcos |-> Libcall(120, <<0, 0, 1>>),
    IEEEDPLog10 |-> Libcall(126, <<0, 0, 1>>) ]

mathieeesingbas_pragmas ==
  [ IEEESPFix |-> Libcall(30, <<0, 0, 1>>), IEEESPFlt |-> Libcall(36, <<0, 0, 1>>),
    IEEESPCmp |-> Libcall(42, <<1, 0, 0, 2>>), IEEESPTst |-> Libcall(48, <<0, 0, 1>>),
    IEEESPAbs |-> Libcall(54, <<0, 0, 1>>), IEEESPNeg |-> Libcall(60, <<0, 0, 1>>),
    IEEESPAdd |-> Libcall(66, <<1, 0, 0, 2>>), IEEESPSub |-> Libcall(72, <<1, 0, 0, 2>>),
    IEEESPMul |-> Libcall(78, <<1, 0, 0, 2>>), IEEESPDiv |-> Libcall(84, <<1, 0, 0, 2>>),
    IEEESPFloor |-> Libcall(90, <<0, 0, 1>>), IEEESPCeil |-> Libcall(96, <<0, 0, 1>>) ]

mathieeesingtrans_pragmas ==
  [ IEEESPAtan |-> Libcall(30, <<0, 0, 1>>), IEEESPSin |-> Libcall(36, <<0, 0, 1>>),
    IEEESPCos |-> Libcall(42, <<0, 0, 1>>), IEEESPTan |-> Libcall(48, <<0, 0, 1>>),
    IEEESPSincos |-> Libcall(54, <<0, 8, 0, 2>>), IEEESPSinh |-> Libcall(60, <<0, 0, 1>>),
    IEEESPCosh |-> Libcall(66, <<0, 0, 1>>), IEEESPTanh |-> Libcall(72, <<0, 0, 1>>),
    IEEESPExp |-> Libcall(78, <<0, 0, 1>>), IEEESPLog |-> Libcall(84, <<0, 0, 1>>),
    IEEESPPow |-> Libcall(90, <<0, 1, 0, 2>>), IEEESPSqrt |-> Libcall(96, <<0, 0, 1>>),
    IEEESPTieee |-> Libcall(102, <<0, 0, 1>>), IEEESPFieee |-> Libcall(108, <<0, 0, 1>>),
    IEEESPAsin |-> Libcall(114, <<0, 0, 1>>), IEEESPAcos |-> Libcall(120, <<0, 0, 1>>),
    IEEESPLog10 |-> Libcall(126, <<0, 0, 1>>) ]

mathtrans_pragmas ==
  [ SPAtan |-> Libcall(30, <<0, 0, 1>>), SPSin |-> Libcall(36, <<0, 0, 1>>),
    SPCos |-> Libcall(42, <<0, 0, 1>>), SPTan |-> Libcall(48, <<0, 0, 1>>),
    SPSincos |-> Libcall(54, <<0, 1, 0, 2>>), SPSinh |-> Libcall(60, <<0, 0, 1>>),
    SPCosh |-> Libcall(66, <<0, 0, 1>>), SPTanh |-> Libcall(72, <<0, 0, 1>>),
    SPExp |-> Libcall(78, <<0, 0, 1>>), SPLog |-> Libcall(84, <<0, 0, 1>>),
    SPPow |-> Libcall(90, <<0, 1, 0, 2>>), SPSqrt |-> Libcall(96, <<0, 0, 1>>),
    SPTieee |-> Libcall(102, <<0, 0, 1>>), SPFieee |-> Libcall(108, <<0, 0, 1>>),
    SPAsin |-> Libcall(114, <<0, 0, 1>>), SPAcos |-> Libcall(120, <<0, 0, 1>>),
    SPLog10 |-> Libcall(126, <<0, 0, 1>>) ]

misc_pragmas ==
  [ AllocMiscResource |-> Libcall(6, <<9, 0, 0, 2>>),
    FreeMiscResource |-> Libcall(12, <<0, 0, 1>>) ]

nonvolatile_pragmas ==
  [ GetCopyNV |-> Libcall(30, <<1, 9, 8, 0, 3>>), FreeNVData |-> Libcall(36, <<8, 0, 1>>),
    StoreNV |-> Libcall(42, <<1, 0, 10, 9, 8, 0, 5>>),
    DeleteNV |-> Libcall(48, <<1, 9, 8, 0, 3>>), GetNVInfo |-> Libcall(54, <<1, 0, 1>>),
    GetNVList |-> Libcall(60, <<1, 8, 0, 2>>),
    SetNVProtection |-> Libcall(66, <<1, 2, 9, 8, 0, 4>>) ]

palette_pragmas ==
  [ PALETTE_GetClass |-> Libcall(30, <<0, 0>>) ]

penmap_pragmas ==
  [ PENMAP_GetClass |-> Libcall(30, <<0, 0>>) ]

popcycle_pragmas ==
  [ POPCYCLE_GetClass |-> Libcall(30, <<0, 0>>), AllocPopCycleNodeA |-> Libcall(36, <<8, 0, 1>>),
    AllocPopCycleNode |-> Tagcall(36, <<8, 0, 1>>), FreePopCycleNode |-> Libcall(42, <<8, 0, 1>>),
    SetPopCycleNodeAttrsA |-> Libcall(48, <<9, 8, 0, 2>>),
    SetPopCycleNodeAttrs |-> Tagcall(48, <<9, 8, 0, 2>>),
    GetPopCycleNodeAttrsA |-> Libcall(54, <<9, 8, 0, 2>>),
    GetPopCycleNodeAttrs |-> Tagcall(54, <<9, 8, 0, 2>>) ]

potgo_pragmas ==
  [ AllocPotBits |-> Libcall(6, <<0, 0, 1>>), FreePotBits |-> Libcall(12, <<0, 0, 1>>),
    WritePotgo |-> Libcall(18, <<1, 0, 0, 2>>) ]

radiobutton_pragmas ==
  [ RADIOBUTTON_GetClass |-> Libcall(30, <<0, 0>>),
    AllocRadioButtonNodeA |-> Libcall(36, <<8, 0, 0, 2>>),
    AllocRadioButtonNode |-> Tagcall(36, <<8, 0, 0, 2>>),
    FreeRadioButtonNode |-> Libcall(42, <<8, 0, 1>>),
    SetRadioButtonNodeAttrsA |-> Libcall(48, <<9, 8, 0, 2>>),
    SetRadioButtonNodeAttrs |-> Tagcall(48, <<9, 8, 0, 2>>),
    GetRadioButtonNodeAttrsA |-> Libcall(54, <<9, 8, 0, 2>>),
    GetRadioButtonNodeAttrs |-> Tagcall(54, <<9, 8, 0, 2>>) ]

ramdrive_pragmas ==
  [ KillRAD0 |-> Libcall(42, <<0, 0>>), KillRAD |-> Libcall(48, <<0, 0, 1>>) ]

realtime_pragmas ==
  [ LockRealTime |-> Libcall(30, <<0, 0, 1>>), UnlockRealTime |-> Libcall(36, <<8, 0, 1>>),
    CreatePlayerA |-> Libcall(42, <<8, 0, 1>>), CreatePlayer |-> Tagcall(42, <<8, 0, 1>>),
    DeletePlayer |-> Libcall(48, <<8, 0, 1>>), SetPlayerAttrsA |-> Libcall(54, <<9, 8, 0, 2>>),
    SetPlayerAttrs |-> Tagcall(54, <<9, 8, 0, 2>>),
    SetConductorState |-> Libcall(60, <<1, 0, 8, 0, 3>>),
    ExternalSync |-> Libcall(66, <<1, 0, 8, 0, 3>>), NextConductor |-> Libcall(72, <<8, 0, 1>>),
    FindConductor |-> Libcall(78, <<8, 0, 1>>), GetPlayerAttrsA |-> Libcall(84, <<9, 8, 0, 2>>),
    GetPlayerAttrs |-> Tagcall(84, <<9, 8, 0, 2>>) ]

requester_pragmas ==
  [ REQUESTER_GetClass |-> Libcall(30, <<0, 0>>) ]

resource_pragmas ==
  [ RL_OpenResource |-> Libcall(30, <<10, 9, 8, 0, 3>>),
    RL_CloseResource |-> Libcall(36, <<8, 0, 1>>),
    RL_NewObjectA |-> Libcall(42, <<9, 0, 8, 0, 3>>),
    RL_NewObject |-> Tagcall(42, <<9, 0, 8, 0, 3>>),
    RL_DisposeObject |-> Libcall(48, <<9, 8, 0, 2>>),
    RL_NewGroupA |-> Libcall(54, <<9, 0, 8, 0, 3>>),
    RL_NewGroup |-> Tagcall(54, <<9, 0, 8, 0, 3>>),
    RL_DisposeGroup |-> Libcall(60, <<9, 8, 0, 2>>),
    RL_GetObjectArray |-> Libcall(66, <<0, 9, 8, 0, 3>>),
    RL_SetResourceScreen |-> Libcall(72, <<9, 8, 0, 2>>) ]

rexxsyslib_pragmas ==
  [ CreateArgstring |-> Libcall(126, <<0, 8, 0, 2>>),
    DeleteArgstring |-> Libcall(132, <<8, 0, 1>>), LengthArgstring |-> Libcall(138, <<8, 0, 1>>),
    CreateRexxMsg |-> Libcall(144, <<0, 9, 8, 0, 3>>),
    DeleteRexxMsg |-> Libcall(150, <<8, 0, 1>>), ClearRexxMsg |-> Libcall(156, <<0, 8, 0, 2>>),
    FillRexxMsg |-> Libcall(162, <<1, 0, 8, 0, 3>>), IsRexxMsg |-> Libcall(168, <<8, 0, 1>>),
    LockRexxBase |-> Libcall(450, <<0, 0, 1>>), UnlockRexxBase |-> Libcall(456, <<0, 0, 1>>) ]

scroller_pragmas ==
  [ SCROLLER_GetClass |-> Libcall(30, <<0, 0>>) ]

slider_pragmas ==
  [ SLIDER_GetClass |-> Libcall(30, <<0, 0>>) ]

space_pragmas ==
  [ SPACE_GetClass |-> Libcall(30, <<0, 0>>) ]

speedbar_pragmas ==
  [ SPEEDBAR_GetClass |-> Libcall(30, <<0, 0>>),
    AllocSpeedButtonNodeA |-> Libcall(36, <<8, 0, 0, 2>>),
    AllocSpeedButtonNode |-> Tagcall(36, <<8, 0, 0, 2>>),
    FreeSpeedButtonNode |-> Libcall(42, <<8, 0, 1>>),
    SetSpeedButtonNodeAttrsA |-> Libcall(48, <<9, 8, 0, 2>>),
    SetSpeedButtonNodeAttrs |-> Tagcall(48, <<9, 8, 0, 2>>),
    GetSpeedButtonNodeAttrsA |-> Libcall(54, <<9, 8, 0, 2>>),
    GetSpeedButtonNodeAttrs |-> Tagcall(54, <<9, 8, 0, 2>>) ]

string_pragmas ==
  [ STRING_GetClass |-> Libcall(30, <<0, 0>>) ]

texteditor_pragmas ==
  [ TEXTEDITOR_GetClass |-> Libcall(30, <<0, 0>>) ]

timer_pragmas ==
  [ AddTime |-> Libcall(42, <<9, 8, 0, 2>>), SubTime |-> Libcall(48, <<9, 8, 0, 2>>),
    CmpTime |-> Libcall(54, <<9, 8, 0, 2>>), ReadEClock |-> Libcall(60, <<8, 0, 1>>),
    GetSysTime |-> Libcall(66, <<8, 0, 1>>) ]

translator_pragmas ==
  [ Translate |-> Libcall(30, <<1, 9, 0, 8, 0, 4>>) ]

utility_pragmas1 ==
  [ FindTagItem |-> Libcall(30, <<8, 0, 0, 2>>), GetTagData |-> Libcall(36, <<8, 1, 0, 0, 3>>),
    PackBoolTags |-> Libcall(42, <<9, 8, 0, 0, 3>>), NextTagItem |-> Libcall(48, <<8, 0, 1>>),
    FilterTagChanges |-> Libcall(54, <<0, 9, 8, 0, 3>>),
    MapTags |-> Libcall(60, <<0, 9, 8, 0, 3>>), AllocateTagItems |-> Libcall(66, <<0, 0, 1>>),
    CloneTagItems |-> Libcall(72, <<8, 0, 1>>), FreeTagItems |-> Libcall(78, <<8, 0, 1>>),
    RefreshTagItemClones |-> Libcall(84, <<9, 8, 0, 2>>),
    TagInArray |-> Libcall(90, <<8, 0, 0, 2>>), FilterTagItems |-> Libcall(96, <<0, 9, 8, 0, 3>>),
    CallHookPkt |-> Libcall(102, <<9, 10, 8, 0, 3>>), Amiga2Date |-> Libcall(120, <<8, 0, 0, 2>>),
    Date2Amiga |-> Libcall(126, <<8, 0, 1>>), CheckDate |-> Libcall(132, <<8, 0, 1>>),
    SMult32 |-> Libcall(138, <<1, 0, 0, 2>>), UMult32 |-> Libcall(144, <<1, 0, 0, 2>>),
    SDivMod32 |-> Libcall(150, <<1, 0, 0, 2>>), UDivMod32 |-> Libcall(156, <<1, 0, 0, 2>>),
    Stricmp |-> Libcall(162, <<9, 8, 0, 2>>), Strnicmp |-> Libcall(168, <<0, 9, 8, 0, 3>>),
    ToUpper |-> Libcall(174, <<0, 0, 1>>), ToLower |-> Libcall(180, <<0, 0, 1>>),
    ApplyTagChanges |-> Libcall(186, <<9, 8, 0, 2>>), SMult64 |-> Libcall(198, <<1, 0, 0, 2>>),
    UMult64 |-> Libcall(204, <<1, 0, 0, 2>>),
    PackStructureTags |-> Libcall(210, <<10, 9, 8, 0, 3>>),
    UnpackStructureTags |-> Libcall(216, <<10, 9, 8, 0, 3>>),
    AddNamedObject |-> Libcall(222, <<9, 8, 0, 2>>),
    AllocNamedObjectA |-> Libcall(228, <<9, 8, 0, 2>>),
    AllocNamedObject |-> Tagcall(228, <<9, 8, 0, 2>>),
    AttemptRemNamedObject |-> Libcall(234, <<8, 0, 1>>),
    FindNamedObject |-> Libcall(240, <<10, 9, 8, 0, 3>>),
    FreeNamedObject |-> Libcall(246, <<8, 0, 1>>), NamedObjectName |-> Libcall(252, <<8, 0, 1>>),
    ReleaseNamedObject |-> Libcall(258, <<8, 0, 1>>),
    RemNamedObject |-> Libcall(264, <<9, 8, 0, 2>>) ]

utility_pragmas2 ==
  [ GetUniqueID |-> Libcall(270, <<0, 0>>) ]

virtual_pragmas ==
  [ VIRTUAL_GetClass |-> Libcall(30, <<0, 0>>),
    RefreshVirtualGadget |-> Libcall(36, <<11, 10, 9, 8, 0, 4>>),
    RethinkVirtualSize |-> Libcall(42, <<0, 11, 10, 9, 8, 0, 5>>) ]

wb_pragmas ==
  [ AddAppWindowA |-> Libcall(48, <<10, 9, 8, 1, 0, 0, 5>>),
    AddAppWindow |-> Tagcall(48, <<10, 9, 8, 1, 0, 0, 5>>),
    RemoveAppWindow |-> Libcall(54, <<8, 0, 1>>),
    AddAppIconA |-> Libcall(60, <<12, 11, 10, 9, 8, 1, 0, 0, 7>>),
    AddAppIcon |-> Tagcall(60, <<12, 11, 10, 9, 8, 1, 0, 0, 7>>),
    RemoveAppIcon |-> Libcall(66, <<8, 0, 1>>),
    AddAppMenuItemA |-> Libcall(72, <<10, 9, 8, 1, 0, 0, 5>>),
    AddAppMenuItem |-> Tagcall(72, <<10, 9, 8, 1, 0, 0, 5>>),
    RemoveAppMenuItem |-> Libcall(78, <<8, 0, 1>>), WBInfo |-> Libcall(90, <<10, 9, 8, 0, 3>>),
    OpenWorkbenchObjectA |-> Libcall(96, <<9, 8, 0, 2>>),
    OpenWorkbenchObject |-> Tagcall(96, <<9, 8, 0, 2>>),
    CloseWorkbenchObjectA |-> Libcall(102, <<9, 8, 0, 2>>),
    CloseWorkbenchObject |-> Tagcall(102, <<9, 8, 0, 2>>),
    WorkbenchControlA |-> Libcall(108, <<9, 8, 0, 2>>),
    WorkbenchControl |-> Tagcall(108, <<9, 8, 0, 2>>),
    AddAppWindowDropZoneA |-> Libcall(114, <<9, 1, 0, 8, 0, 4>>),
    AddAppWindowDropZone |-> Tagcall(114, <<9, 1, 0, 8, 0, 4>>),
    RemoveAppWindowDropZone |-> Libcall(120, <<9, 8, 0, 2>>),
    ChangeWorkbenchSelectionA |-> Libcall(126, <<10, 9, 8, 0, 3>>),
    ChangeWorkbenchSelection |-> Tagcall(126, <<10, 9, 8, 0, 3>>),
    MakeWorkbenchObjectVisibleA |-> Libcall(132, <<9, 8, 0, 2>>),
    MakeWorkbenchObjectVisible |-> Tagcall(132, <<9, 8, 0, 2>>) ]

window_pragmas ==
  [ WINDOW_GetClass |-> Libcall(30, <<0, 0>>) ]

socket_pragmas ==
  [ socket |-> Libcall(30, <<2, 1, 0, 0, 3>>), bind |-> Libcall(36, <<1, 8, 0, 0, 3>>),
    listen |-> Libcall(42, <<1, 0, 0, 2>>), accept |-> Libcall(48, <<9, 8, 0, 0, 3>>),
    connect |-> Libcall(54, <<1, 8, 0, 0, 3>>),
    sendto |-> Libcall(60, <<3, 9, 2, 1, 8, 0, 0, 6>>),
    send |-> Libcall(66, <<2, 1, 8, 0, 0, 4>>),
    recvfrom |-> Libcall(72, <<10, 9, 2, 1, 8, 0, 0, 6>>),
    recv |-> Libcall(78, <<2, 1, 8, 0, 0, 4>>), shutdown |-> Libcall(84, <<1, 0, 0, 2>>),
    setsockopt |-> Libcall(90, <<3, 8, 2, 1, 0, 0, 5>>),
    getsockopt |-> Libcall(96, <<9, 8, 2, 1, 0, 0, 5>>),
    getsockname |-> Libcall(102, <<9, 8, 0, 0, 3>>),
    getpeername |-> Libcall(108, <<9, 8, 0, 0, 3>>),
    IoctlSocket |-> Libcall(114, <<8, 1, 0, 0, 3>>), CloseSocket |-> Libcall(120, <<0, 0, 1>>),
    WaitSelect |-> Libcall(126, <<1, 11, 10, 9, 8, 0, 0, 6>>),
    SetSocketSignals |-> Libcall(132, <<2, 1, 0, 0, 3>>), getdtablesize |-> Libcall(138, <<0>>),
    ObtainSocket |-> Libcall(144, <<3, 2, 1, 0, 0, 4>>),
    ReleaseSocket |-> Libcall(150, <<1, 0, 0, 2>>),
    ReleaseCopyOfSocket |-> Libcall(156, <<1, 0, 0, 2>>), Errno |-> Libcall(162, <<0>>),
    SetErrnoPtr |-> Libcall(168, <<0, 8, 0, 2>>), Inet_NtoA |-> Libcall(174, <<0, 0, 1>>),
    inet_addr |-> Libcall(180, <<8, 0, 1>>), Inet_LnaOf |-> Libcall(186, <<0, 0, 1>>),
    Inet_NetOf |-> Libcall(192, <<0, 0, 1>>), Inet_MakeAddr |-> Libcall(198, <<1, 0, 0, 2>>),
    inet_network |-> Libcall(204, <<8, 0, 1>>), gethostbyname |-> Libcall(210, <<8, 0, 1>>),
    gethostbyaddr |-> Libcall(216, <<1, 0, 8, 0, 3>>), getnetbyname |-> Libcall(222, <<8, 0, 1>>),
    getnetbyaddr |-> Libcall(228, <<1, 0, 0, 2>>), getservbyname |-> Libcall(234, <<9, 8, 0, 2>>),
    getservbyport |-> Libcall(240, <<8, 0, 0, 2>>), getprotobyname |-> Libcall(246, <<8, 0, 1>>),
    getprotobynumber |-> Libcall(252, <<0, 0, 1>>), vsyslog |-> Libcall(258, <<9, 8, 0, 0, 3>>),
    syslog |-> Tagcall(258, <<9, 8, 0, 0, 3>>), Dup2Socket |-> Libcall(264, <<1, 0, 0, 2>>),
    sendmsg |-> Libcall(270, <<1, 8, 0, 0, 3>>), recvmsg |-> Libcall(276, <<1, 8, 0, 0, 3>>),
    gethostname |-> Libcall(282, <<0, 8, 0, 2>>), gethostid |-> Libcall(288, <<0>>),
    SocketBaseTagList |-> Libcall(294, <<8, 0, 1>>), SocketBaseTags |-> Tagcall(294, <<8, 0, 1>>),
    GetSocketEvents |-> Libcall(300, <<8, 0, 1>>), Socket |-> Libcall(30, <<2, 1, 0, 0, 3>>),
    Bind |-> Libcall(36, <<1, 8, 0, 0, 3>>), Listen |-> Libcall(42, <<1, 0, 0, 2>>),
    Accept |-> Libcall(48, <<9, 8, 0, 0, 3>>), Connect |-> Libcall(54, <<1, 8, 0, 0, 3>>),
    SendTo |-> Libcall(60, <<3, 9, 2, 1, 8, 0, 0, 6>>),
    Send |-> Libcall(66, <<2, 1, 8, 0, 0, 4>>),
    RecvFrom |-> Libcall(72, <<10, 9, 2, 1, 8, 0, 0, 6>>),
    Recv |-> Libcall(78, <<2, 1, 8, 0, 0, 4>>), Shutdown |-> Libcall(84, <<1, 0, 0, 2>>),
    SetSockOpt |-> Libcall(90, <<3, 8, 2, 1, 0, 0, 5>>),
    GetSockOpt |-> Libcall(96, <<9, 8, 2, 1, 0, 0, 5>>),
    GetSockName |-> Libcall(102, <<9, 8, 0, 0, 3>>),
    GetPeerName |-> Libcall(108, <<9, 8, 0, 0, 3>>), GetDTableSize |-> Libcall(138, <<0>>),
    Inet_Addr |-> Libcall(180, <<8, 0, 1>>), Inet_Network |-> Libcall(204, <<8, 0, 1>>),
    GetHostByName |-> Libcall(210, <<8, 0, 1>>),
    GetHostByAddr |-> Libcall(216, <<1, 0, 8, 0, 3>>), GetNetByName |-> Libcall(222, <<8, 0, 1>>),
    GetNetByAddr |-> Libcall(228, <<1, 0, 0, 2>>), GetServByName |-> Libcall(234, <<9, 8, 0, 2>>),
    GetServByPort |-> Libcall(240, <<8, 0, 0, 2>>), GetProtoByName |-> Libcall(246, <<8, 0, 1>>),
    GetProtoByNumber |-> Libcall(252, <<0, 0, 1>>), SyslogA |-> Libcall(258, <<9, 8, 0, 0, 3>>),
    Syslog |-> Tagcall(258, <<9, 8, 0, 0, 3>>), SendMsg |-> Libcall(270, <<1, 8, 0, 0, 3>>),
    RecvMsg |-> Libcall(276, <<1, 8, 0, 0, 3>>), GetHostName |-> Libcall(282, <<0, 8, 0, 2>>),
    GetHostId |-> Libcall(288, <<0>>) ]

usergroup_pragmas ==
  [ ug_SetupContextTagList |-> Libcall(30, <<9, 8, 0, 2>>),
    ug_SetupContextTags |-> Tagcall(30, <<9, 8, 0, 2>>), ug_GetErr |-> Libcall(36, <<0, 0>>),
    ug_StrError |-> Libcall(42, <<1, 0, 1>>), getuid |-> Libcall(48, <<0, 0>>),
    geteuid |-> Libcall(54, <<0, 0>>), setreuid |-> Libcall(60, <<1, 0, 0, 2>>),
    setuid |-> Libcall(66, <<0, 0, 1>>), getgid |-> Libcall(72, <<0, 0>>),
    getegid |-> Libcall(78, <<0, 0>>), setregid |-> Libcall(84, <<1, 0, 0, 2>>),
    setgid |-> Libcall(90, <<0, 0, 1>>), getgroups |-> Libcall(96, <<9, 0, 0, 2>>),
    setgroups |-> Libcall(102, <<9, 0, 0, 2>>), initgroups |-> Libcall(108, <<0, 9, 0, 2>>),
    getpwnam |-> Libcall(114, <<9, 0, 1>>), getpwuid |-> Libcall(120, <<0, 0, 1>>),
    setpwent |-> Libcall(126, <<0, 0>>), getpwent |-> Libcall(132, <<0, 0>>),
    endpwent |-> Libcall(138, <<0, 0>>), getgrnam |-> Libcall(144, <<9, 0, 1>>),
    getgrgid |-> Libcall(150, <<0, 0, 1>>), setgrent |-> Libcall(156, <<0, 0>>),
    getgrent |-> Libcall(162, <<0, 0>>), endgrent |-> Libcall(168, <<0, 0>>),
    crypt |-> Libcall(174, <<9, 8, 0, 2>>), ug_GetSalt |-> Libcall(180, <<0, 9, 8, 0, 3>>),
    getpass |-> Libcall(186, <<9, 0, 1>>), umask |-> Libcall(192, <<0, 0, 1>>),
    getumask |-> Libcall(198, <<0, 0>>), setsid |-> Libcall(204, <<0, 0>>),
    getpgrp |-> Libcall(210, <<0, 0>>), getlogin |-> Libcall(216, <<0, 0>>),
    setlogin |-> Libcall(222, <<9, 0, 1>>), setutent |-> Libcall(228, <<0, 0>>),
    getutent |-> Libcall(234, <<0, 0>>), endutent |-> Libcall(240, <<0, 0>>),
    getlastlog |-> Libcall(246, <<0, 0, 1>>), setlastlog |-> Libcall(252, <<9, 8, 0, 0, 3>>),
    getcredentials |-> Libcall(258, <<8, 0, 1>>) ]

\* The bindings of each library; exec.library has two.
Pragmas ==
  [ amigaguide |-> amigaguide_pragmas, aml |-> aml_pragmas1 @@ aml_pragmas2 @@ aml_pragmas3,
    arexx |-> arexx_pragmas, asl |-> asl_pragmas, battclock |-> battclock_pragmas,
    battmem |-> battmem_pragmas, bevel |-> bevel_pragmas, bitmap |-> bitmap_pragmas,
    bullet |-> bullet_pragmas, button |-> button_pragmas, cardres |-> cardres_pragmas,
    checkbox |-> checkbox_pragmas, chooser |-> chooser_pragmas, clicktab |-> clicktab_pragmas,
    colorwheel |-> colorwheel_pragmas, commodities |-> commodities_pragmas,
    console |-> console_pragmas, datatypes |-> datatypes_pragmas,
    datebrowser |-> datebrowser_pragmas, disk |-> disk_pragmas, diskfont |-> diskfont_pragmas,
    dos |-> dos_pragmas1 @@ dos_pragmas2 @@ dos_pragmas3 @@ dos_pragmas4,
    drawlist |-> drawlist_pragmas, exec |-> exec_pragmas1 @@ exec_pragmas2 @@ exec_pragmas3,
    expansion |-> expansion_pragmas, fuelgauge |-> fuelgauge_pragmas,
    gadtools |-> gadtools_pragmas, getfile |-> getfile_pragmas, getfont |-> getfont_pragmas,
    getscreenmode |-> getscreenmode_pragmas, glyph |-> glyph_pragmas,
    graphics |-> graphics_pragmas1 @@ graphics_pragmas2 @@ graphics_pragmas3 @@ graphics_pragmas4,
    icon |-> icon_pragmas, iffparse |-> iffparse_pragmas, input |-> input_pragmas,
    integer |-> integer_pragmas,
    intuition |-> intuition_pragmas1 @@ intuition_pragmas2 @@ intuition_pragmas3,
    keymap |-> keymap_pragmas, label |-> label_pragmas, layers |-> layers_pragmas,
    layout |-> layout_pragmas, listbrowser |-> listbrowser_pragmas, locale |-> locale_pragmas,
    lowlevel |-> lowlevel_pragmas, mathffp |-> mathffp_pragmas,
    mathieeedoubbas |-> mathieeedoubbas_pragmas, mathieeedoubtrans |-> mathieeedoubtrans_pragmas,
    mathieeesingbas |-> mathieeesingbas_pragmas, mathieeesingtrans |-> mathieeesingtrans_pragmas,
    mathtrans |-> mathtrans_pragmas, misc |-> misc_pragmas, nonvolatile |-> nonvolatile_pragmas,
    palette |-> palette_pragmas, penmap |-> penmap_pragmas, popcycle |-> popcycle_pragmas,
    potgo |-> potgo_pragmas, radiobutton |-> radiobutton_pragmas, ramdrive |-> ramdrive_pragmas,
    realtime |-> realtime_pragmas, requester |-> requester_pragmas, resource |-> resource_pragmas,
    rexxsyslib |-> rexxsyslib_pragmas, scroller |-> scroller_pragmas, slider |-> slider_pragmas,
    space |-> space_pragmas, speedbar |-> speedbar_pragmas, string |-> string_pragmas,
    texteditor |-> texteditor_pragmas, timer |-> timer_pragmas, translator |-> translator_pragmas,
    utility |-> utility_pragmas1 @@ utility_pragmas2, virtual |-> virtual_pragmas,
    wb |-> wb_pragmas, window |-> window_pragmas, socket |-> socket_pragmas,
    usergroup |-> usergroup_pragmas ]

SysBasePragmas == [ exec |-> exec_sysbase_pragmas1 @@ exec_sysbase_pragmas2 @@ exec_sysbase_pragmas3 ]

(***************************************************************************)
(* The stubs of include/inline that vbcc expands in place of a call: the vector *)
(* and the argument registers, and for a function of variable arguments the *)
(* register that points at them.                                           *)
(***************************************************************************)

amigaguide_inline ==
  [ LockAmigaGuideBase |-> Fn(36, <<A0>>), UnlockAmigaGuideBase |-> Proc(42, <<D0>>),
    OpenAmigaGuideA |-> Fn(54, <<A0, A1>>), OpenAmigaGuide |-> FnTags(54, <<A0>>, A1),
    OpenAmigaGuideAsyncA |-> Fn(60, <<A0, D0>>), OpenAmigaGuideAsync |-> FnTags(60, <<A0>>, D0),
    CloseAmigaGuide |-> Proc(66, <<A0>>), AmigaGuideSignal |-> Fn(72, <<A0>>),
    GetAmigaGuideMsg |-> Fn(78, <<A0>>), ReplyAmigaGuideMsg |-> Proc(84, <<A0>>),
    SetAmigaGuideContextA |-> Fn(90, <<A0, D0, D1>>),
    SetAmigaGuideContext |-> FnTags(90, <<A0, D0>>, D1),
    SendAmigaGuideContextA |-> Fn(96, <<A0, D0>>),
    SendAmigaGuideContext |-> FnTags(96, <<A0>>, D0),
    SendAmigaGuideCmdA |-> Fn(102, <<A0, D0, D1>>),
    SendAmigaGuideCmd |-> FnTags(102, <<A0, D0>>, D1),
    SetAmigaGuideAttrsA |-> Fn(108, <<A0, A1>>), SetAmigaGuideAttrs |-> FnTags(108, <<A0>>, A1),
    GetAmigaGuideAttr |-> Fn(114, <<D0, A0, A1>>), LoadXRef |-> Fn(126, <<A0, A1>>),
    ExpungeXRef |-> Proc(132, <<>>), AddAmigaGuideHostA |-> Fn(138, <<A0, D0, A1>>),
    AddAmigaGuideHost |-> FnTags(138, <<A0, D0>>, A1),
    RemoveAmigaGuideHostA |-> Fn(144, <<A0, A1>>),
    RemoveAmigaGuideHost |-> FnTags(144, <<A0>>, A1), GetAmigaGuideString |-> Fn(210, <<D0>>) ]

aml_inline1 ==
  [ RexxDispatcher |-> Fn(30, <<A0>>), CreateServerA |-> Fn(36, <<A0>>),
    CreateServer |-> FnTags(36, <<>>, A0), DisposeServer |-> Proc(42, <<A0>>),
    SetServerAttrsA |-> Fn(48, <<A0, A1>>), SetServerAttrs |-> FnTags(48, <<A0>>, A1),
    GetServerAttrsA |-> Fn(54, <<A0, A1>>), GetServerAttrs |-> FnTags(54, <<A0>>, A1),
    GetServerHeaders |-> Fn(60, <<A0, D0>>), GetServerArticles |-> Fn(66, <<A0, A1, A2, D0>>),
    CreateFolderA |-> Fn(72, <<A0, A1>>), CreateFolder |-> FnTags(72, <<A0>>, A1),
    DisposeFolder |-> Fn(78, <<A0>>), OpenFolderA |-> Fn(84, <<A0, A1>>),
    OpenFolder |-> FnTags(84, <<A0>>, A1), SaveFolder |-> Fn(90, <<A0>>),
    RemFolder |-> Fn(96, <<A0>>), SetFolderAttrsA |-> Fn(102, <<A0, A1>>),
    SetFolderAttrs |-> FnTags(102, <<A0>>, A1), GetFolderAttrsA |-> Fn(108, <<A0, A1>>),
    GetFolderAttrs |-> FnTags(108, <<A0>>, A1), AddFolderArticle |-> Fn(114, <<A0, D0, A1>>),
    RemFolderArticle |-> Fn(120, <<A0, A1>>), ReadFolderSpool |-> Fn(126, <<A0, A1, D0>>),
    WriteFolderSpool |-> Fn(132, <<A0, A1, D0>>), ScanFolderIndex |-> Fn(138, <<A0, A1, D0>>),
    ExpungeFolder |-> Fn(144, <<A0, A1, A2>>), CreateFolderIndex |-> Fn(150, <<A0>>),
    SortFolderIndex |-> Fn(156, <<A0, D0>>), CreateArticleA |-> Fn(162, <<A0, A1>>),
    CreateArticle |-> FnTags(162, <<A0>>, A1), DisposeArticle |-> Fn(168, <<A0>>),
    OpenArticle |-> Fn(174, <<A0, A1, D0, D1>>), CopyArticle |-> Fn(180, <<A0, A1>>),
    SetArticleAttrsA |-> Fn(186, <<A0, A1>>), SetArticleAttrs |-> FnTags(186, <<A0>>, A1),
    GetArticleAttrsA |-> Fn(192, <<A0, A1>>), GetArticleAttrs |-> FnTags(192, <<A0>>, A1),
    SendArticle |-> Fn(198, <<A0, A1, A2>>), AddArticlePartA |-> Fn(204, <<A0, A1, A2>>),
    AddArticlePart |-> FnTags(204, <<A0, A1>>, A2), RemArticlePart |-> Proc(210, <<A0, D0>>),
    GetArticlePart |-> Fn(216, <<A0, D0>>) ]

aml_inline2 ==
  [ GetArticlePartAttrsA |-> Fn(222, <<A0, A1>>), GetArticlePartAttrs |-> FnTags(222, <<A0>>, A1),
    SetArticlePartAttrsA |-> Fn(228, <<A0, A1>>), SetArticlePartAttrs |-> FnTags(228, <<A0>>, A1),
    CreateArticlePartA |-> Fn(234, <<A0, A1>>), CreateArticlePart |-> FnTags(234, <<A0>>, A1),
    DisposeArticlePart |-> Proc(240, <<A0>>), GetArticlePartDataA |-> Fn(246, <<A0, A1, A2>>),
    GetArticlePartData |-> FnTags(246, <<A0, A1>>, A2),
    SetArticlePartDataA |-> Fn(252, <<A0, A1>>), SetArticlePartData |-> FnTags(252, <<A0>>, A1),
    CreateAddressEntryA |-> Fn(258, <<A0>>), CreateAddressEntry |-> FnTags(258, <<>>, A0),
    DisposeAddressEntry |-> Fn(264, <<A0>>), OpenAddressEntry |-> Fn(270, <<A0, D0>>),
    SaveAddressEntry |-> Fn(276, <<A0, A1>>), RemAddressEntry |-> Fn(282, <<A0, A1>>),
    GetAddressEntryAttrsA |-> Fn(288, <<A0, A1>>),
    GetAddressEntryAttrs |-> FnTags(288, <<A0>>, A1),
    SetAddressEntryAttrsA |-> Fn(294, <<A0, A1>>),
    SetAddressEntryAttrs |-> FnTags(294, <<A0>>, A1), MatchAddressA |-> Fn(300, <<A0, A1>>),
    MatchAddress |-> FnTags(300, <<A0>>, A1), FindAddressEntryA |-> Fn(306, <<A0, A1>>),
    FindAddressEntry |-> FnTags(306, <<A0>>, A1), HuntAddressEntryA |-> Fn(312, <<A0, A1>>),
    HuntAddressEntry |-> FnTags(312, <<A0>>, A1),
    ScanAddressIndex |-> Fn(318, <<A0, A1, D0, D1>>), AddCustomField |-> Fn(324, <<A0, A1, A2>>),
    RemCustomField |-> Fn(330, <<A0, A1>>), GetCustomFieldData |-> Fn(336, <<A0, A1>>),
    CreateDecoderA |-> Fn(342, <<A0>>), CreateDecoder |-> FnTags(342, <<>>, A0),
    DisposeDecoder |-> Proc(348, <<A0>>), GetDecoderAttrsA |-> Fn(354, <<A0, A1>>),
    GetDecoderAttrs |-> FnTags(354, <<A0>>, A1), SetDecoderAttrsA |-> Fn(360, <<A0, A1>>),
    SetDecoderAttrs |-> FnTags(360, <<A0>>, A1), Decode |-> Fn(366, <<A0, D0>>),
    Encode |-> Fn(372, <<A0, D0>>) ]

arexx_inline ==
  [ AREXX_GetClass |-> Fn(30, <<>>) ]

asl_inline ==
  [ AllocFileRequest |-> Fn(30, <<>>), FreeFileRequest |-> Proc(36, <<A0>>),
    RequestFile |-> Fn(42, <<A0>>), AllocAslRequest |-> Fn(48, <<D0, A0>>),
    AllocAslRequestTags |-> FnTags(48, <<D0>>, A0), FreeAslRequest |-> Proc(54, <<A0>>),
    AslRequest |-> Fn(60, <<A0, A1>>), AslRequestTags |-> FnTags(60, <<A0>>, A1),
    AbortAslRequest |-> Proc(78, <<A0>>), ActivateAslRequest |-> Proc(84, <<A0>>) ]

battclock_inline ==
  [ ResetBattClock |-> Proc(6, <<>>), ReadBattClock |-> Fn(12, <<>>),
    WriteBattClock |-> Proc(18, <<D0>>) ]

battmem_inline ==
  [ ObtainBattSemaphore |-> Proc(6, <<>>), ReleaseBattSemaphore |-> Proc(12, <<>>),
    ReadBattMem |-> Fn(18, <<A0, D0, D1>>), WriteBattMem |-> Fn(24, <<A0, D0, D1>>) ]

bevel_inline ==
  [ BEVEL_GetClass |-> Fn(30, <<>>) ]

bitmap_inline ==
  [ BITMAP_GetClass |-> Fn(30, <<>>) ]

bullet_inline ==
  [ OpenEngine |-> Fn(30, <<>>), CloseEngine |-> Proc(36, <<A0>>),
    SetInfoA |-> Fn(42, <<A0, A1>>), SetInfo |-> FnTags(42, <<A0>>, A1),
    ObtainInfoA |-> Fn(48, <<A0, A1>>), ObtainInfo |-> FnTags(48, <<A0>>, A1),
    ReleaseInfoA |-> Fn(54, <<A0, A1>>), ReleaseInfo |-> FnTags(54, <<A0>>, A1) ]

button_inline ==
  [ BUTTON_GetClass |-> Fn(30, <<>>) ]

cardres_inline ==
  [ OwnCard |-> Fn(6, <<A1>>), ReleaseCard |-> Proc(12, <<A1, D0>>), GetCardMap |-> Fn(18, <<>>),
    BeginCardAccess |-> Fn(24, <<A1>>), EndCardAccess |-> Fn(30, <<A1>>),
    ReadCardStatus |-> Fn(36, <<>>), CardResetRemove |-> Fn(42, <<A1, D0>>),
    CardMiscControl |-> Fn(48, <<A1, D1>>), CardAccessSpeed |-> Fn(54, <<A1, D0>>),
    CardProgramVoltage |-> Fn(60, <<A1, D0>>), CardResetCard |-> Fn(66, <<A1>>),
    CopyTuple |-> Fn(72, <<A1, A0, D1, D0>>), DeviceTuple |-> Fn(78, <<A0, A1>>),
    IfAmigaXIP |-> Fn(84, <<A2>>), CardForceChange |-> Fn(90, <<>>),
    CardChangeCount |-> Fn(96, <<>>), CardInterface |-> Fn(102, <<>>) ]

checkbox_inline ==
  [ CHECKBOX_GetClass |-> Fn(30, <<>>) ]

chooser_inline ==
  [ CHOOSER_GetClass |-> Fn(30, <<>>), AllocChooserNodeA |-> Fn(36, <<A0>>),
    AllocChooserNode |-> FnTags(36, <<>>, A0), FreeChooserNode |-> Proc(42, <<A0>>),
    SetChooserNodeAttrsA |-> Proc(48, <<A0, A1>>),
    SetChooserNodeAttrs |-> ProcTags(48, <<A0>>, A1),
    GetChooserNodeAttrsA |-> Proc(54, <<A0, A1>>),
    GetChooserNodeAttrs |-> ProcTags(54, <<A0>>, A1) ]

clicktab_inline ==
  [ CLICKTAB_GetClass |-> Fn(30, <<>>), AllocClickTabNodeA |-> Fn(36, <<A0>>),
    AllocClickTabNode |-> FnTags(36, <<>>, A0), FreeClickTabNode |-> Proc(42, <<A0>>),
    SetClickTabNodeAttrsA |-> Proc(48, <<A0, A1>>),
    SetClickTabNodeAttrs |-> ProcTags(48, <<A0>>, A1),
    GetClickTabNodeAttrsA |-> Proc(54, <<A0, A1>>),
    GetClickTabNodeAttrs |-> ProcTags(54, <<A0>>, A1) ]

colorwheel_inline ==
  [ ConvertHSBToRGB |-> Proc(30, <<A0, A1>>), ConvertRGBToHSB |-> Proc(36, <<A0, A1>>) ]

commodities_inline ==
  [ CreateCxObj |-> Fn(30, <<D0, A0, A1>>), CxBroker |-> Fn(36, <<A0, D0>>),
    ActivateCxObj |-> Fn(42, <<A0, D0>>), DeleteCxObj |-> Proc(48, <<A0>>),
    DeleteCxObjAll |-> Proc(54, <<A0>>), CxObjType |-> Fn(60, <<A0>>),
    CxObjError |-> Fn(66, <<A0>>), ClearCxObjError |-> Proc(72, <<A0>>),
    SetCxObjPri |-> Fn(78, <<A0, D0>>), AttachCxObj |-> Proc(84, <<A0, A1>>),
    EnqueueCxObj |-> Proc(90, <<A0, A1>>), InsertCxObj |-> Proc(96, <<A0, A1, A2>>),
    RemoveCxObj |-> Proc(102, <<A0>>), SetTranslate |-> Proc(114, <<A0, A1>>),
    SetFilter |-> Proc(120, <<A0, A1>>), SetFilterIX |-> Proc(126, <<A0, A1>>),
    ParseIX |-> Fn(132, <<A0, A1>>), CxMsgType |-> Fn(138, <<A0>>), CxMsgData |-> Fn(144, <<A0>>),
    CxMsgID |-> Fn(150, <<A0>>), DivertCxMsg |-> Proc(156, <<A0, A1, A2>>),
    RouteCxMsg |-> Proc(162, <<A0, A1>>), DisposeCxMsg |-> Proc(168, <<A0>>),
    InvertKeyMap |-> Fn(174, <<D0, A0, A1>>), AddIEvents |-> Proc(180, <<A0>>),
    MatchIX |-> Fn(204, <<A0, A1>>) ]

console_inline ==
  [ CDInputHandler |-> Fn(42, <<A0, A1>>), RawKeyConvert |-> Fn(48, <<A0, A1, D1, A2>>) ]

datatypes_inline ==
  [ ObtainDataTypeA |-> Fn(36, <<D0, A0, A1>>), ObtainDataType |-> FnTags(36, <<D0, A0>>, A1),
    ReleaseDataType |-> Proc(42, <<A0>>), NewDTObjectA |-> Fn(48, <<D0, A0>>),
    NewDTObject |-> FnTags(48, <<D0>>, A0), DisposeDTObject |-> Proc(54, <<A0>>),
    SetDTAttrsA |-> Fn(60, <<A0, A1, A2, A3>>), SetDTAttrs |-> FnTags(60, <<A0, A1, A2>>, A3),
    GetDTAttrsA |-> Fn(66, <<A0, A2>>), GetDTAttrs |-> FnTags(66, <<A0>>, A2),
    AddDTObject |-> Fn(72, <<A0, A1, A2, D0>>), RefreshDTObjectA |-> Proc(78, <<A0, A1, A2, A3>>),
    RefreshDTObject |-> ProcTags(78, <<A0, A1, A2>>, A3), DoAsyncLayout |-> Fn(84, <<A0, A1>>),
    DoDTMethodA |-> Fn(90, <<A0, A1, A2, A3>>), DoDTMethod |-> FnTags(90, <<A0, A1, A2>>, A3),
    RemoveDTObject |-> Fn(96, <<A0, A1>>), GetDTMethods |-> Fn(102, <<A0>>),
    GetDTTriggerMethods |-> Fn(108, <<A0>>), PrintDTObjectA |-> Fn(114, <<A0, A1, A2, A3>>),
    PrintDTObject |-> FnTags(114, <<A0, A1, A2>>, A3), ObtainDTDrawInfoA |-> Fn(120, <<A0, A1>>),
    ObtainDTDrawInfo |-> FnTags(120, <<A0>>, A1),
    DrawDTObjectA |-> Fn(126, <<A0, A1, D0, D1, D2, D3, D4, D5, A2>>),
    DrawDTObject |-> FnTags(126, <<A0, A1, D0, D1, D2, D3, D4, D5>>, A2),
    ReleaseDTDrawInfo |-> Proc(132, <<A0, A1>>), GetDTString |-> Fn(138, <<D0>>) ]

datebrowser_inline ==
  [ DATEBROWSER_GetClass |-> Fn(30, <<>>), JulianWeekDay |-> Fn(36, <<D0, D1, D2>>),
    JulianMonthDays |-> Fn(42, <<D0, D1>>), JulianLeapYear |-> Fn(48, <<D0>>) ]

disk_inline ==
  [ AllocUnit |-> Fn(6, <<D0>>), FreeUnit |-> Proc(12, <<D0>>), GetUnit |-> Fn(18, <<A1>>),
    GiveUnit |-> Proc(24, <<>>), GetUnitID |-> Fn(30, <<D0>>), ReadUnitID |-> Fn(36, <<D0>>) ]

diskfont_inline ==
  [ OpenDiskFont |-> Fn(30, <<A0>>), AvailFonts |-> Fn(36, <<A0, D0, D1>>),
    NewFontContents |-> Fn(42, <<A0, A1>>), DisposeFontContents |-> Proc(48, <<A1>>),
    NewScaledDiskFont |-> Fn(54, <<A0, A1>>), GetDiskFontCtrl |-> Fn(60, <<D0>>),
    SetDiskFontCtrlA |-> Proc(66, <<A0>>), SetDiskFontCtrl |-> ProcTags(66, <<>>, A0) ]

dos_inline1 ==
  [ Open |-> Fn(30, <<D1, D2>>), Close |-> Fn(36, <<D1>>), Read |-> Fn(42, <<D1, D2, D3>>),
    Write |-> Fn(48, <<D1, D2, D3>>), Input |-> Fn(54, <<>>), Output |-> Fn(60, <<>>),
    Seek |-> Fn(66, <<D1, D2, D3>>), DeleteFile |-> Fn(72, <<D1>>), Rename |-> Fn(78, <<D1, D2>>),
    Lock |-> Fn(84, <<D1, D2>>), UnLock |-> Proc(90, <<D1>>), DupLock |-> Fn(96, <<D1>>),
    Examine |-> Fn(102, <<D1, D2>>), ExNext |-> Fn(108, <<D1, D2>>), Info |-> Fn(114, <<D1, D2>>),
    CreateDir |-> Fn(120, <<D1>>), CurrentDir |-> Fn(126, <<D1>>), IoErr |-> Fn(132, <<>>),
    CreateProc |-> Fn(138, <<D1, D2, D3, D4>>), Exit |-> Proc(144, <<D1>>),
    LoadSeg |-> Fn(150, <<D1>>), UnLoadSeg |-> Proc(156, <<D1>>), DeviceProc |-> Fn(174, <<D1>>),
    SetComment |-> Fn(180, <<D1, D2>>), SetProtection |-> Fn(186, <<D1, D2>>),
    DateStamp |-> Fn(192, <<D1>>), Delay |-> Proc(198, <<D1>>),
    WaitForChar |-> Fn(204, <<D1, D2>>), ParentDir |-> Fn(210, <<D1>>),
    IsInteractive |-> Fn(216, <<D1>>), Execute |-> Fn(222, <<D1, D2, D3>>),
    AllocDosObject |-> Fn(228, <<D1, D2>>), AllocDosObjectTags |-> FnTags(228, <<D1>>, D2),
    FreeDosObject |-> Proc(234, <<D1, D2>>), DoPkt |-> Fn(240, <<D1, D2, D3, D4, D5, D6, D7>>),
    DoPkt0 |-> Fn(240, <<D1, D2>>), DoPkt1 |-> Fn(240, <<D1, D2, D3>>),
    DoPkt2 |-> Fn(240, <<D1, D2, D3, D4>>), DoPkt3 |-> Fn(240, <<D1, D2, D3, D4, D5>>),
    DoPkt4 |-> Fn(240, <<D1, D2, D3, D4, D5, D6>>), SendPkt |-> Proc(246, <<D1, D2, D3>>),
    WaitPkt |-> Fn(252, <<>>), ReplyPkt |-> Proc(258, <<D1, D2, D3>>),
    AbortPkt |-> Proc(264, <<D1, D2>>), LockRecord |-> Fn(270, <<D1, D2, D3, D4, D5>>),
    LockRecords |-> Fn(276, <<D1, D2>>), UnLockRecord |-> Fn(282, <<D1, D2, D3>>),
    UnLockRecords |-> Fn(288, <<D1>>), SelectInput |-> Fn(294, <<D1>>) ]

dos_inline2 ==
  [ SelectOutput |-> Fn(300, <<D1>>), FGetC |-> Fn(306, <<D1>>), FPutC |-> Fn(312, <<D1, D2>>),
    UnGetC |-> Fn(318, <<D1, D2>>), FRead |-> Fn(324, <<D1, D2, D3, D4>>),
    FWrite |-> Fn(330, <<D1, D2, D3, D4>>), FGets |-> Fn(336, <<D1, D2, D3>>),
    FPuts |-> Fn(342, <<D1, D2>>), VFWritef |-> Proc(348, <<D1, D2, D3>>),
    FWritef |-> ProcTags(348, <<D1, D2>>, D3), VFPrintf |-> Fn(354, <<D1, D2, D3>>),
    FPrintf |-> FnTags(354, <<D1, D2>>, D3), Flush |-> Fn(360, <<D1>>),
    SetVBuf |-> Fn(366, <<D1, D2, D3, D4>>), DupLockFromFH |-> Fn(372, <<D1>>),
    OpenFromLock |-> Fn(378, <<D1>>), ParentOfFH |-> Fn(384, <<D1>>),
    ExamineFH |-> Fn(390, <<D1, D2>>), SetFileDate |-> Fn(396, <<D1, D2>>),
    NameFromLock |-> Fn(402, <<D1, D2, D3>>), NameFromFH |-> Fn(408, <<D1, D2, D3>>),
    SplitName |-> Fn(414, <<D1, D2, D3, D4, D5>>), SameLock |-> Fn(420, <<D1, D2>>),
    SetMode |-> Fn(426, <<D1, D2>>), ExAll |-> Fn(432, <<D1, D2, D3, D4, D5>>),
    ReadLink |-> Fn(438, <<D1, D2, D3, D4, D5>>), MakeLink |-> Fn(444, <<D1, D2, D3>>),
    ChangeMode |-> Fn(450, <<D1, D2, D3>>), SetFileSize |-> Fn(456, <<D1, D2, D3>>),
    SetIoErr |-> Fn(462, <<D1>>), Fault |-> Fn(468, <<D1, D2, D3, D4>>),
    PrintFault |-> Fn(474, <<D1, D2>>), ErrorReport |-> Fn(480, <<D1, D2, D3, D4>>),
    Cli |-> Fn(492, <<>>), CreateNewProc |-> Fn(498, <<D1>>),
    CreateNewProcTags |-> FnTags(498, <<>>, D1), RunCommand |-> Fn(504, <<D1, D2, D3, D4>>),
    GetConsoleTask |-> Fn(510, <<>>), SetConsoleTask |-> Fn(516, <<D1>>),
    GetFileSysTask |-> Fn(522, <<>>), SetFileSysTask |-> Fn(528, <<D1>>),
    GetArgStr |-> Fn(534, <<>>), SetArgStr |-> Fn(540, <<D1>>), FindCliProc |-> Fn(546, <<D1>>),
    MaxCli |-> Fn(552, <<>>), SetCurrentDirName |-> Fn(558, <<D1>>),
    GetCurrentDirName |-> Fn(564, <<D1, D2>>) ]

dos_inline3 ==
  [ SetProgramName |-> Fn(570, <<D1>>), GetProgramName |-> Fn(576, <<D1, D2>>),
    SetPrompt |-> Fn(582, <<D1>>), GetPrompt |-> Fn(588, <<D1, D2>>),
    SetProgramDir |-> Fn(594, <<D1>>), GetProgramDir |-> Fn(600, <<>>),
    SystemTagList |-> Fn(606, <<D1, D2>>), SystemTags |-> FnTags(606, <<D1>>, D2),
    AssignLock |-> Fn(612, <<D1, D2>>), AssignLate |-> Fn(618, <<D1, D2>>),
    AssignPath |-> Fn(624, <<D1, D2>>), AssignAdd |-> Fn(630, <<D1, D2>>),
    RemAssignList |-> Fn(636, <<D1, D2>>), GetDeviceProc |-> Fn(642, <<D1, D2>>),
    FreeDeviceProc |-> Proc(648, <<D1>>), LockDosList |-> Fn(654, <<D1>>),
    UnLockDosList |-> Proc(660, <<D1>>), AttemptLockDosList |-> Fn(666, <<D1>>),
    RemDosEntry |-> Fn(672, <<D1>>), AddDosEntry |-> Fn(678, <<D1>>),
    FindDosEntry |-> Fn(684, <<D1, D2, D3>>), NextDosEntry |-> Fn(690, <<D1, D2>>),
    MakeDosEntry |-> Fn(696, <<D1, D2>>), FreeDosEntry |-> Proc(702, <<D1>>),
    IsFileSystem |-> Fn(708, <<D1>>), Format |-> Fn(714, <<D1, D2, D3>>),
    Relabel |-> Fn(720, <<D1, D2>>), Inhibit |-> Fn(726, <<D1, D2>>),
    AddBuffers |-> Fn(732, <<D1, D2>>), CompareDates |-> Fn(738, <<D1, D2>>),
    DateToStr |-> Fn(744, <<D1>>), StrToDate |-> Fn(750, <<D1>>),
    InternalLoadSeg |-> Fn(756, <<D0, A0, A1, A2>>), InternalUnLoadSeg |-> Fn(762, <<D1, A1>>),
    NewLoadSeg |-> Fn(768, <<D1, D2>>), NewLoadSegTags |-> FnTags(768, <<D1>>, D2),
    AddSegment |-> Fn(774, <<D1, D2, D3>>), FindSegment |-> Fn(780, <<D1, D2, D3>>),
    RemSegment |-> Fn(786, <<D1>>), CheckSignal |-> Fn(792, <<D1>>),
    ReadArgs |-> Fn(798, <<D1, D2, D3>>), FindArg |-> Fn(804, <<D1, D2>>),
    ReadItem |-> Fn(810, <<D1, D2, D3>>), StrToLong |-> Fn(816, <<D1, D2>>),
    MatchFirst |-> Fn(822, <<D1, D2>>), MatchNext |-> Fn(828, <<D1>>),
    MatchEnd |-> Proc(834, <<D1>>) ]

dos_inline4 ==
  [ ParsePattern |-> Fn(840, <<D1, D2, D3>>), MatchPattern |-> Fn(846, <<D1, D2>>),
    FreeArgs |-> Proc(858, <<D1>>), FilePart |-> Fn(870, <<D1>>), PathPart |-> Fn(876, <<D1>>),
    AddPart |-> Fn(882, <<D1, D2, D3>>), StartNotify |-> Fn(888, <<D1>>),
    EndNotify |-> Proc(894, <<D1>>), SetVar |-> Fn(900, <<D1, D2, D3, D4>>),
    GetVar |-> Fn(906, <<D1, D2, D3, D4>>), DeleteVar |-> Fn(912, <<D1, D2>>),
    FindVar |-> Fn(918, <<D1, D2>>), CliInitNewcli |-> Fn(930, <<A0>>),
    CliInitRun |-> Fn(936, <<A0>>), WriteChars |-> Fn(942, <<D1, D2>>),
    PutStr |-> Fn(948, <<D1>>), VPrintf |-> Fn(954, <<D1, D2>>),
    Printf |-> FnTags(954, <<D1>>, D2), ParsePatternNoCase |-> Fn(966, <<D1, D2, D3>>),
    MatchPatternNoCase |-> Fn(972, <<D1, D2>>), SameDevice |-> Fn(984, <<D1, D2>>),
    ExAllEnd |-> Proc(990, <<D1, D2, D3, D4, D5>>), SetOwner |-> Fn(996, <<D1, D2>>) ]

drawlist_inline ==
  [ DRAWLIST_GetClass |-> Fn(30, <<>>) ]

dtclass_inline ==
  [ ObtainEngine |-> Fn(30, <<>>) ]

exec_inline1 ==
  [ Supervisor |-> Fn(30, <<A5>>), InitCode |-> Proc(72, <<D0, D1>>),
    InitStruct |-> Proc(78, <<A1, A2, D0>>), MakeLibrary |-> Fn(84, <<A0, A1, A2, D0, D1>>),
    MakeFunctions |-> Proc(90, <<A0, A1, A2>>), FindResident |-> Fn(96, <<A1>>),
    InitResident |-> Fn(102, <<A1, D1>>), Alert |-> Proc(108, <<D7>>),
    Debug |-> Proc(114, <<D0>>), Disable |-> Proc(120, <<>>), Enable |-> Proc(126, <<>>),
    Forbid |-> Proc(132, <<>>), Permit |-> Proc(138, <<>>), SetSR |-> Fn(144, <<D0, D1>>),
    SuperState |-> Fn(150, <<>>), UserState |-> Proc(156, <<D0>>),
    SetIntVector |-> Fn(162, <<D0, A1>>), AddIntServer |-> Proc(168, <<D0, A1>>),
    RemIntServer |-> Proc(174, <<D0, A1>>), Cause |-> Proc(180, <<A1>>),
    Allocate |-> Fn(186, <<A0, D0>>), Deallocate |-> Proc(192, <<A0, A1, D0>>),
    AllocMem |-> Fn(198, <<D0, D1>>), AllocAbs |-> Fn(204, <<D0, A1>>),
    FreeMem |-> Proc(210, <<A1, D0>>), AvailMem |-> Fn(216, <<D1>>),
    AllocEntry |-> Fn(222, <<A0>>), FreeEntry |-> Proc(228, <<A0>>),
    Insert |-> Proc(234, <<A0, A1, A2>>), AddHead |-> Proc(240, <<A0, A1>>),
    AddTail |-> Proc(246, <<A0, A1>>), Remove |-> Proc(252, <<A1>>), RemHead |-> Fn(258, <<A0>>),
    RemTail |-> Fn(264, <<A0>>), Enqueue |-> Proc(270, <<A0, A1>>),
    FindName |-> Fn(276, <<A0, A1>>), AddTask |-> Fn(282, <<A1, A2, A3>>),
    RemTask |-> Proc(288, <<A1>>), FindTask |-> Fn(294, <<A1>>),
    SetTaskPri |-> Fn(300, <<A1, D0>>), SetSignal |-> Fn(306, <<D0, D1>>),
    SetExcept |-> Fn(312, <<D0, D1>>), Wait |-> Fn(318, <<D0>>), Signal |-> Proc(324, <<A1, D0>>),
    AllocSignal |-> Fn(330, <<D0>>), FreeSignal |-> Proc(336, <<D0>>),
    AllocTrap |-> Fn(342, <<D0>>), FreeTrap |-> Proc(348, <<D0>>), AddPort |-> Proc(354, <<A1>>),
    RemPort |-> Proc(360, <<A1>>) ]

exec_inline2 ==
  [ PutMsg |-> Proc(366, <<A0, A1>>), GetMsg |-> Fn(372, <<A0>>), ReplyMsg |-> Proc(378, <<A1>>),
    WaitPort |-> Fn(384, <<A0>>), FindPort |-> Fn(390, <<A1>>), AddLibrary |-> Proc(396, <<A1>>),
    RemLibrary |-> Proc(402, <<A1>>), OldOpenLibrary |-> Fn(408, <<A1>>),
    CloseLibrary |-> Proc(414, <<A1>>), SetFunction |-> Fn(420, <<A1, A0, D0>>),
    SumLibrary |-> Proc(426, <<A1>>), AddDevice |-> Proc(432, <<A1>>),
    RemDevice |-> Proc(438, <<A1>>), OpenDevice |-> Fn(444, <<A0, D0, A1, D1>>),
    CloseDevice |-> Proc(450, <<A1>>), DoIO |-> Fn(456, <<A1>>), SendIO |-> Proc(462, <<A1>>),
    CheckIO |-> Fn(468, <<A1>>), WaitIO |-> Fn(474, <<A1>>), AbortIO |-> Proc(480, <<A1>>),
    AddResource |-> Proc(486, <<A1>>), RemResource |-> Proc(492, <<A1>>),
    OpenResource |-> Fn(498, <<A1>>), RawDoFmt |-> Fn(522, <<A0, A1, A2, A3>>),
    GetCC |-> Fn(528, <<>>), TypeOfMem |-> Fn(534, <<A1>>), Procure |-> Fn(540, <<A0, A1>>),
    Vacate |-> Proc(546, <<A0, A1>>), OpenLibrary |-> Fn(552, <<A1, D0>>),
    InitSemaphore |-> Proc(558, <<A0>>), ObtainSemaphore |-> Proc(564, <<A0>>),
    ReleaseSemaphore |-> Proc(570, <<A0>>), AttemptSemaphore |-> Fn(576, <<A0>>),
    ObtainSemaphoreList |-> Proc(582, <<A0>>), ReleaseSemaphoreList |-> Proc(588, <<A0>>),
    FindSemaphore |-> Fn(594, <<A1>>), AddSemaphore |-> Proc(600, <<A1>>),
    RemSemaphore |-> Proc(606, <<A1>>), SumKickData |-> Fn(612, <<>>),
    AddMemList |-> Proc(618, <<D0, D1, D2, A0, A1>>), CopyMem |-> Proc(624, <<A0, A1, D0>>),
    CopyMemQuick |-> Proc(630, <<A0, A1, D0>>), CacheClearU |-> Proc(636, <<>>),
    CacheClearE |-> Proc(642, <<A0, D0, D1>>), CacheControl |-> Fn(648, <<D0, D1>>),
    CreateIORequest |-> Fn(654, <<A0, D0>>), DeleteIORequest |-> Proc(660, <<A0>>),
    CreateMsgPort |-> Fn(666, <<>>), DeleteMsgPort |-> Proc(672, <<A0>>),
    ObtainSemaphoreShared |-> Proc(678, <<A0>>) ]

exec_inline3 ==
  [ AllocVec |-> Fn(684, <<D0, D1>>), FreeVec |-> Proc(690, <<A1>>),
    CreatePool |-> Fn(696, <<D0, D1, D2>>), DeletePool |-> Proc(702, <<A0>>),
    AllocPooled |-> Fn(708, <<A0, D0>>), FreePooled |-> Proc(714, <<A0, A1, D0>>),
    AttemptSemaphoreShared |-> Fn(720, <<A0>>), ColdReboot |-> Proc(726, <<>>),
    StackSwap |-> Proc(732, <<A0>>), CachePreDMA |-> Fn(762, <<A0, A1, D0>>),
    CachePostDMA |-> Proc(768, <<A0, A1, D0>>), AddMemHandler |-> Proc(774, <<A1>>),
    RemMemHandler |-> Proc(780, <<A1>>), ObtainQuickVector |-> Fn(786, <<A0>>),
    NewMinList |-> Proc(828, <<A0>>), AVL_AddNode |-> Fn(852, <<A0, A1, A2>>),
    AVL_RemNodeByAddress |-> Fn(858, <<A0, A1>>), AVL_RemNodeByKey |-> Fn(864, <<A0, A1, A2>>),
    AVL_FindNode |-> Fn(870, <<A0, A1, A2>>), AVL_FindPrevNodeByAddress |-> Fn(876, <<A0>>),
    AVL_FindPrevNodeByKey |-> Fn(882, <<A0, A1, A2>>),
    AVL_FindNextNodeByAddress |-> Fn(888, <<A0>>),
    AVL_FindNextNodeByKey |-> Fn(894, <<A0, A1, A2>>), AVL_FindFirstNode |-> Fn(900, <<A0>>),
    AVL_FindLastNode |-> Fn(906, <<A0>>) ]

expansion_inline ==
  [ AddConfigDev |-> Proc(30, <<A0>>), AddBootNode |-> Fn(36, <<D0, D1, A0, A1>>),
    AllocBoardMem |-> Proc(42, <<D0>>), AllocConfigDev |-> Fn(48, <<>>),
    AllocExpansionMem |-> Fn(54, <<D0, D1>>), ConfigBoard |-> Proc(60, <<A0, A1>>),
    ConfigChain |-> Proc(66, <<A0>>), FindConfigDev |-> Fn(72, <<A0, D0, D1>>),
    FreeBoardMem |-> Proc(78, <<D0, D1>>), FreeConfigDev |-> Proc(84, <<A0>>),
    FreeExpansionMem |-> Proc(90, <<D0, D1>>), ReadExpansionByte |-> Fn(96, <<A0, D0>>),
    ReadExpansionRom |-> Proc(102, <<A0, A1>>), RemConfigDev |-> Proc(108, <<A0>>),
    WriteExpansionByte |-> Proc(114, <<A0, D0, D1>>), ObtainConfigBinding |-> Proc(120, <<>>),
    ReleaseConfigBinding |-> Proc(126, <<>>), SetCurrentBinding |-> Proc(132, <<A0, D0>>),
    GetCurrentBinding |-> Fn(138, <<A0, D0>>), MakeDosNode |-> Fn(144, <<A0>>),
    AddDosNode |-> Fn(150, <<D0, D1, A0>>) ]

fuelgauge_inline ==
  [ FUELGAUGE_GetClass |-> Fn(30, <<>>) ]

gadtools_inline ==
  [ CreateGadgetA |-> Fn(30, <<D0, A0, A1, A2>>), CreateGadget |-> FnTags(30, <<D0, A0, A1>>, A2),
    FreeGadgets |-> Proc(36, <<A0>>), GT_SetGadgetAttrsA |-> Proc(42, <<A0, A1, A2, A3>>),
    GT_SetGadgetAttrs |-> ProcTags(42, <<A0, A1, A2>>, A3), CreateMenusA |-> Fn(48, <<A0, A1>>),
    CreateMenus |-> FnTags(48, <<A0>>, A1), FreeMenus |-> Proc(54, <<A0>>),
    LayoutMenuItemsA |-> Fn(60, <<A0, A1, A2>>), LayoutMenuItems |-> FnTags(60, <<A0, A1>>, A2),
    LayoutMenusA |-> Fn(66, <<A0, A1, A2>>), LayoutMenus |-> FnTags(66, <<A0, A1>>, A2),
    GT_GetIMsg |-> Fn(72, <<A0>>), GT_ReplyIMsg |-> Proc(78, <<A1>>),
    GT_RefreshWindow |-> Proc(84, <<A0, A1>>), GT_BeginRefresh |-> Proc(90, <<A0>>),
    GT_EndRefresh |-> Proc(96, <<A0, D0>>), GT_FilterIMsg |-> Fn(102, <<A1>>),
    GT_PostFilterIMsg |-> Fn(108, <<A1>>), CreateContext |-> Fn(114, <<A0>>),
    DrawBevelBoxA |-> Proc(120, <<A0, D0, D1, D2, D3, A1>>),
    DrawBevelBox |-> ProcTags(120, <<A0, D0, D1, D2, D3>>, A1),
    GetVisualInfoA |-> Fn(126, <<A0, A1>>), GetVisualInfo |-> FnTags(126, <<A0>>, A1),
    FreeVisualInfo |-> Proc(132, <<A0>>), GT_GetGadgetAttrsA |-> Fn(174, <<A0, A1, A2, A3>>),
    GT_GetGadgetAttrs |-> FnTags(174, <<A0, A1, A2>>, A3) ]

getfile_inline ==
  [ GETFILE_GetClass |-> Fn(30, <<>>) ]

getfont_inline ==
  [ GETFONT_GetClass |-> Fn(30, <<>>) ]

getscreenmode_inline ==
  [ GETSCREENMODE_GetClass |-> Fn(30, <<>>) ]

glyph_inline ==
  [ GLYPH_GetClass |-> Fn(30, <<>>) ]

graphics_inline1 ==
  [ BltBitMap |-> Fn(30, <<A0, D0, D1, A1, D2, D3, D4, D5, D6, D7, A2>>),
    BltTemplate |-> Proc(36, <<A0, D0, D1, A1, D2, D3, D4, D5>>), ClearEOL |-> Proc(42, <<A1>>),
    ClearScreen |-> Proc(48, <<A1>>), TextLength |-> Fn(54, <<A1, A0, D0>>),
    Text |-> Fn(60, <<A1, A0, D0>>), SetFont |-> Fn(66, <<A1, A0>>), OpenFont |-> Fn(72, <<A0>>),
    CloseFont |-> Proc(78, <<A1>>), AskSoftStyle |-> Fn(84, <<A1>>),
    SetSoftStyle |-> Fn(90, <<A1, D0, D1>>), AddBob |-> Proc(96, <<A0, A1>>),
    AddVSprite |-> Proc(102, <<A0, A1>>), DoCollision |-> Proc(108, <<A1>>),
    DrawGList |-> Proc(114, <<A1, A0>>), InitGels |-> Proc(120, <<A0, A1, A2>>),
    InitMasks |-> Proc(126, <<A0>>), RemIBob |-> Proc(132, <<A0, A1, A2>>),
    RemVSprite |-> Proc(138, <<A0>>), SetCollision |-> Proc(144, <<D0, A0, A1>>),
    SortGList |-> Proc(150, <<A1>>), AddAnimOb |-> Proc(156, <<A0, A1, A2>>),
    Animate |-> Proc(162, <<A0, A1>>), GetGBuffers |-> Fn(168, <<A0, A1, D0>>),
    InitGMasks |-> Proc(174, <<A0>>), DrawEllipse |-> Proc(180, <<A1, D0, D1, D2, D3>>),
    AreaEllipse |-> Fn(186, <<A1, D0, D1, D2, D3>>), LoadRGB4 |-> Proc(192, <<A0, A1, D0>>),
    InitRastPort |-> Proc(198, <<A1>>), InitVPort |-> Proc(204, <<A0>>),
    MrgCop |-> Fn(210, <<A1>>), MakeVPort |-> Fn(216, <<A0, A1>>), LoadView |-> Proc(222, <<A1>>),
    WaitBlit |-> Proc(228, <<>>), SetRast |-> Proc(234, <<A1, D0>>),
    Move |-> Proc(240, <<A1, D0, D1>>), Draw |-> Proc(246, <<A1, D0, D1>>),
    AreaMove |-> Fn(252, <<A1, D0, D1>>), AreaDraw |-> Fn(258, <<A1, D0, D1>>),
    AreaEnd |-> Fn(264, <<A1>>), WaitTOF |-> Proc(270, <<>>), QBlit |-> Proc(276, <<A1>>),
    InitArea |-> Proc(282, <<A0, A1, D0>>), SetRGB4 |-> Proc(288, <<A0, D0, D1, D2, D3>>),
    QBSBlit |-> Proc(294, <<A1>>), BltClear |-> Proc(300, <<A1, D0, D1>>),
    RectFill |-> Proc(306, <<A1, D0, D1, D2, D3>>),
    BltPattern |-> Proc(312, <<A1, A0, D0, D1, D2, D3, D4>>),
    ReadPixel |-> Fn(318, <<A1, D0, D1>>), WritePixel |-> Fn(324, <<A1, D0, D1>>) ]

graphics_inline2 ==
  [ Flood |-> Fn(330, <<A1, D2, D0, D1>>), PolyDraw |-> Proc(336, <<A1, D0, A0>>),
    SetAPen |-> Proc(342, <<A1, D0>>), SetBPen |-> Proc(348, <<A1, D0>>),
    SetDrMd |-> Proc(354, <<A1, D0>>), InitView |-> Proc(360, <<A1>>),
    CBump |-> Proc(366, <<A1>>), CMove |-> Proc(372, <<A1, D0, D1>>),
    CWait |-> Proc(378, <<A1, D0, D1>>), VBeamPos |-> Fn(384, <<>>),
    InitBitMap |-> Proc(390, <<A0, D0, D1, D2>>),
    ScrollRaster |-> Proc(396, <<A1, D0, D1, D2, D3, D4, D5>>), WaitBOVP |-> Proc(402, <<A0>>),
    GetSprite |-> Fn(408, <<A0, D0>>), FreeSprite |-> Proc(414, <<D0>>),
    ChangeSprite |-> Proc(420, <<A0, A1, A2>>), MoveSprite |-> Proc(426, <<A0, A1, D0, D1>>),
    LockLayerRom |-> Proc(432, <<A5>>), UnlockLayerRom |-> Proc(438, <<A5>>),
    SyncSBitMap |-> Proc(444, <<A0>>), CopySBitMap |-> Proc(450, <<A0>>),
    OwnBlitter |-> Proc(456, <<>>), DisownBlitter |-> Proc(462, <<>>),
    InitTmpRas |-> Fn(468, <<A0, A1, D0>>), AskFont |-> Proc(474, <<A1, A0>>),
    AddFont |-> Proc(480, <<A1>>), RemFont |-> Proc(486, <<A1>>),
    AllocRaster |-> Fn(492, <<D0, D1>>), FreeRaster |-> Proc(498, <<A0, D0, D1>>),
    AndRectRegion |-> Proc(504, <<A0, A1>>), OrRectRegion |-> Fn(510, <<A0, A1>>),
    NewRegion |-> Fn(516, <<>>), ClearRectRegion |-> Fn(522, <<A0, A1>>),
    ClearRegion |-> Proc(528, <<A0>>), DisposeRegion |-> Proc(534, <<A0>>),
    FreeVPortCopLists |-> Proc(540, <<A0>>), FreeCopList |-> Proc(546, <<A0>>),
    ClipBlit |-> Proc(552, <<A0, D0, D1, A1, D2, D3, D4, D5, D6>>),
    XorRectRegion |-> Fn(558, <<A0, A1>>), FreeCprList |-> Proc(564, <<A0>>),
    GetColorMap |-> Fn(570, <<D0>>), FreeColorMap |-> Proc(576, <<A0>>),
    GetRGB4 |-> Fn(582, <<A0, D0>>), ScrollVPort |-> Proc(588, <<A0>>),
    UCopperListInit |-> Fn(594, <<A0, D0>>), FreeGBuffers |-> Proc(600, <<A0, A1, D0>>),
    BltBitMapRastPort |-> Proc(606, <<A0, D0, D1, A1, D2, D3, D4, D5, D6>>),
    OrRegionRegion |-> Fn(612, <<A0, A1>>), XorRegionRegion |-> Fn(618, <<A0, A1>>),
    AndRegionRegion |-> Fn(624, <<A0, A1>>) ]

graphics_inline3 ==
  [ SetRGB4CM |-> Proc(630, <<A0, D0, D1, D2, D3>>),
    BltMaskBitMapRastPort |-> Proc(636, <<A0, D0, D1, A1, D2, D3, D4, D5, D6, A2>>),
    AttemptLockLayerRom |-> Fn(654, <<A5>>), GfxNew |-> Fn(660, <<D0>>),
    GfxFree |-> Proc(666, <<A0>>), GfxAssociate |-> Proc(672, <<A0, A1>>),
    BitMapScale |-> Proc(678, <<A0>>), ScalerDiv |-> Fn(684, <<D0, D1, D2>>),
    TextExtent |-> Fn(690, <<A1, A0, D0, A2>>),
    TextFit |-> Fn(696, <<A1, A0, D0, A2, A3, D1, D2, D3>>), GfxLookUp |-> Fn(702, <<A0>>),
    VideoControl |-> Fn(708, <<A0, A1>>), OpenMonitor |-> Fn(714, <<A1, D0>>),
    CloseMonitor |-> Fn(720, <<A0>>), FindDisplayInfo |-> Fn(726, <<D0>>),
    NextDisplayInfo |-> Fn(732, <<D0>>), GetDisplayInfoData |-> Fn(756, <<A0, A1, D0, D1, D2>>),
    FontExtent |-> Proc(762, <<A0, A1>>), ReadPixelLine8 |-> Fn(768, <<A0, D0, D1, D2, A2, A1>>),
    WritePixelLine8 |-> Fn(774, <<A0, D0, D1, D2, A2, A1>>),
    ReadPixelArray8 |-> Fn(780, <<A0, D0, D1, D2, D3, A2, A1>>),
    WritePixelArray8 |-> Fn(786, <<A0, D0, D1, D2, D3, A2, A1>>), GetVPModeID |-> Fn(792, <<A0>>),
    ModeNotAvailable |-> Fn(798, <<D0>>), EraseRect |-> Proc(810, <<A1, D0, D1, D2, D3>>),
    ExtendFont |-> Fn(816, <<A0, A1>>), StripFont |-> Proc(822, <<A0>>),
    CalcIVG |-> Fn(828, <<A0, A1>>), AttachPalExtra |-> Fn(834, <<A0, A1>>),
    ObtainBestPenA |-> Fn(840, <<A0, D1, D2, D3, A1>>),
    ObtainBestPen |-> FnTags(840, <<A0, D1, D2, D3>>, A1),
    SetRGB32 |-> Proc(852, <<A0, D0, D1, D2, D3>>), GetAPen |-> Fn(858, <<A0>>),
    GetBPen |-> Fn(864, <<A0>>), GetDrMd |-> Fn(870, <<A0>>), GetOutlinePen |-> Fn(876, <<A0>>),
    LoadRGB32 |-> Proc(882, <<A0, A1>>), SetChipRev |-> Fn(888, <<D0>>),
    SetABPenDrMd |-> Proc(894, <<A1, D0, D1, D2>>), GetRGB32 |-> Proc(900, <<A0, D0, D1, A1>>),
    AllocBitMap |-> Fn(918, <<D0, D1, D2, D3, A0>>), FreeBitMap |-> Proc(924, <<A0>>),
    GetExtSpriteA |-> Fn(930, <<A2, A1>>), GetExtSprite |-> FnTags(930, <<A2>>, A1),
    CoerceMode |-> Fn(936, <<A0, D0, D1>>), ChangeVPBitMap |-> Proc(942, <<A0, A1, A2>>),
    ReleasePen |-> Proc(948, <<A0, D0>>), ObtainPen |-> Fn(954, <<A0, D0, D1, D2, D3, D4>>),
    GetBitMapAttr |-> Fn(960, <<A0, D1>>) ]

graphics_inline4 ==
  [ AllocDBufInfo |-> Fn(966, <<A0>>), FreeDBufInfo |-> Proc(972, <<A1>>),
    SetOutlinePen |-> Fn(978, <<A0, D0>>), SetWriteMask |-> Fn(984, <<A0, D0>>),
    SetMaxPen |-> Proc(990, <<A0, D0>>), SetRGB32CM |-> Proc(996, <<A0, D0, D1, D2, D3>>),
    ScrollRasterBF |-> Proc(1002, <<A1, D0, D1, D2, D3, D4, D5>>),
    FindColor |-> Fn(1008, <<A3, D1, D2, D3, D4>>), AllocSpriteDataA |-> Fn(1020, <<A2, A1>>),
    AllocSpriteData |-> FnTags(1020, <<A2>>, A1),
    ChangeExtSpriteA |-> Fn(1026, <<A0, A1, A2, A3>>),
    ChangeExtSprite |-> FnTags(1026, <<A0, A1, A2>>, A3), FreeSpriteData |-> Proc(1032, <<A2>>),
    SetRPAttrsA |-> Proc(1038, <<A0, A1>>), SetRPAttrs |-> ProcTags(1038, <<A0>>, A1),
    GetRPAttrsA |-> Proc(1044, <<A0, A1>>), GetRPAttrs |-> ProcTags(1044, <<A0>>, A1),
    BestModeIDA |-> Fn(1050, <<A0>>), BestModeID |-> FnTags(1050, <<>>, A0),
    WriteChunkyPixels |-> Proc(1056, <<A0, D0, D1, D2, D3, A2, D4>>) ]

icon_inline ==
  [ FreeFreeList |-> Proc(54, <<A0>>), AddFreeList |-> Fn(72, <<A0, A1, A2>>),
    GetDiskObject |-> Fn(78, <<A0>>), PutDiskObject |-> Fn(84, <<A0, A1>>),
    FreeDiskObject |-> Proc(90, <<A0>>), FindToolType |-> Fn(96, <<A0, A1>>),
    MatchToolValue |-> Fn(102, <<A0, A1>>), BumpRevision |-> Fn(108, <<A0, A1>>),
    GetDefDiskObject |-> Fn(120, <<D0>>), PutDefDiskObject |-> Fn(126, <<A0>>),
    GetDiskObjectNew |-> Fn(132, <<A0>>), DeleteDiskObject |-> Fn(138, <<A0>>),
    DupDiskObjectA |-> Fn(150, <<A0, A1>>), DupDiskObject |-> FnTags(150, <<A0>>, A1),
    IconControlA |-> Fn(156, <<A0, A1>>), IconControl |-> FnTags(156, <<A0>>, A1),
    DrawIconStateA |-> Proc(162, <<A0, A1, A2, D0, D1, D2, A3>>),
    DrawIconState |-> ProcTags(162, <<A0, A1, A2, D0, D1, D2>>, A3),
    GetIconRectangleA |-> Fn(168, <<A0, A1, A2, A3, A4>>),
    GetIconRectangle |-> FnTags(168, <<A0, A1, A2, A3>>, A4), NewDiskObject |-> Fn(174, <<D0>>),
    GetIconTagList |-> Fn(180, <<A0, A1>>), GetIconTags |-> FnTags(180, <<A0>>, A1),
    PutIconTagList |-> Fn(186, <<A0, A1, A2>>), PutIconTags |-> FnTags(186, <<A0, A1>>, A2),
    LayoutIconA |-> Fn(192, <<A0, A1, A2>>), LayoutIcon |-> FnTags(192, <<A0, A1>>, A2),
    ChangeToSelectedIconColor |-> Proc(198, <<A0>>) ]

iffparse_inline ==
  [ AllocIFF |-> Fn(30, <<>>), OpenIFF |-> Fn(36, <<A0, D0>>), ParseIFF |-> Fn(42, <<A0, D0>>),
    CloseIFF |-> Proc(48, <<A0>>), FreeIFF |-> Proc(54, <<A0>>),
    ReadChunkBytes |-> Fn(60, <<A0, A1, D0>>), WriteChunkBytes |-> Fn(66, <<A0, A1, D0>>),
    ReadChunkRecords |-> Fn(72, <<A0, A1, D0, D1>>),
    WriteChunkRecords |-> Fn(78, <<A0, A1, D0, D1>>), PushChunk |-> Fn(84, <<A0, D0, D1, D2>>),
    PopChunk |-> Fn(90, <<A0>>), EntryHandler |-> Fn(102, <<A0, D0, D1, D2, A1, A2>>),
    ExitHandler |-> Fn(108, <<A0, D0, D1, D2, A1, A2>>), PropChunk |-> Fn(114, <<A0, D0, D1>>),
    PropChunks |-> Fn(120, <<A0, A1, D0>>), StopChunk |-> Fn(126, <<A0, D0, D1>>),
    StopChunks |-> Fn(132, <<A0, A1, D0>>), CollectionChunk |-> Fn(138, <<A0, D0, D1>>),
    CollectionChunks |-> Fn(144, <<A0, A1, D0>>), StopOnExit |-> Fn(150, <<A0, D0, D1>>),
    FindProp |-> Fn(156, <<A0, D0, D1>>), FindCollection |-> Fn(162, <<A0, D0, D1>>),
    FindPropContext |-> Fn(168, <<A0>>), CurrentChunk |-> Fn(174, <<A0>>),
    ParentChunk |-> Fn(180, <<A0>>), AllocLocalItem |-> Fn(186, <<D0, D1, D2, D3>>),
    LocalItemData |-> Fn(192, <<A0>>), SetLocalItemPurge |-> Proc(198, <<A0, A1>>),
    FreeLocalItem |-> Proc(204, <<A0>>), FindLocalItem |-> Fn(210, <<A0, D0, D1, D2>>),
    StoreLocalItem |-> Fn(216, <<A0, A1, D0>>), StoreItemInContext |-> Proc(222, <<A0, A1, A2>>),
    InitIFF |-> Proc(228, <<A0, D0, A1>>), InitIFFasDOS |-> Proc(234, <<A0>>),
    InitIFFasClip |-> Proc(240, <<A0>>), OpenClipboard |-> Fn(246, <<D0>>),
    CloseClipboard |-> Proc(252, <<A0>>), GoodID |-> Fn(258, <<D0>>),
    GoodType |-> Fn(264, <<D0>>), IDtoStr |-> Fn(270, <<D0, A0>>) ]

input_inline ==
  [ PeekQualifier |-> Fn(42, <<>>) ]

integer_inline ==
  [ INTEGER_GetClass |-> Fn(30, <<>>) ]

intuition_inline1 ==
  [ OpenIntuition |-> Proc(30, <<>>), Intuition |-> Proc(36, <<A0>>),
    AddGadget |-> Fn(42, <<A0, A1, D0>>), ClearDMRequest |-> Fn(48, <<A0>>),
    ClearMenuStrip |-> Proc(54, <<A0>>), ClearPointer |-> Proc(60, <<A0>>),
    CloseScreen |-> Fn(66, <<A0>>), CloseWindow |-> Proc(72, <<A0>>),
    CloseWorkBench |-> Fn(78, <<>>), CurrentTime |-> Proc(84, <<A0, A1>>),
    DisplayAlert |-> Fn(90, <<D0, A0, D1>>), DisplayBeep |-> Proc(96, <<A0>>),
    DoubleClick |-> Fn(102, <<D0, D1, D2, D3>>), DrawBorder |-> Proc(108, <<A0, A1, D0, D1>>),
    DrawImage |-> Proc(114, <<A0, A1, D0, D1>>), EndRequest |-> Proc(120, <<A0, A1>>),
    GetDefPrefs |-> Fn(126, <<A0, D0>>), GetPrefs |-> Fn(132, <<A0, D0>>),
    InitRequester |-> Proc(138, <<A0>>), ItemAddress |-> Fn(144, <<A0, D0>>),
    ModifyIDCMP |-> Fn(150, <<A0, D0>>),
    ModifyProp |-> Proc(156, <<A0, A1, A2, D0, D1, D2, D3, D4>>),
    MoveScreen |-> Proc(162, <<A0, D0, D1>>), MoveWindow |-> Proc(168, <<A0, D0, D1>>),
    OffGadget |-> Proc(174, <<A0, A1, A2>>), OffMenu |-> Proc(180, <<A0, D0>>),
    OnGadget |-> Proc(186, <<A0, A1, A2>>), OnMenu |-> Proc(192, <<A0, D0>>),
    OpenScreen |-> Fn(198, <<A0>>), OpenWindow |-> Fn(204, <<A0>>),
    OpenWorkBench |-> Fn(210, <<>>), PrintIText |-> Proc(216, <<A0, A1, D0, D1>>),
    RefreshGadgets |-> Proc(222, <<A0, A1, A2>>), RemoveGadget |-> Fn(228, <<A0, A1>>),
    ReportMouse |-> Proc(234, <<D0, A0>>), Request |-> Fn(240, <<A0, A1>>),
    ScreenToBack |-> Proc(246, <<A0>>), ScreenToFront |-> Proc(252, <<A0>>),
    SetDMRequest |-> Fn(258, <<A0, A1>>), SetMenuStrip |-> Fn(264, <<A0, A1>>),
    SetPointer |-> Proc(270, <<A0, A1, D0, D1, D2, D3>>),
    SetWindowTitles |-> Proc(276, <<A0, A1, A2>>), ShowTitle |-> Proc(282, <<A0, D0>>),
    SizeWindow |-> Proc(288, <<A0, D0, D1>>), ViewAddress |-> Fn(294, <<>>),
    ViewPortAddress |-> Fn(300, <<A0>>), WindowToBack |-> Proc(306, <<A0>>),
    WindowToFront |-> Proc(312, <<A0>>), WindowLimits |-> Fn(318, <<A0, D0, D1, D2, D3>>),
    SetPrefs |-> Fn(324, <<A0, D0, D1>>) ]

intuition_inline2 ==
  [ IntuiTextLength |-> Fn(330, <<A0>>), WBenchToBack |-> Fn(336, <<>>),
    WBenchToFront |-> Fn(342, <<>>), AutoRequest |-> Fn(348, <<A0, A1, A2, A3, D0, D1, D2, D3>>),
    BeginRefresh |-> Proc(354, <<A0>>),
    BuildSysRequest |-> Fn(360, <<A0, A1, A2, A3, D0, D1, D2>>),
    EndRefresh |-> Proc(366, <<A0, D0>>), FreeSysRequest |-> Proc(372, <<A0>>),
    MakeScreen |-> Fn(378, <<A0>>), RemakeDisplay |-> Fn(384, <<>>),
    RethinkDisplay |-> Fn(390, <<>>), AllocRemember |-> Fn(396, <<A0, D0, D1>>),
    FreeRemember |-> Proc(408, <<A0, D0>>), LockIBase |-> Fn(414, <<D0>>),
    UnlockIBase |-> Proc(420, <<A0>>), GetScreenData |-> Fn(426, <<A0, D0, D1, A1>>),
    RefreshGList |-> Proc(432, <<A0, A1, A2, D0>>), AddGList |-> Fn(438, <<A0, A1, D0, D1, A2>>),
    RemoveGList |-> Fn(444, <<A0, A1, D0>>), ActivateWindow |-> Proc(450, <<A0>>),
    RefreshWindowFrame |-> Proc(456, <<A0>>), ActivateGadget |-> Fn(462, <<A0, A1, A2>>),
    NewModifyProp |-> Proc(468, <<A0, A1, A2, D0, D1, D2, D3, D4, D5>>),
    QueryOverscan |-> Fn(474, <<A0, A1, D0>>), MoveWindowInFrontOf |-> Proc(480, <<A0, A1>>),
    ChangeWindowBox |-> Proc(486, <<A0, D0, D1, D2, D3>>), SetEditHook |-> Fn(492, <<A0>>),
    SetMouseQueue |-> Fn(498, <<A0, D0>>), ZipWindow |-> Proc(504, <<A0>>),
    LockPubScreen |-> Fn(510, <<A0>>), UnlockPubScreen |-> Proc(516, <<A0, A1>>),
    LockPubScreenList |-> Fn(522, <<>>), UnlockPubScreenList |-> Proc(528, <<>>),
    NextPubScreen |-> Fn(534, <<A0, A1>>), SetDefaultPubScreen |-> Proc(540, <<A0>>),
    SetPubScreenModes |-> Fn(546, <<D0>>), PubScreenStatus |-> Fn(552, <<A0, D0>>),
    ObtainGIRPort |-> Fn(558, <<A0>>), ReleaseGIRPort |-> Proc(564, <<A0>>),
    GadgetMouse |-> Proc(570, <<A0, A1, A2>>), GetDefaultPubScreen |-> Proc(582, <<A0>>),
    EasyRequestArgs |-> Fn(588, <<A0, A1, A2, A3>>),
    EasyRequest |-> FnTags(588, <<A0, A1, A2>>, A3),
    BuildEasyRequestArgs |-> Fn(594, <<A0, A1, D0, A3>>),
    BuildEasyRequest |-> FnTags(594, <<A0, A1, D0>>, A3),
    SysReqHandler |-> Fn(600, <<A0, A1, D0>>), OpenWindowTagList |-> Fn(606, <<A0, A1>>),
    OpenWindowTags |-> FnTags(606, <<A0>>, A1) ]

intuition_inline3 ==
  [ OpenScreenTagList |-> Fn(612, <<A0, A1>>), OpenScreenTags |-> FnTags(612, <<A0>>, A1),
    DrawImageState |-> Proc(618, <<A0, A1, D0, D1, D2, A2>>),
    PointInImage |-> Fn(624, <<D0, A0>>), EraseImage |-> Proc(630, <<A0, A1, D0, D1>>),
    NewObjectA |-> Fn(636, <<A0, A1, A2>>), DisposeObject |-> Proc(642, <<A0>>),
    SetAttrsA |-> Fn(648, <<A0, A1>>), SetAttrs |-> FnTags(648, <<A0>>, A1),
    GetAttr |-> Fn(654, <<D0, A0, A1>>), SetGadgetAttrsA |-> Fn(660, <<A0, A1, A2, A3>>),
    SetGadgetAttrs |-> FnTags(660, <<A0, A1, A2>>, A3), NextObject |-> Fn(666, <<A0>>),
    MakeClass |-> Fn(678, <<A0, A1, A2, D0, D1>>), AddClass |-> Proc(684, <<A0>>),
    GetScreenDrawInfo |-> Fn(690, <<A0>>), FreeScreenDrawInfo |-> Proc(696, <<A0, A1>>),
    ResetMenuStrip |-> Fn(702, <<A0, A1>>), RemoveClass |-> Proc(708, <<A0>>),
    FreeClass |-> Fn(714, <<A0>>), AllocScreenBuffer |-> Fn(768, <<A0, A1, D0>>),
    FreeScreenBuffer |-> Proc(774, <<A0, A1>>), ChangeScreenBuffer |-> Fn(780, <<A0, A1>>),
    ScreenDepth |-> Proc(786, <<A0, D0, A1>>),
    ScreenPosition |-> Proc(792, <<A0, D0, D1, D2, D3, D4>>),
    ScrollWindowRaster |-> Proc(798, <<A1, D0, D1, D2, D3, D4, D5>>),
    LendMenus |-> Proc(804, <<A0, A1>>), DoGadgetMethodA |-> Fn(810, <<A0, A1, A2, A3>>),
    DoGadgetMethod |-> FnTags(810, <<A0, A1, A2>>, A3),
    SetWindowPointerA |-> Proc(816, <<A0, A1>>), SetWindowPointer |-> ProcTags(816, <<A0>>, A1),
    TimedDisplayAlert |-> Fn(822, <<D0, A0, D1, A1>>), HelpControl |-> Proc(828, <<A0, D0>>) ]

keymap_inline ==
  [ SetKeyMapDefault |-> Proc(30, <<A0>>), AskKeyMapDefault |-> Fn(36, <<>>),
    MapRawKey |-> Fn(42, <<A0, A1, D1, A2>>), MapANSI |-> Fn(48, <<A0, D0, A1, D1, A2>>) ]

label_inline ==
  [ LABEL_GetClass |-> Fn(30, <<>>) ]

layers_inline ==
  [ InitLayers |-> Proc(30, <<A0>>),
    CreateUpfrontLayer |-> Fn(36, <<A0, A1, D0, D1, D2, D3, D4, A2>>),
    CreateBehindLayer |-> Fn(42, <<A0, A1, D0, D1, D2, D3, D4, A2>>),
    UpfrontLayer |-> Fn(48, <<A0, A1>>), BehindLayer |-> Fn(54, <<A0, A1>>),
    MoveLayer |-> Fn(60, <<A0, A1, D0, D1>>), SizeLayer |-> Fn(66, <<A0, A1, D0, D1>>),
    ScrollLayer |-> Proc(72, <<A0, A1, D0, D1>>), BeginUpdate |-> Fn(78, <<A0>>),
    EndUpdate |-> Proc(84, <<A0, D0>>), DeleteLayer |-> Fn(90, <<A0, A1>>),
    LockLayer |-> Proc(96, <<A0, A1>>), UnlockLayer |-> Proc(102, <<A0>>),
    LockLayers |-> Proc(108, <<A0>>), UnlockLayers |-> Proc(114, <<A0>>),
    LockLayerInfo |-> Proc(120, <<A0>>), SwapBitsRastPortClipRect |-> Proc(126, <<A0, A1>>),
    WhichLayer |-> Fn(132, <<A0, D0, D1>>), UnlockLayerInfo |-> Proc(138, <<A0>>),
    NewLayerInfo |-> Fn(144, <<>>), DisposeLayerInfo |-> Proc(150, <<A0>>),
    FattenLayerInfo |-> Fn(156, <<A0>>), ThinLayerInfo |-> Proc(162, <<A0>>),
    MoveLayerInFrontOf |-> Fn(168, <<A0, A1>>), InstallClipRegion |-> Fn(174, <<A0, A1>>),
    MoveSizeLayer |-> Fn(180, <<A0, D0, D1, D2, D3>>),
    CreateUpfrontHookLayer |-> Fn(186, <<A0, A1, D0, D1, D2, D3, D4, A3, A2>>),
    CreateBehindHookLayer |-> Fn(192, <<A0, A1, D0, D1, D2, D3, D4, A3, A2>>),
    InstallLayerHook |-> Fn(198, <<A0, A1>>), InstallLayerInfoHook |-> Fn(204, <<A0, A1>>),
    SortLayerCR |-> Proc(210, <<A0, D0, D1>>), DoHookClipRects |-> Proc(216, <<A0, A1, A2>>) ]

layout_inline ==
  [ LAYOUT_GetClass |-> Fn(30, <<>>), ActivateLayoutGadget |-> Fn(36, <<A0, A1, A2, D0>>),
    FlushLayoutDomainCache |-> Proc(42, <<A0>>), RethinkLayout |-> Fn(48, <<A0, A1, A2, D0>>),
    LayoutLimits |-> Proc(54, <<A0, A1, A2, A3>>), PAGE_GetClass |-> Fn(60, <<>>),
    SetPageGadgetAttrsA |-> Fn(66, <<A0, A1, A2, A3, A4>>),
    SetPageGadgetAttrs |-> FnTags(66, <<A0, A1, A2, A3>>, A4),
    RefreshPageGadget |-> Proc(72, <<A0, A1, A2, A3>>) ]

listbrowser_inline ==
  [ LISTBROWSER_GetClass |-> Fn(30, <<>>), AllocListBrowserNodeA |-> Fn(36, <<D0, A0>>),
    AllocListBrowserNode |-> FnTags(36, <<D0>>, A0), FreeListBrowserNode |-> Proc(42, <<A0>>),
    SetListBrowserNodeAttrsA |-> Proc(48, <<A0, A1>>),
    SetListBrowserNodeAttrs |-> ProcTags(48, <<A0>>, A1),
    GetListBrowserNodeAttrsA |-> Proc(54, <<A0, A1>>),
    GetListBrowserNodeAttrs |-> ProcTags(54, <<A0>>, A1),
    ListBrowserSelectAll |-> Proc(60, <<A0>>),
    ShowListBrowserNodeChildren |-> Proc(66, <<A0, D0>>),
    HideListBrowserNodeChildren |-> Proc(72, <<A0>>),
    ShowAllListBrowserChildren |-> Proc(78, <<A0>>),
    HideAllListBrowserChildren |-> Proc(84, <<A0>>), FreeListBrowserList |-> Proc(90, <<A0>>),
    AllocLBColumnInfoA |-> Fn(96, <<D0, A0>>), AllocLBColumnInfo |-> FnTags(96, <<D0>>, A0),
    SetLBColumnInfoAttrsA |-> Fn(102, <<A1, A0>>),
    SetLBColumnInfoAttrs |-> FnTags(102, <<A1>>, A0),
    GetLBColumnInfoAttrsA |-> Fn(108, <<A1, A0>>),
    GetLBColumnInfoAttrs |-> FnTags(108, <<A1>>, A0), FreeLBColumnInfo |-> Proc(114, <<A0>>),
    ListBrowserClearAll |-> Proc(120, <<A0>>) ]

locale_inline ==
  [ CloseCatalog |-> Proc(36, <<A0>>), CloseLocale |-> Proc(42, <<A0>>),
    ConvToLower |-> Fn(48, <<A0, D0>>), ConvToUpper |-> Fn(54, <<A0, D0>>),
    FormatDate |-> Proc(60, <<A0, A1, A2, A3>>), FormatString |-> Fn(66, <<A0, A1, A2, A3>>),
    GetCatalogStr |-> Fn(72, <<A0, D0, A1>>), GetLocaleStr |-> Fn(78, <<A0, D0>>),
    IsAlNum |-> Fn(84, <<A0, D0>>), IsAlpha |-> Fn(90, <<A0, D0>>),
    IsCntrl |-> Fn(96, <<A0, D0>>), IsDigit |-> Fn(102, <<A0, D0>>),
    IsGraph |-> Fn(108, <<A0, D0>>), IsLower |-> Fn(114, <<A0, D0>>),
    IsPrint |-> Fn(120, <<A0, D0>>), IsPunct |-> Fn(126, <<A0, D0>>),
    IsSpace |-> Fn(132, <<A0, D0>>), IsUpper |-> Fn(138, <<A0, D0>>),
    IsXDigit |-> Fn(144, <<A0, D0>>), OpenCatalogA |-> Fn(150, <<A0, A1, A2>>),
    OpenCatalog |-> FnTags(150, <<A0, A1>>, A2), OpenLocale |-> Fn(156, <<A0>>),
    ParseDate |-> Fn(162, <<A0, A1, A2, A3>>), StrConvert |-> Fn(174, <<A0, A1, A2, D0, D1>>),
    StrnCmp |-> Fn(180, <<A0, A1, A2, D0, D1>>) ]

lowlevel_inline ==
  [ ReadJoyPort |-> Fn(30, <<D0>>), GetLanguageSelection |-> Fn(36, <<>>),
    GetKey |-> Fn(48, <<>>), QueryKeys |-> Proc(54, <<A0, D1>>), AddKBInt |-> Fn(60, <<A0, A1>>),
    RemKBInt |-> Proc(66, <<A1>>), SystemControlA |-> Fn(72, <<A1>>),
    SystemControl |-> FnTags(72, <<>>, A1), AddTimerInt |-> Fn(78, <<A0, A1>>),
    RemTimerInt |-> Proc(84, <<A1>>), StopTimerInt |-> Proc(90, <<A1>>),
    StartTimerInt |-> Proc(96, <<A1, D0, D1>>), ElapsedTime |-> Fn(102, <<A0>>),
    AddVBlankInt |-> Fn(108, <<A0, A1>>), RemVBlankInt |-> Proc(114, <<A1>>),
    SetJoyPortAttrsA |-> Fn(132, <<D0, A1>>), SetJoyPortAttrs |-> FnTags(132, <<D0>>, A1) ]

mathffp_inline ==
  [ SPFix |-> Fn(30, <<D0>>), SPFlt |-> Fn(36, <<D0>>), SPCmp |-> Fn(42, <<D1, D0>>),
    SPTst |-> Fn(48, <<D1>>), SPAbs |-> Fn(54, <<D0>>), SPNeg |-> Fn(60, <<D0>>),
    SPAdd |-> Fn(66, <<D1, D0>>), SPSub |-> Fn(72, <<D1, D0>>), SPMul |-> Fn(78, <<D1, D0>>),
    SPDiv |-> Fn(84, <<D1, D0>>), SPFloor |-> Fn(90, <<D0>>), SPCeil |-> Fn(96, <<D0>>) ]

mathieeedoubbas_inline ==
  [ IEEEDPFix |-> Fn(30, <<D0>>), IEEEDPFlt |-> Fn(36, <<D0>>), IEEEDPCmp |-> Fn(42, <<D0, D2>>),
    IEEEDPTst |-> Fn(48, <<D0>>), IEEEDPAbs |-> Fn(54, <<D0>>), IEEEDPNeg |-> Fn(60, <<D0>>),
    IEEEDPAdd |-> Fn(66, <<D0, D2>>), IEEEDPSub |-> Fn(72, <<D0, D2>>),
    IEEEDPMul |-> Fn(78, <<D0, D2>>), IEEEDPDiv |-> Fn(84, <<D0, D2>>),
    IEEEDPFloor |-> Fn(90, <<D0>>), IEEEDPCeil |-> Fn(96, <<D0>>) ]

mathieeedoubtrans_inline ==
  [ IEEEDPAtan |-> Fn(30, <<D0>>), IEEEDPSin |-> Fn(36, <<D0>>), IEEEDPCos |-> Fn(42, <<D0>>),
    IEEEDPTan |-> Fn(48, <<D0>>), IEEEDPSincos |-> Fn(54, <<A0, D0>>),
    IEEEDPSinh |-> Fn(60, <<D0>>), IEEEDPCosh |-> Fn(66, <<D0>>), IEEEDPTanh |-> Fn(72, <<D0>>),
    IEEEDPExp |-> Fn(78, <<D0>>), IEEEDPLog |-> Fn(84, <<D0>>), IEEEDPPow |-> Fn(90, <<D2, D0>>),
    IEEEDPSqrt |-> Fn(96, <<D0>>), IEEEDPTieee |-> Fn(102, <<D0>>),
    IEEEDPFieee |-> Fn(108, <<D0>>), IEEEDPAsin |-> Fn(114, <<D0>>),
    IEEEDPAcos |-> Fn(120, <<D0>>), IEEEDPLog10 |-> Fn(126, <<D0>>) ]

mathieeesingbas_inline ==
  [ IEEESPFix |-> Fn(30, <<D0>>), IEEESPFlt |-> Fn(36, <<D0>>), IEEESPCmp |-> Fn(42, <<D0, D1>>),
    IEEESPTst |-> Fn(48, <<D0>>), IEEESPAbs |-> Fn(54, <<D0>>), IEEESPNeg |-> Fn(60, <<D0>>),
    IEEESPAdd |-> Fn(66, <<D0, D1>>), IEEESPSub |-> Fn(72, <<D0, D1>>),
    IEEESPMul |-> Fn(78, <<D0, D1>>), IEEESPDiv |-> Fn(84, <<D0, D1>>),
    IEEESPFloor |-> Fn(90, <<D0>>), IEEESPCeil |-> Fn(96, <<D0>>) ]

mathieeesingtrans_inline ==
  [ IEEESPAtan |-> Fn(30, <<D0>>), IEEESPSin |-> Fn(36, <<D0>>), IEEESPCos |-> Fn(42, <<D0>>),
    IEEESPTan |-> Fn(48, <<D0>>), IEEESPSincos |-> Fn(54, <<A0, D0>>),
    IEEESPSinh |-> Fn(60, <<D0>>), IEEESPCosh |-> Fn(66, <<D0>>), IEEESPTanh |-> Fn(72, <<D0>>),
    IEEESPExp |-> Fn(78, <<D0>>), IEEESPLog |-> Fn(84, <<D0>>), IEEESPPow |-> Fn(90, <<D1, D0>>),
    IEEESPSqrt |-> Fn(96, <<D0>>), IEEESPTieee |-> Fn(102, <<D0>>),
    IEEESPFieee |-> Fn(108, <<D0>>), IEEESPAsin |-> Fn(114, <<D0>>),
    IEEESPAcos |-> Fn(120, <<D0>>), IEEESPLog10 |-> Fn(126, <<D0>>) ]

mathtrans_inline ==
  [ SPAtan |-> Fn(30, <<D0>>), SPSin |-> Fn(36, <<D0>>), SPCos |-> Fn(42, <<D0>>),
    SPTan |-> Fn(48, <<D0>>), SPSincos |-> Fn(54, <<D1, D0>>), SPSinh |-> Fn(60, <<D0>>),
    SPCosh |-> Fn(66, <<D0>>), SPTanh |-> Fn(72, <<D0>>), SPExp |-> Fn(78, <<D0>>),
    SPLog |-> Fn(84, <<D0>>), SPPow |-> Fn(90, <<D1, D0>>), SPSqrt |-> Fn(96, <<D0>>),
    SPTieee |-> Fn(102, <<D0>>), SPFieee |-> Fn(108, <<D0>>), SPAsin |-> Fn(114, <<D0>>),
    SPAcos |-> Fn(120, <<D0>>), SPLog10 |-> Fn(126, <<D0>>) ]

misc_inline ==
  [ AllocMiscResource |-> Fn(6, <<D0, A1>>), FreeMiscResource |-> Proc(12, <<D0>>) ]

nonvolatile_inline ==
  [ GetCopyNV |-> Fn(30, <<A0, A1, D1>>), FreeNVData |-> Proc(36, <<A0>>),
    StoreNV |-> Fn(42, <<A0, A1, A2, D0, D1>>), DeleteNV |-> Fn(48, <<A0, A1, D1>>),
    GetNVInfo |-> Fn(54, <<D1>>), GetNVList |-> Fn(60, <<A0, D1>>),
    SetNVProtection |-> Fn(66, <<A0, A1, D2, D1>>) ]

palette_inline ==
  [ PALETTE_GetClass |-> Fn(30, <<>>) ]

penmap_inline ==
  [ PENMAP_GetClass |-> Fn(30, <<>>) ]

popcycle_inline ==
  [ POPCYCLE_GetClass |-> Fn(30, <<>>), AllocPopCycleNodeA |-> Fn(36, <<A0>>),
    AllocPopCycleNode |-> FnTags(36, <<>>, A0), FreePopCycleNode |-> Proc(42, <<A0>>),
    SetPopCycleNodeAttrsA |-> Proc(48, <<A0, A1>>),
    SetPopCycleNodeAttrs |-> ProcTags(48, <<A0>>, A1),
    GetPopCycleNodeAttrsA |-> Proc(54, <<A0, A1>>),
    GetPopCycleNodeAttrs |-> ProcTags(54, <<A0>>, A1) ]

potgo_inline ==
  [ AllocPotBits |-> Fn(6, <<D0>>), FreePotBits |-> Proc(12, <<D0>>),
    WritePotgo |-> Proc(18, <<D0, D1>>) ]

radiobutton_inline ==
  [ RADIOBUTTON_GetClass |-> Fn(30, <<>>), AllocRadioButtonNodeA |-> Fn(36, <<D0, A0>>),
    AllocRadioButtonNode |-> FnTags(36, <<D0>>, A0), FreeRadioButtonNode |-> Proc(42, <<A0>>),
    SetRadioButtonNodeAttrsA |-> Proc(48, <<A0, A1>>),
    SetRadioButtonNodeAttrs |-> ProcTags(48, <<A0>>, A1),
    GetRadioButtonNodeAttrsA |-> Proc(54, <<A0, A1>>),
    GetRadioButtonNodeAttrs |-> ProcTags(54, <<A0>>, A1) ]

ramdrive_inline ==
  [ KillRAD0 |-> Fn(42, <<>>), KillRAD |-> Fn(48, <<D0>>) ]

realtime_inline ==
  [ LockRealTime |-> Fn(30, <<D0>>), UnlockRealTime |-> Proc(36, <<A0>>),
    CreatePlayerA |-> Fn(42, <<A0>>), CreatePlayer |-> FnTags(42, <<>>, A0),
    DeletePlayer |-> Proc(48, <<A0>>), SetPlayerAttrsA |-> Fn(54, <<A0, A1>>),
    SetPlayerAttrs |-> FnTags(54, <<A0>>, A1), SetConductorState |-> Fn(60, <<A0, D0, D1>>),
    ExternalSync |-> Fn(66, <<A0, D0, D1>>), NextConductor |-> Fn(72, <<A0>>),
    FindConductor |-> Fn(78, <<A0>>), GetPlayerAttrsA |-> Fn(84, <<A0, A1>>),
    GetPlayerAttrs |-> FnTags(84, <<A0>>, A1) ]

requester_inline ==
  [ REQUESTER_GetClass |-> Fn(30, <<>>) ]

rexxsyslib_inline ==
  [ CreateArgstring |-> Fn(126, <<A0, D0>>), DeleteArgstring |-> Proc(132, <<A0>>),
    LengthArgstring |-> Fn(138, <<A0>>), CreateRexxMsg |-> Fn(144, <<A0, A1, D0>>),
    DeleteRexxMsg |-> Proc(150, <<A0>>), ClearRexxMsg |-> Proc(156, <<A0, D0>>),
    FillRexxMsg |-> Fn(162, <<A0, D0, D1>>), IsRexxMsg |-> Fn(168, <<A0>>),
    LockRexxBase |-> Proc(450, <<D0>>), UnlockRexxBase |-> Proc(456, <<D0>>) ]

scroller_inline ==
  [ SCROLLER_GetClass |-> Fn(30, <<>>) ]

slider_inline ==
  [ SLIDER_GetClass |-> Fn(30, <<>>) ]

socket_inline ==
  [ socket |-> Fn(30, <<D0, D1, D2>>), bind |-> Fn(36, <<D0, A0, D1>>),
    listen |-> Fn(42, <<D0, D1>>), accept |-> Fn(48, <<D0, A0, A1>>),
    connect |-> Fn(54, <<D0, A0, D1>>), sendto |-> Fn(60, <<D0, A0, D1, D2, A1, D3>>),
    send |-> Fn(66, <<D0, A0, D1, D2>>), recvfrom |-> Fn(72, <<D0, A0, D1, D2, A1, A2>>),
    recv |-> Fn(78, <<D0, A0, D1, D2>>), shutdown |-> Fn(84, <<D0, D1>>),
    setsockopt |-> Fn(90, <<D0, D1, D2, A0, D3>>), getsockopt |-> Fn(96, <<D0, D1, D2, A0, A1>>),
    getsockname |-> Fn(102, <<D0, A0, A1>>), getpeername |-> Fn(108, <<D0, A0, A1>>),
    IoctlSocket |-> Fn(114, <<D0, D1, A0>>), CloseSocket |-> Fn(120, <<D0>>),
    WaitSelect |-> Fn(126, <<D0, A0, A1, A2, A3, D1>>),
    SetSocketSignals |-> Proc(132, <<D0, D1, D2>>), getdtablesize |-> Fn(138, <<>>),
    ObtainSocket |-> Fn(144, <<D0, D1, D2, D3>>), ReleaseSocket |-> Fn(150, <<D0, D1>>),
    ReleaseCopyOfSocket |-> Fn(156, <<D0, D1>>), Errno |-> Fn(162, <<>>),
    SetErrnoPtr |-> Fn(168, <<A0, D0>>), Inet_NtoA |-> Fn(174, <<D0>>),
    inet_addr |-> Fn(180, <<A0>>), Inet_LnaOf |-> Fn(186, <<D0>>), Inet_NetOf |-> Fn(192, <<D0>>),
    Inet_MakeAddr |-> Fn(198, <<D0, D1>>), inet_network |-> Fn(204, <<A0>>),
    gethostbyname |-> Fn(210, <<A0>>), gethostbyaddr |-> Fn(216, <<A0, D0, D1>>),
    getnetbyname |-> Fn(222, <<A0>>), getnetbyaddr |-> Fn(228, <<D0, D1>>),
    getservbyname |-> Fn(234, <<A0, A1>>), getservbyport |-> Fn(240, <<D0, A0>>),
    getprotobyname |-> Fn(246, <<A0>>), getprotobynumber |-> Fn(252, <<D0>>),
    vsyslog |-> Proc(258, <<D0, A0, A1>>), syslog |-> ProcTags(258, <<D0, A0>>, A1),
    Dup2Socket |-> Fn(264, <<D0, D1>>), sendmsg |-> Fn(270, <<D0, A0, D1>>),
    recvmsg |-> Fn(276, <<D0, A0, D1>>), gethostname |-> Fn(282, <<A0, D0>>),
    gethostid |-> Fn(288, <<>>), SocketBaseTagList |-> Fn(294, <<A0>>),
    SocketBaseTags |-> FnTags(294, <<>>, A0), GetSocketEvents |-> Fn(300, <<A0>>) ]

space_inline ==
  [ SPACE_GetClass |-> Fn(30, <<>>) ]

speedbar_inline ==
  [ SPEEDBAR_GetClass |-> Fn(30, <<>>), AllocSpeedButtonNodeA |-> Fn(36, <<D0, A0>>),
    AllocSpeedButtonNode |-> FnTags(36, <<D0>>, A0), FreeSpeedButtonNode |-> Proc(42, <<A0>>),
    SetSpeedButtonNodeAttrsA |-> Proc(48, <<A0, A1>>),
    SetSpeedButtonNodeAttrs |-> ProcTags(48, <<A0>>, A1),
    GetSpeedButtonNodeAttrsA |-> Proc(54, <<A0, A1>>),
    GetSpeedButtonNodeAttrs |-> ProcTags(54, <<A0>>, A1) ]

string_inline ==
  [ STRING_GetClass |-> Fn(30, <<>>) ]

texteditor_inline ==
  [ TEXTEDITOR_GetClass |-> Fn(30, <<>>) ]

timer_inline ==
  [ AddTime |-> Proc(42, <<A0, A1>>), SubTime |-> Proc(48, <<A0, A1>>),
    CmpTime |-> Fn(54, <<A0, A1>>), ReadEClock |-> Fn(60, <<A0>>), GetSysTime |-> Proc(66, <<A0>>) ]

translator_inline ==
  [ Translate |-> Fn(30, <<A0, D0, A1, D1>>) ]

usergroup_inline ==
  [ ug_SetupContextTagList |-> Fn(30, <<A0, A1>>), ug_SetupContextTags |-> FnTags(30, <<A0>>, A1),
    ug_GetErr |-> Fn(36, <<>>), ug_StrError |-> Fn(42, <<D1>>), getuid |-> Fn(48, <<>>),
    geteuid |-> Fn(54, <<>>), setreuid |-> Fn(60, <<D0, D1>>), setuid |-> Fn(66, <<D0>>),
    getgid |-> Fn(72, <<>>), getegid |-> Fn(78, <<>>), setregid |-> Fn(84, <<D0, D1>>),
    setgid |-> Fn(90, <<D0>>), getgroups |-> Fn(96, <<D0, A1>>),
    setgroups |-> Fn(102, <<D0, A1>>), initgroups |-> Fn(108, <<A1, D0>>),
    getpwnam |-> Fn(114, <<A1>>), getpwuid |-> Fn(120, <<D0>>), setpwent |-> Proc(126, <<>>),
    getpwent |-> Fn(132, <<>>), endpwent |-> Proc(138, <<>>), getgrnam |-> Fn(144, <<A1>>),
    getgrgid |-> Fn(150, <<D0>>), setgrent |-> Proc(156, <<>>), getgrent |-> Fn(162, <<>>),
    endgrent |-> Proc(168, <<>>), crypt |-> Fn(174, <<A0, A1>>),
    ug_GetSalt |-> Fn(180, <<A0, A1, D0>>), getpass |-> Fn(186, <<A1>>),
    umask |-> Fn(192, <<D0>>), getumask |-> Fn(198, <<>>), setsid |-> Fn(204, <<>>),
    getpgrp |-> Fn(210, <<>>), getlogin |-> Fn(216, <<>>), setlogin |-> Fn(222, <<A1>>),
    setutent |-> Proc(228, <<>>), getutent |-> Fn(234, <<>>), endutent |-> Proc(240, <<>>),
    getlastlog |-> Fn(246, <<D0>>), setlastlog |-> Fn(252, <<D0, A0, A1>>),
    getcredentials |-> Fn(258, <<A0>>) ]

utility_inline ==
  [ FindTagItem |-> Fn(30, <<D0, A0>>), GetTagData |-> Fn(36, <<D0, D1, A0>>),
    PackBoolTags |-> Fn(42, <<D0, A0, A1>>), NextTagItem |-> Fn(48, <<A0>>),
    FilterTagChanges |-> Proc(54, <<A0, A1, D0>>), MapTags |-> Proc(60, <<A0, A1, D0>>),
    AllocateTagItems |-> Fn(66, <<D0>>), CloneTagItems |-> Fn(72, <<A0>>),
    FreeTagItems |-> Proc(78, <<A0>>), RefreshTagItemClones |-> Proc(84, <<A0, A1>>),
    TagInArray |-> Fn(90, <<D0, A0>>), FilterTagItems |-> Fn(96, <<A0, A1, D0>>),
    CallHookPkt |-> Fn(102, <<A0, A2, A1>>), Amiga2Date |-> Proc(120, <<D0, A0>>),
    Date2Amiga |-> Fn(126, <<A0>>), CheckDate |-> Fn(132, <<A0>>),
    SMult32 |-> Fn(138, <<D0, D1>>), UMult32 |-> Fn(144, <<D0, D1>>),
    SDivMod32 |-> Fn(150, <<D0, D1>>), UDivMod32 |-> Fn(156, <<D0, D1>>),
    Stricmp |-> Fn(162, <<A0, A1>>), Strnicmp |-> Fn(168, <<A0, A1, D0>>),
    ToUpper |-> Fn(174, <<D0>>), ToLower |-> Fn(180, <<D0>>),
    ApplyTagChanges |-> Proc(186, <<A0, A1>>), SMult64 |-> Fn(198, <<D0, D1>>),
    UMult64 |-> Fn(204, <<D0, D1>>), PackStructureTags |-> Fn(210, <<A0, A1, A2>>),
    UnpackStructureTags |-> Fn(216, <<A0, A1, A2>>), AddNamedObject |-> Fn(222, <<A0, A1>>),
    AllocNamedObjectA |-> Fn(228, <<A0, A1>>), AllocNamedObject |-> FnTags(228, <<A0>>, A1),
    AttemptRemNamedObject |-> Fn(234, <<A0>>), FindNamedObject |-> Fn(240, <<A0, A1, A2>>),
    FreeNamedObject |-> Proc(246, <<A0>>), NamedObjectName |-> Fn(252, <<A0>>),
    ReleaseNamedObject |-> Proc(258, <<A0>>), RemNamedObject |-> Proc(264, <<A0, A1>>),
    GetUniqueID |-> Fn(270, <<>>) ]

wb_inline ==
  [ AddAppWindowA |-> Fn(48, <<D0, D1, A0, A1, A2>>),
    AddAppWindow |-> FnTags(48, <<D0, D1, A0, A1>>, A2), RemoveAppWindow |-> Fn(54, <<A0>>),
    AddAppIconA |-> Fn(60, <<D0, D1, A0, A1, A2, A3, A4>>),
    AddAppIcon |-> FnTags(60, <<D0, D1, A0, A1, A2, A3>>, A4), RemoveAppIcon |-> Fn(66, <<A0>>),
    AddAppMenuItemA |-> Fn(72, <<D0, D1, A0, A1, A2>>),
    AddAppMenuItem |-> FnTags(72, <<D0, D1, A0, A1>>, A2), RemoveAppMenuItem |-> Fn(78, <<A0>>),
    WBInfo |-> Proc(90, <<A0, A1, A2>>), OpenWorkbenchObjectA |-> Fn(96, <<A0, A1>>),
    OpenWorkbenchObject |-> FnTags(96, <<A0>>, A1), CloseWorkbenchObjectA |-> Fn(102, <<A0, A1>>),
    CloseWorkbenchObject |-> FnTags(102, <<A0>>, A1), WorkbenchControlA |-> Fn(108, <<A0, A1>>),
    WorkbenchControl |-> FnTags(108, <<A0>>, A1),
    AddAppWindowDropZoneA |-> Fn(114, <<A0, D0, D1, A1>>),
    AddAppWindowDropZone |-> FnTags(114, <<A0, D0, D1>>, A1),
    RemoveAppWindowDropZone |-> Fn(120, <<A0, A1>>),
    ChangeWorkbenchSelectionA |-> Fn(126, <<A0, A1, A2>>),
    ChangeWorkbenchSelection |-> FnTags(126, <<A0, A1>>, A2),
    MakeWorkbenchObjectVisibleA |-> Fn(132, <<A0, A1>>),
    MakeWorkbenchObjectVisible |-> FnTags(132, <<A0>>, A1) ]

window_inline ==
  [ WINDOW_GetClass |-> Fn(30, <<>>) ]

\* The stubs of each library.
Inlines ==
  [ amigaguide |-> amigaguide_inline, aml |-> aml_inline1 @@ aml_inline2, arexx |-> arexx_inline,
    asl |-> asl_inline, battclock |-> battclock_inline, battmem |-> battmem_inline,
    bevel |-> bevel_inline, bitmap |-> bitmap_inline, bullet |-> bullet_inline,
    button |-> button_inline, cardres |-> cardres_inline, checkbox |-> checkbox_inline,
    chooser |-> chooser_inline, clicktab |-> clicktab_inline, colorwheel |-> colorwheel_inline,
    commodities |-> commodities_inline, console |-> console_inline,
    datatypes |-> datatypes_inline, datebrowser |-> datebrowser_inline, disk |-> disk_inline,
    diskfont |-> diskfont_inline,
    dos |-> dos_inline1 @@ dos_inline2 @@ dos_inline3 @@ dos_inline4,
    drawlist |-> drawlist_inline, dtclass |-> dtclass_inline,
    exec |-> exec_inline1 @@ exec_inline2 @@ exec_inline3, expansion |-> expansion_inline,
    fuelgauge |-> fuelgauge_inline, gadtools |-> gadtools_inline, getfile |-> getfile_inline,
    getfont |-> getfont_inline, getscreenmode |-> getscreenmode_inline, glyph |-> glyph_inline,
    graphics |-> graphics_inline1 @@ graphics_inline2 @@ graphics_inline3 @@ graphics_inline4,
    icon |-> icon_inline, iffparse |-> iffparse_inline, input |-> input_inline,
    integer |-> integer_inline,
    intuition |-> intuition_inline1 @@ intuition_inline2 @@ intuition_inline3,
    keymap |-> keymap_inline, label |-> label_inline, layers |-> layers_inline,
    layout |-> layout_inline, listbrowser |-> listbrowser_inline, locale |-> locale_inline,
    lowlevel |-> lowlevel_inline, mathffp |-> mathffp_inline,
    mathieeedoubbas |-> mathieeedoubbas_inline, mathieeedoubtrans |-> mathieeedoubtrans_inline,
    mathieeesingbas |-> mathieeesingbas_inline, mathieeesingtrans |-> mathieeesingtrans_inline,
    mathtrans |-> mathtrans_inline, misc |-> misc_inline, nonvolatile |-> nonvolatile_inline,
    palette |-> palette_inline, penmap |-> penmap_inline, popcycle |-> popcycle_inline,
    potgo |-> potgo_inline, radiobutton |-> radiobutton_inline, ramdrive |-> ramdrive_inline,
    realtime |-> realtime_inline, requester |-> requester_inline,
    rexxsyslib |-> rexxsyslib_inline, scroller |-> scroller_inline, slider |-> slider_inline,
    socket |-> socket_inline, space |-> space_inline, speedbar |-> speedbar_inline,
    string |-> string_inline, texteditor |-> texteditor_inline, timer |-> timer_inline,
    translator |-> translator_inline, usergroup |-> usergroup_inline, utility |-> utility_inline,
    wb |-> wb_inline, window |-> window_inline ]

(***************************************************************************)
(* The inline functions of netinclude/inline: the vector, the registers of the *)
(* arguments in their order, the registers the statement says it changes.  *)
(***************************************************************************)

socket_asm1 ==
  [ CloseSocket |-> AsmFn(120, <<D0>>, {D0, D1, A0, A1}),
    Dup2Socket |-> AsmFn(264, <<D0, D1>>, {D0, D1, A0, A1}),
    Errno |-> AsmFn(162, <<>>, {D0, D1, A0, A1}),
    GetSocketEvents |-> AsmFn(300, <<A0>>, {D0, D1, A0, A1}),
    Inet_LnaOf |-> AsmFn(186, <<D0>>, {D0, D1, A0, A1}),
    Inet_MakeAddr |-> AsmFn(198, <<D0, D1>>, {D0, D1, A0, A1}),
    Inet_NetOf |-> AsmFn(192, <<D0>>, {D0, D1, A0, A1}),
    Inet_NtoA |-> AsmFn(174, <<D0>>, {D0, D1, A0, A1}),
    IoctlSocket |-> AsmFn(114, <<D0, D1, A0>>, {D0, D1, A0, A1}),
    ObtainSocket |-> AsmFn(144, <<D0, D1, D2, D3>>, {D0, D1, A0, A1, D2, D3}),
    ReleaseCopyOfSocket |-> AsmFn(156, <<D0, D1>>, {D0, D1, A0, A1}) ]

socket_asm2 ==
  [ ReleaseSocket |-> AsmFn(150, <<D0, D1>>, {D0, D1, A0, A1}),
    SetErrnoPtr |-> AsmFn(168, <<A0, D0>>, {D0, D1, A0, A1}),
    SetSocketSignals |-> AsmProc(132, <<D0, D1, D2>>, {D0, D1, A0, A1, D2}),
    SocketBaseTagList |-> AsmFn(294, <<A0>>, {D0, D1, A0, A1}),
    WaitSelect |-> AsmFn(126, <<D0, A0, A1, A2, A3, D1>>, {D0, D1, A0, A1, A2, A3}),
    accept |-> AsmFn(48, <<D0, A0, A1>>, {D0, D1, A0, A1}),
    bind |-> AsmFn(36, <<D0, A0, D1>>, {D0, D1, A0, A1}),
    connect |-> AsmFn(54, <<D0, A0, D1>>, {D0, D1, A0, A1}),
    getdtablesize |-> AsmFn(138, <<>>, {D0, D1, A0, A1}),
    gethostbyaddr |-> AsmFn(216, <<A0, D0, D1>>, {D0, D1, A0, A1}) ]

socket_asm3 ==
  [ gethostbyname |-> AsmFn(210, <<A0>>, {D0, D1, A0, A1}),
    gethostid |-> AsmFn(288, <<>>, {D0, D1, A0, A1}),
    gethostname |-> AsmFn(282, <<A0, D0>>, {D0, D1, A0, A1}),
    getnetbyaddr |-> AsmFn(228, <<D0, D1>>, {D0, D1, A0, A1}),
    getnetbyname |-> AsmFn(222, <<A0>>, {D0, D1, A0, A1}),
    getpeername |-> AsmFn(108, <<D0, A0, A1>>, {D0, D1, A0, A1}),
    getprotobyname |-> AsmFn(246, <<A0>>, {D0, D1, A0, A1}),
    getprotobynumber |-> AsmFn(252, <<D0>>, {D0, D1, A0, A1}),
    getservbyname |-> AsmFn(234, <<A0, A1>>, {D0, D1, A0, A1}),
    getservbyport |-> AsmFn(240, <<D0, A0>>, {D0, D1, A0, A1}),
    getsockname |-> AsmFn(102, <<D0, A0, A1>>, {D0, D1, A0, A1}) ]

socket_asm4 ==
  [ getsockopt |-> AsmFn(96, <<D0, D1, D2, A0, A1>>, {D0, D1, A0, A1, D2}),
    inet_addr |-> AsmFn(180, <<A0>>, {D0, D1, A0, A1}),
    inet_network |-> AsmFn(204, <<A0>>, {D0, D1, A0, A1}),
    listen |-> AsmFn(42, <<D0, D1>>, {D0, D1, A0, A1}),
    recv |-> AsmFn(78, <<D0, A0, D1, D2>>, {D0, D1, A0, A1, D2}),
    recvfrom |-> AsmFn(72, <<D0, A0, D1, D2, A1, A2>>, {D0, D1, A0, A1, D2, A2}),
    recvmsg |-> AsmFn(276, <<D0, A0, D1>>, {D0, D1, A0, A1}),
    send |-> AsmFn(66, <<D0, A0, D1, D2>>, {D0, D1, A0, A1, D2}),
    sendmsg |-> AsmFn(270, <<D0, A0, D1>>, {D0, D1, A0, A1}) ]

socket_asm5 ==
  [ sendto |-> AsmFn(60, <<D0, A0, D1, D2, A1, D3>>, {D0, D1, A0, A1, D2, D3}),
    setsockopt |-> AsmFn(90, <<D0, D1, D2, A0, D3>>, {D0, D1, A0, A1, D2, D3}),
    shutdown |-> AsmFn(84, <<D0, D1>>, {D0, D1, A0, A1}),
    socket |-> AsmFn(30, <<D0, D1, D2>>, {D0, D1, A0, A1, D2}),
    vsyslog |-> AsmProc(258, <<D0, A0, A1>>, {D0, D1, A0, A1}) ]

usergroup_asm1 ==
  [ crypt |-> AsmFn(174, <<A0, A1>>, {D0, D1, A0, A1}),
    endgrent |-> AsmProc(168, <<>>, {D0, D1, A0, A1}),
    endpwent |-> AsmProc(138, <<>>, {D0, D1, A0, A1}),
    endutent |-> AsmProc(240, <<>>, {D0, D1, A0, A1}),
    getcredentials |-> AsmFn(258, <<A0>>, {D0, D1, A0, A1}),
    getegid |-> AsmFn(78, <<>>, {D0, D1, A0, A1}), geteuid |-> AsmFn(54, <<>>, {D0, D1, A0, A1}),
    getgid |-> AsmFn(72, <<>>, {D0, D1, A0, A1}), getgrent |-> AsmFn(162, <<>>, {D0, D1, A0, A1}),
    getgrgid |-> AsmFn(150, <<D0>>, {D0, D1, A0, A1}),
    getgrnam |-> AsmFn(144, <<A1>>, {D0, D1, A0, A1}),
    getgroups |-> AsmFn(96, <<D0, A1>>, {D0, D1, A0, A1}) ]

usergroup_asm2 ==
  [ getlastlog |-> AsmFn(246, <<D0>>, {D0, D1, A0, A1}),
    getlogin |-> AsmFn(216, <<>>, {D0, D1, A0, A1}),
    getpass |-> AsmFn(186, <<A1>>, {D0, D1, A0, A1}),
    getpgrp |-> AsmFn(210, <<>>, {D0, D1, A0, A1}),
    getpwent |-> AsmFn(132, <<>>, {D0, D1, A0, A1}),
    getpwnam |-> AsmFn(114, <<A1>>, {D0, D1, A0, A1}),
    getpwuid |-> AsmFn(120, <<D0>>, {D0, D1, A0, A1}),
    getuid |-> AsmFn(48, <<>>, {D0, D1, A0, A1}), getumask |-> AsmFn(198, <<>>, {D0, D1, A0, A1}),
    getutent |-> AsmFn(234, <<>>, {D0, D1, A0, A1}),
    initgroups |-> AsmFn(108, <<A1, D0>>, {D0, D1, A0, A1}) ]

usergroup_asm3 ==
  [ setgid |-> AsmFn(90, <<D0>>, {D0, D1, A0, A1}),
    setgrent |-> AsmProc(156, <<>>, {D0, D1, A0, A1}),
    setgroups |-> AsmFn(102, <<D0, A1>>, {D0, D1, A0, A1}),
    setlastlog |-> AsmFn(252, <<D0, A0, A1>>, {D0, D1, A0, A1}),
    setlogin |-> AsmFn(222, <<A1>>, {D0, D1, A0, A1}),
    setpwent |-> AsmProc(126, <<>>, {D0, D1, A0, A1}),
    setregid |-> AsmFn(84, <<D0, D1>>, {D0, D1, A0, A1}),
    setreuid |-> AsmFn(60, <<D0, D1>>, {D0, D1, A0, A1}),
    setsid |-> AsmFn(204, <<>>, {D0, D1, A0, A1}), setuid |-> AsmFn(66, <<D0>>, {D0, D1, A0, A1}),
    setutent |-> AsmProc(228, <<>>, {D0, D1, A0, A1}),
    ug_GetErr |-> AsmFn(36, <<>>, {D0, D1, A0, A1}) ]

usergroup_asm4 ==
  [ ug_GetSalt |-> AsmFn(180, <<A0, A1, D0>>, {D0, D1, A0, A1}),
    ug_SetupContextTagList |-> AsmFn(30, <<A0, A1>>, {D0, D1, A0, A1}),
    ug_StrError |-> AsmFn(42, <<D1>>, {D0, D1, A0, A1}),
    umask |-> AsmFn(192, <<D0>>, {D0, D1, A0, A1}) ]

\* The statements of each library.
Asms ==
  [ socket |-> socket_asm1 @@ socket_asm2 @@ socket_asm3 @@ socket_asm4 @@ socket_asm5,
    usergroup |-> usergroup_asm1 @@ usergroup_asm2 @@ usergroup_asm3 @@ usergroup_asm4 ]
=============================================================================
