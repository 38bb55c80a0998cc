--------------------------- MODULE PromiseTables ----------------------------
EXTENDS LibBindings, TLC

(***************************************************************************)
(* The function descriptions of ndk/sfd and netinclude/fd: the jump table of *)
(* each library in order, each function with the registers of its arguments. *)
(***************************************************************************)

amigaguide_sfd ==
  << Bias(30), Reserve(1), <<"LockAmigaGuideBase", A0>>, <<"UnlockAmigaGuideBase", D0>>,
     Reserve(1), <<"OpenAmigaGuideA", A0, A1>>, Varargs, <<"OpenAmigaGuide", A0, A1>>,
     <<"OpenAmigaGuideAsyncA", A0, D0>>, Varargs, <<"OpenAmigaGuideAsync", A0, D0>>,
     <<"CloseAmigaGuide", A0>>, <<"AmigaGuideSignal", A0>>, <<"GetAmigaGuideMsg", A0>>,
     <<"ReplyAmigaGuideMsg", A0>>, <<"SetAmigaGuideContextA", A0, D0, D1>>, Varargs,
     <<"SetAmigaGuideContext", A0, D0, D1>>, <<"SendAmigaGuideContextA", A0, D0>>, Varargs,
     <<"SendAmigaGuideContext", A0, D0>>, <<"SendAmigaGuideCmdA", A0, D0, D1>>, Varargs,
     <<"SendAmigaGuideCmd", A0, D0, D1>>, <<"SetAmigaGuideAttrsA", A0, A1>>, Varargs,
     <<"SetAmigaGuideAttrs", A0, A1>>, <<"GetAmigaGuideAttr", D0, A0, A1>>, Reserve(1),
     <<"LoadXRef", A0, A1>>, <<"ExpungeXRef">>, <<"AddAmigaGuideHostA", A0, D0, A1>>, Varargs,
     <<"AddAmigaGuideHost", A0, D0, A1>>, <<"RemoveAmigaGuideHostA", A0, A1>>, Varargs,
     <<"RemoveAmigaGuideHost", A0, A1>>, Reserve(10), <<"GetAmigaGuideString", D0>> >>

aml_sfd ==
  << Bias(30), <<"RexxDispatcher", A0>>, <<"CreateServerA", A0>>, Varargs, <<"CreateServer", A0>>,
     <<"DisposeServer", A0>>, <<"SetServerAttrsA", A0, A1>>, Varargs,
     <<"SetServerAttrs", A0, A1>>, <<"GetServerAttrsA", A0, A1>>, Varargs,
     <<"GetServerAttrs", A0, A1>>, <<"GetServerHeaders", A0, D0>>,
     <<"GetServerArticles", A0, A1, A2, D0>>, <<"CreateFolderA", A0, A1>>, Varargs,
     <<"CreateFolder", A0, A1>>, <<"DisposeFolder", A0>>, <<"OpenFolderA", A0, A1>>, Varargs,
     <<"OpenFolder", A0, A1>>, <<"SaveFolder", A0>>, <<"RemFolder", A0>>,
     <<"SetFolderAttrsA", A0, A1>>, Varargs, <<"SetFolderAttrs", A0, A1>>,
     <<"GetFolderAttrsA", A0, A1>>, Varargs, <<"GetFolderAttrs", A0, A1>>,
     <<"AddFolderArticle", A0, D0, A1>>, <<"RemFolderArticle", A0, A1>>,
     <<"ReadFolderSpool", A0, A1, D0>>, <<"WriteFolderSpool", A0, A1, D0>>,
     <<"ScanFolderIndex", A0, A1, D0>>, <<"ExpungeFolder", A0, A1, A2>>,
     <<"CreateFolderIndex", A0>>, <<"SortFolderIndex", A0, D0>>, <<"CreateArticleA", A0, A1>>,
     Varargs, <<"CreateArticle", A0, A1>>, <<"DisposeArticle", A0>>,
     <<"OpenArticle", A0, A1, D0, D1>>, <<"CopyArticle", A0, A1>>, <<"SetArticleAttrsA", A0, A1>>,
     Varargs, <<"SetArticleAttrs", A0, A1>>, <<"GetArticleAttrsA", A0, A1>>, Varargs,
     <<"GetArticleAttrs", A0, A1>>, <<"SendArticle", A0, A1, A2>>,
     <<"AddArticlePartA", A0, A1, A2>>, Varargs, <<"AddArticlePart", A0, A1, A2>>,
     <<"RemArticlePart", A0, D0>>, <<"GetArticlePart", A0, D0>>,
     <<"GetArticlePartAttrsA", A0, A1>>, Varargs, <<"GetArticlePartAttrs", A0, A1>>,
     <<"SetArticlePartAttrsA", A0, A1>>, Varargs, <<"SetArticlePartAttrs", A0, A1>>,
     <<"CreateArticlePartA", A0, A1>>, Varargs, <<"CreateArticlePart", A0, A1>>,
     <<"DisposeArticlePart", A0>>, <<"GetArticlePartDataA", A0, A1, A2>>, Varargs,
     <<"GetArticlePartData", A0, A1, A2>>, <<"SetArticlePartDataA", A0, A1>>, Varargs,
     <<"SetArticlePartData", A0, A1>>, <<"CreateAddressEntryA", A0>>, Varargs,
     <<"CreateAddressEntry", A0>>, <<"DisposeAddressEntry", A0>>, <<"OpenAddressEntry", A0, D0>>,
     <<"SaveAddressEntry", A0, A1>>, <<"RemAddressEntry", A0, A1>>,
     <<"GetAddressEntryAttrsA", A0, A1>>, Varargs, <<"GetAddressEntryAttrs", A0, A1>>,
     <<"SetAddressEntryAttrsA", A0, A1>>, Varargs, <<"SetAddressEntryAttrs", A0, A1>>,
     <<"MatchAddressA", A0, A1>>, Varargs, <<"MatchAddress", A0, A1>>,
     <<"FindAddressEntryA", A0, A1>>, Varargs, <<"FindAddressEntry", A0, A1>>,
     <<"HuntAddressEntryA", A0, A1>>, Varargs, <<"HuntAddressEntry", A0, A1>>,
     <<"ScanAddressIndex", A0, A1, D0, D1>>, <<"AddCustomField", A0, A1, A2>>,
     <<"RemCustomField", A0, A1>>, <<"GetCustomFieldData", A0, A1>>, <<"CreateDecoderA", A0>>,
     Varargs, <<"CreateDecoder", A0>>, <<"DisposeDecoder", A0>>, <<"GetDecoderAttrsA", A0, A1>>,
     Varargs, <<"GetDecoderAttrs", A0, A1>>, <<"SetDecoderAttrsA", A0, A1>>, Varargs,
     <<"SetDecoderAttrs", A0, A1>>, <<"Decode", A0, D0>>, <<"Encode", A0, D0>> >>

arexx_sfd ==
  << Bias(30), <<"AREXX_GetClass">> >>

asl_sfd ==
  << Bias(30), <<"AllocFileRequest">>, <<"FreeFileRequest", A0>>, <<"RequestFile", A0>>,
     <<"AllocAslRequest", D0, A0>>, Varargs, <<"AllocAslRequestTags", D0, A0>>,
     <<"FreeAslRequest", A0>>, <<"AslRequest", A0, A1>>, Varargs, <<"AslRequestTags", A0, A1>>,
     Reserve(2), <<"AbortAslRequest", A0>>, <<"ActivateAslRequest", A0>> >>

battclock_sfd ==
  << Bias(6), <<"ResetBattClock">>, <<"ReadBattClock">>, <<"WriteBattClock", D0>> >>

battmem_sfd ==
  << Bias(6), <<"ObtainBattSemaphore">>, <<"ReleaseBattSemaphore">>,
     <<"ReadBattMem", A0, D0, D1>>, <<"WriteBattMem", A0, D0, D1>> >>

bevel_sfd ==
  << Bias(30), <<"BEVEL_GetClass">> >>

bitmap_sfd ==
  << Bias(30), <<"BITMAP_GetClass">> >>

bullet_sfd ==
  << Bias(30), <<"OpenEngine">>, <<"CloseEngine", A0>>, <<"SetInfoA", A0, A1>>, Varargs,
     <<"SetInfo", A0, A1>>, <<"ObtainInfoA", A0, A1>>, Varargs, <<"ObtainInfo", A0, A1>>,
     <<"ReleaseInfoA", A0, A1>>, Varargs, <<"ReleaseInfo", A0, A1>> >>

button_sfd ==
  << Bias(30), <<"BUTTON_GetClass">> >>

cardres_sfd ==
  << Bias(6), <<"OwnCard", A1>>, <<"ReleaseCard", A1, D0>>, <<"GetCardMap">>,
     <<"BeginCardAccess", A1>>, <<"EndCardAccess", A1>>, <<"ReadCardStatus">>,
     <<"CardResetRemove", A1, D0>>, <<"CardMiscControl", A1, D1>>, <<"CardAccessSpeed", A1, D0>>,
     <<"CardProgramVoltage", A1, D0>>, <<"CardResetCard", A1>>, <<"CopyTuple", A1, A0, D1, D0>>,
     <<"DeviceTuple", A0, A1>>, <<"IfAmigaXIP", A2>>, <<"CardForceChange">>,
     <<"CardChangeCount">>, <<"CardInterface">> >>

checkbox_sfd ==
  << Bias(30), <<"CHECKBOX_GetClass">> >>

chooser_sfd ==
  << Bias(30), <<"CHOOSER_GetClass">>, <<"AllocChooserNodeA", A0>>, Varargs,
     <<"AllocChooserNode", A0>>, <<"FreeChooserNode", A0>>, <<"SetChooserNodeAttrsA", A0, A1>>,
     Varargs, <<"SetChooserNodeAttrs", A0, A1>>, <<"GetChooserNodeAttrsA", A0, A1>>, Varargs,
     <<"GetChooserNodeAttrs", A0, A1>> >>

clicktab_sfd ==
  << Bias(30), <<"CLICKTAB_GetClass">>, <<"AllocClickTabNodeA", A0>>, Varargs,
     <<"AllocClickTabNode", A0>>, <<"FreeClickTabNode", A0>>, <<"SetClickTabNodeAttrsA", A0, A1>>,
     Varargs, <<"SetClickTabNodeAttrs", A0, A1>>, <<"GetClickTabNodeAttrsA", A0, A1>>, Varargs,
     <<"GetClickTabNodeAttrs", A0, A1>> >>

colorwheel_sfd ==
  << Bias(30), <<"ConvertHSBToRGB", A0, A1>>, <<"ConvertRGBToHSB", A0, A1>> >>

commodities_sfd ==
  << Bias(30), <<"CreateCxObj", D0, A0, A1>>, <<"CxBroker", A0, D0>>, <<"ActivateCxObj", A0, D0>>,
     <<"DeleteCxObj", A0>>, <<"DeleteCxObjAll", A0>>, <<"CxObjType", A0>>, <<"CxObjError", A0>>,
     <<"ClearCxObjError", A0>>, <<"SetCxObjPri", A0, D0>>, <<"AttachCxObj", A0, A1>>,
     <<"EnqueueCxObj", A0, A1>>, <<"InsertCxObj", A0, A1, A2>>, <<"RemoveCxObj", A0>>, Reserve(1),
     <<"SetTranslate", A0, A1>>, <<"SetFilter", A0, A1>>, <<"SetFilterIX", A0, A1>>,
     <<"ParseIX", A0, A1>>, <<"CxMsgType", A0>>, <<"CxMsgData", A0>>, <<"CxMsgID", A0>>,
     <<"DivertCxMsg", A0, A1, A2>>, <<"RouteCxMsg", A0, A1>>, <<"DisposeCxMsg", A0>>,
     <<"InvertKeyMap", D0, A0, A1>>, <<"AddIEvents", A0>>, Reserve(3), <<"MatchIX", A0, A1>> >>

console_sfd ==
  << Bias(42), <<"CDInputHandler", A0, A1>>, <<"RawKeyConvert", A0, A1, D1, A2>> >>

datatypes_sfd ==
  << Bias(30), Reserve(1), <<"ObtainDataTypeA", D0, A0, A1>>, Varargs,
     <<"ObtainDataType", D0, A0, A1>>, <<"ReleaseDataType", A0>>, <<"NewDTObjectA", D0, A0>>,
     Varargs, <<"NewDTObject", D0, A0>>, <<"DisposeDTObject", A0>>,
     <<"SetDTAttrsA", A0, A1, A2, A3>>, Varargs, <<"SetDTAttrs", A0, A1, A2, A3>>,
     <<"GetDTAttrsA", A0, A2>>, Varargs, <<"GetDTAttrs", A0, A2>>,
     <<"AddDTObject", A0, A1, A2, D0>>, <<"RefreshDTObjectA", A0, A1, A2, A3>>, Varargs,
     <<"RefreshDTObjects", A0, A1, A2, A3>>, Varargs, <<"RefreshDTObject", A0, A1, A2, A3>>,
     <<"DoAsyncLayout", A0, A1>>, <<"DoDTMethodA", A0, A1, A2, A3>>, Varargs,
     <<"DoDTMethod", A0, A1, A2, A3>>, <<"RemoveDTObject", A0, A1>>, <<"GetDTMethods", A0>>,
     <<"GetDTTriggerMethods", A0>>, <<"PrintDTObjectA", A0, A1, A2, A3>>, Varargs,
     <<"PrintDTObject", A0, A1, A2, A3>>, <<"ObtainDTDrawInfoA", A0, A1>>, Varargs,
     <<"ObtainDTDrawInfo", A0, A1>>, <<"DrawDTObjectA", A0, A1, D0, D1, D2, D3, D4, D5, A2>>,
     Varargs, <<"DrawDTObject", A0, A1, D0, D1, D2, D3, D4, D5, A2>>,
     <<"ReleaseDTDrawInfo", A0, A1>>, <<"GetDTString", D0>>, Reserve(30) >>

datebrowser_sfd ==
  << Bias(30), <<"DATEBROWSER_GetClass">>, <<"JulianWeekDay", D0, D1, D2>>,
     <<"JulianMonthDays", D0, D1>>, <<"JulianLeapYear", D0>> >>

disk_sfd ==
  << Bias(6), <<"AllocUnit", D0>>, <<"FreeUnit", D0>>, <<"GetUnit", A1>>, <<"GiveUnit">>,
     <<"GetUnitID", D0>>, <<"ReadUnitID", D0>> >>

diskfont_sfd ==
  << Bias(30), <<"OpenDiskFont", A0>>, <<"AvailFonts", A0, D0, D1>>,
     <<"NewFontContents", A0, A1>>, <<"DisposeFontContents", A1>>,
     <<"NewScaledDiskFont", A0, A1>>, <<"GetDiskFontCtrl", D0>>, <<"SetDiskFontCtrlA", A0>>,
     Varargs, <<"SetDiskFontCtrl", A0>> >>

dos_sfd ==
  << Bias(30), <<"Open", D1, D2>>, <<"Close", D1>>, <<"Read", D1, D2, D3>>,
     <<"Write", D1, D2, D3>>, <<"Input">>, <<"Output">>, <<"Seek", D1, D2, D3>>,
     <<"DeleteFile", D1>>, <<"Rename", D1, D2>>, <<"Lock", D1, D2>>, <<"UnLock", D1>>,
     <<"DupLock", D1>>, <<"Examine", D1, D2>>, <<"ExNext", D1, D2>>, <<"Info", D1, D2>>,
     <<"CreateDir", D1>>, <<"CurrentDir", D1>>, <<"IoErr">>, <<"CreateProc", D1, D2, D3, D4>>,
     <<"Exit", D1>>, <<"LoadSeg", D1>>, <<"UnLoadSeg", D1>>, Reserve(2), <<"DeviceProc", D1>>,
     <<"SetComment", D1, D2>>, <<"SetProtection", D1, D2>>, <<"DateStamp", D1>>, <<"Delay", D1>>,
     <<"WaitForChar", D1, D2>>, <<"ParentDir", D1>>, <<"IsInteractive", D1>>,
     <<"Execute", D1, D2, D3>>, <<"AllocDosObject", D1, D2>>, Alias,
     <<"AllocDosObjectTagList", D1, D2>>, Varargs, <<"AllocDosObjectTags", D1, D2>>,
     <<"FreeDosObject", D1, D2>>, <<"DoPkt", D1, D2, D3, D4, D5, D6, D7>>, Alias,
     <<"DoPkt0", D1, D2>>, Alias, <<"DoPkt1", D1, D2, D3>>, Alias, <<"DoPkt2", D1, D2, D3, D4>>,
     Alias, <<"DoPkt3", D1, D2, D3, D4, D5>>, Alias, <<"DoPkt4", D1, D2, D3, D4, D5, D6>>,
     <<"SendPkt", D1, D2, D3>>, <<"WaitPkt">>, <<"ReplyPkt", D1, D2, D3>>, <<"AbortPkt", D1, D2>>,
     <<"LockRecord", D1, D2, D3, D4, D5>>, <<"LockRecords", D1, D2>>,
     <<"UnLockRecord", D1, D2, D3>>, <<"UnLockRecords", D1>>, <<"SelectInput", D1>>,
     <<"SelectOutput", D1>>, <<"FGetC", D1>>, <<"FPutC", D1, D2>>, <<"UnGetC", D1, D2>>,
     <<"FRead", D1, D2, D3, D4>>, <<"FWrite", D1, D2, D3, D4>>, <<"FGets", D1, D2, D3>>,
     <<"FPuts", D1, D2>>, <<"VFWritef", D1, D2, D3>>, Varargs, <<"FWritef", D1, D2, D3>>,
     <<"VFPrintf", D1, D2, D3>>, Varargs, <<"FPrintf", D1, D2, D3>>, <<"Flush", D1>>,
     <<"SetVBuf", D1, D2, D3, D4>>, <<"DupLockFromFH", D1>>, <<"OpenFromLock", D1>>,
     <<"ParentOfFH", D1>>, <<"ExamineFH", D1, D2>>, <<"SetFileDate", D1, D2>>,
     <<"NameFromLock", D1, D2, D3>>, <<"NameFromFH", D1, D2, D3>>,
     <<"SplitName", D1, D2, D3, D4, D5>>, <<"SameLock", D1, D2>>, <<"SetMode", D1, D2>>,
     <<"ExAll", D1, D2, D3, D4, D5>>, <<"ReadLink", D1, D2, D3, D4, D5>>,
     <<"MakeLink", D1, D2, D3>>, <<"ChangeMode", D1, D2, D3>>, <<"SetFileSize", D1, D2, D3>>,
     <<"SetIoErr", D1>>, <<"Fault", D1, D2, D3, D4>>, <<"PrintFault", D1, D2>>,
     <<"ErrorReport", D1, D2, D3, D4>>, Reserve(1), <<"Cli">>, <<"CreateNewProc", D1>>, Alias,
     <<"CreateNewProcTagList", D1>>, Varargs, <<"CreateNewProcTags", D1>>,
     <<"RunCommand", D1, D2, D3, D4>>, <<"GetConsoleTask">>, <<"SetConsoleTask", D1>>,
     <<"GetFileSysTask">>, <<"SetFileSysTask", D1>>, <<"GetArgStr">>, <<"SetArgStr", D1>>,
     <<"FindCliProc", D1>>, <<"MaxCli">>, <<"SetCurrentDirName", D1>>,
     <<"GetCurrentDirName", D1, D2>>, <<"SetProgramName", D1>>, <<"GetProgramName", D1, D2>>,
     <<"SetPrompt", D1>>, <<"GetPrompt", D1, D2>>, <<"SetProgramDir", D1>>, <<"GetProgramDir">>,
     <<"SystemTagList", D1, D2>>, Alias, <<"System", D1, D2>>, Varargs, <<"SystemTags", D1, D2>>,
     <<"AssignLock", D1, D2>>, <<"AssignLate", D1, D2>>, <<"AssignPath", D1, D2>>,
     <<"AssignAdd", D1, D2>>, <<"RemAssignList", D1, D2>>, <<"GetDeviceProc", D1, D2>>,
     <<"FreeDeviceProc", D1>>, <<"LockDosList", D1>>, <<"UnLockDosList", D1>>,
     <<"AttemptLockDosList", D1>>, <<"RemDosEntry", D1>>, <<"AddDosEntry", D1>>,
     <<"FindDosEntry", D1, D2, D3>>, <<"NextDosEntry", D1, D2>>, <<"MakeDosEntry", D1, D2>>,
     <<"FreeDosEntry", D1>>, <<"IsFileSystem", D1>>, <<"Format", D1, D2, D3>>,
     <<"Relabel", D1, D2>>, <<"Inhibit", D1, D2>>, <<"AddBuffers", D1, D2>>,
     <<"CompareDates", D1, D2>>, <<"DateToStr", D1>>, <<"StrToDate", D1>>,
     <<"InternalLoadSeg", D0, A0, A1, A2>>, <<"InternalUnLoadSeg", D1, A1>>,
     <<"NewLoadSeg", D1, D2>>, Alias, <<"NewLoadSegTagList", D1, D2>>, Varargs,
     <<"NewLoadSegTags", D1, D2>>, <<"AddSegment", D1, D2, D3>>, <<"FindSegment", D1, D2, D3>>,
     <<"RemSegment", D1>>, <<"CheckSignal", D1>>, <<"ReadArgs", D1, D2, D3>>,
     <<"FindArg", D1, D2>>, <<"ReadItem", D1, D2, D3>>, <<"StrToLong", D1, D2>>,
     <<"MatchFirst", D1, D2>>, <<"MatchNext", D1>>, <<"MatchEnd", D1>>,
     <<"ParsePattern", D1, D2, D3>>, <<"MatchPattern", D1, D2>>, Reserve(1), <<"FreeArgs", D1>>,
     Reserve(1), <<"FilePart", D1>>, <<"PathPart", D1>>, <<"AddPart", D1, D2, D3>>,
     <<"StartNotify", D1>>, <<"EndNotify", D1>>, <<"SetVar", D1, D2, D3, D4>>,
     <<"GetVar", D1, D2, D3, D4>>, <<"DeleteVar", D1, D2>>, <<"FindVar", D1, D2>>, Reserve(1),
     <<"CliInitNewcli", A0>>, <<"CliInitRun", A0>>, <<"WriteChars", D1, D2>>, <<"PutStr", D1>>,
     <<"VPrintf", D1, D2>>, Varargs, <<"Printf", D1, D2>>, Reserve(1),
     <<"ParsePatternNoCase", D1, D2, D3>>, <<"MatchPatternNoCase", D1, D2>>, Reserve(1),
     <<"SameDevice", D1, D2>>, <<"ExAllEnd", D1, D2, D3, D4, D5>>, <<"SetOwner", D1, D2>> >>

drawlist_sfd ==
  << Bias(30), <<"DRAWLIST_GetClass">> >>

dtclass_sfd ==
  << Bias(30), <<"ObtainEngine">> >>

exec_sfd ==
  << Bias(30), <<"Supervisor", A5>>, Reserve(6), <<"InitCode", D0, D1>>,
     <<"InitStruct", A1, A2, D0>>, <<"MakeLibrary", A0, A1, A2, D0, D1>>,
     <<"MakeFunctions", A0, A1, A2>>, <<"FindResident", A1>>, <<"InitResident", A1, D1>>,
     <<"Alert", D7>>, <<"Debug", D0>>, <<"Disable">>, <<"Enable">>, <<"Forbid">>, <<"Permit">>,
     <<"SetSR", D0, D1>>, <<"SuperState">>, <<"UserState", D0>>, <<"SetIntVector", D0, A1>>,
     <<"AddIntServer", D0, A1>>, <<"RemIntServer", D0, A1>>, <<"Cause", A1>>,
     <<"Allocate", A0, D0>>, <<"Deallocate", A0, A1, D0>>, <<"AllocMem", D0, D1>>,
     <<"AllocAbs", D0, A1>>, <<"FreeMem", A1, D0>>, <<"AvailMem", D1>>, <<"AllocEntry", A0>>,
     <<"FreeEntry", A0>>, <<"Insert", A0, A1, A2>>, <<"AddHead", A0, A1>>, <<"AddTail", A0, A1>>,
     <<"Remove", A1>>, <<"RemHead", A0>>, <<"RemTail", A0>>, <<"Enqueue", A0, A1>>,
     <<"FindName", A0, A1>>, <<"AddTask", A1, A2, A3>>, <<"RemTask", A1>>, <<"FindTask", A1>>,
     <<"SetTaskPri", A1, D0>>, <<"SetSignal", D0, D1>>, <<"SetExcept", D0, D1>>, <<"Wait", D0>>,
     <<"Signal", A1, D0>>, <<"AllocSignal", D0>>, <<"FreeSignal", D0>>, <<"AllocTrap", D0>>,
     <<"FreeTrap", D0>>, <<"AddPort", A1>>, <<"RemPort", A1>>, <<"PutMsg", A0, A1>>,
     <<"GetMsg", A0>>, <<"ReplyMsg", A1>>, <<"WaitPort", A0>>, <<"FindPort", A1>>,
     <<"AddLibrary", A1>>, <<"RemLibrary", A1>>, <<"OldOpenLibrary", A1>>, <<"CloseLibrary", A1>>,
     <<"SetFunction", A1, A0, D0>>, <<"SumLibrary", A1>>, <<"AddDevice", A1>>,
     <<"RemDevice", A1>>, <<"OpenDevice", A0, D0, A1, D1>>, <<"CloseDevice", A1>>, <<"DoIO", A1>>,
     <<"SendIO", A1>>, <<"CheckIO", A1>>, <<"WaitIO", A1>>, <<"AbortIO", A1>>,
     <<"AddResource", A1>>, <<"RemResource", A1>>, <<"OpenResource", A1>>, Reserve(3),
     <<"RawDoFmt", A0, A1, A2, A3>>, <<"GetCC">>, <<"TypeOfMem", A1>>, <<"Procure", A0, A1>>,
     <<"Vacate", A0, A1>>, <<"OpenLibrary", A1, D0>>, <<"InitSemaphore", A0>>,
     <<"ObtainSemaphore", A0>>, <<"ReleaseSemaphore", A0>>, <<"AttemptSemaphore", A0>>,
     <<"ObtainSemaphoreList", A0>>, <<"ReleaseSemaphoreList", A0>>, <<"FindSemaphore", A1>>,
     <<"AddSemaphore", A1>>, <<"RemSemaphore", A1>>, <<"SumKickData">>,
     <<"AddMemList", D0, D1, D2, A0, A1>>, <<"CopyMem", A0, A1, D0>>,
     <<"CopyMemQuick", A0, A1, D0>>, <<"CacheClearU">>, <<"CacheClearE", A0, D0, D1>>,
     <<"CacheControl", D0, D1>>, <<"CreateIORequest", A0, D0>>, <<"DeleteIORequest", A0>>,
     <<"CreateMsgPort">>, <<"DeleteMsgPort", A0>>, <<"ObtainSemaphoreShared", A0>>,
     <<"AllocVec", D0, D1>>, <<"FreeVec", A1>>, <<"CreatePool", D0, D1, D2>>,
     <<"DeletePool", A0>>, <<"AllocPooled", A0, D0>>, <<"FreePooled", A0, A1, D0>>,
     <<"AttemptSemaphoreShared", A0>>, <<"ColdReboot">>, <<"StackSwap", A0>>, Reserve(4),
     <<"CachePreDMA", A0, A1, D0>>, <<"CachePostDMA", A0, A1, D0>>, <<"AddMemHandler", A1>>,
     <<"RemMemHandler", A1>>, <<"ObtainQuickVector", A0>>, Reserve(6), <<"NewMinList", A0>>,
     Reserve(3), <<"AVL_AddNode", A0, A1, A2>>, <<"AVL_RemNodeByAddress", A0, A1>>,
     <<"AVL_RemNodeByKey", A0, A1, A2>>, <<"AVL_FindNode", A0, A1, A2>>,
     <<"AVL_FindPrevNodeByAddress", A0>>, <<"AVL_FindPrevNodeByKey", A0, A1, A2>>,
     <<"AVL_FindNextNodeByAddress", A0>>, <<"AVL_FindNextNodeByKey", A0, A1, A2>>,
     <<"AVL_FindFirstNode", A0>>, <<"AVL_FindLastNode", A0>> >>

expansion_sfd ==
  << Bias(30), <<"AddConfigDev", A0>>, <<"AddBootNode", D0, D1, A0, A1>>, <<"AllocBoardMem", D0>>,
     <<"AllocConfigDev">>, <<"AllocExpansionMem", D0, D1>>, <<"ConfigBoard", A0, A1>>,
     <<"ConfigChain", A0>>, <<"FindConfigDev", A0, D0, D1>>, <<"FreeBoardMem", D0, D1>>,
     <<"FreeConfigDev", A0>>, <<"FreeExpansionMem", D0, D1>>, <<"ReadExpansionByte", A0, D0>>,
     <<"ReadExpansionRom", A0, A1>>, <<"RemConfigDev", A0>>, <<"WriteExpansionByte", A0, D0, D1>>,
     <<"ObtainConfigBinding">>, <<"ReleaseConfigBinding">>, <<"SetCurrentBinding", A0, D0>>,
     <<"GetCurrentBinding", A0, D0>>, <<"MakeDosNode", A0>>, <<"AddDosNode", D0, D1, A0>> >>

fuelgauge_sfd ==
  << Bias(30), <<"FUELGAUGE_GetClass">> >>

gadtools_sfd ==
  << Bias(30), <<"CreateGadgetA", D0, A0, A1, A2>>, Varargs, <<"CreateGadget", D0, A0, A1, A2>>,
     <<"FreeGadgets", A0>>, <<"GT_SetGadgetAttrsA", A0, A1, A2, A3>>, Varargs,
     <<"GT_SetGadgetAttrs", A0, A1, A2, A3>>, <<"CreateMenusA", A0, A1>>, Varargs,
     <<"CreateMenus", A0, A1>>, <<"FreeMenus", A0>>, <<"LayoutMenuItemsA", A0, A1, A2>>, Varargs,
     <<"LayoutMenuItems", A0, A1, A2>>, <<"LayoutMenusA", A0, A1, A2>>, Varargs,
     <<"LayoutMenus", A0, A1, A2>>, <<"GT_GetIMsg", A0>>, <<"GT_ReplyIMsg", A1>>,
     <<"GT_RefreshWindow", A0, A1>>, <<"GT_BeginRefresh", A0>>, <<"GT_EndRefresh", A0, D0>>,
     <<"GT_FilterIMsg", A1>>, <<"GT_PostFilterIMsg", A1>>, <<"CreateContext", A0>>,
     <<"DrawBevelBoxA", A0, D0, D1, D2, D3, A1>>, Varargs,
     <<"DrawBevelBox", A0, D0, D1, D2, D3, A1>>, <<"GetVisualInfoA", A0, A1>>, Varargs,
     <<"GetVisualInfo", A0, A1>>, <<"FreeVisualInfo", A0>>, Reserve(6),
     <<"GT_GetGadgetAttrsA", A0, A1, A2, A3>>, Varargs, <<"GT_GetGadgetAttrs", A0, A1, A2, A3>> >>

getfile_sfd ==
  << Bias(30), <<"GETFILE_GetClass">> >>

getfont_sfd ==
  << Bias(30), <<"GETFONT_GetClass">> >>

getscreenmode_sfd ==
  << Bias(30), <<"GETSCREENMODE_GetClass">> >>

glyph_sfd ==
  << Bias(30), <<"GLYPH_GetClass">> >>

graphics_sfd ==
  << Bias(30), <<"BltBitMap", A0, D0, D1, A1, D2, D3, D4, D5, D6, D7, A2>>,
     <<"BltTemplate", A0, D0, D1, A1, D2, D3, D4, D5>>, <<"ClearEOL", A1>>, <<"ClearScreen", A1>>,
     <<"TextLength", A1, A0, D0>>, <<"Text", A1, A0, D0>>, <<"SetFont", A1, A0>>,
     <<"OpenFont", A0>>, <<"CloseFont", A1>>, <<"AskSoftStyle", A1>>,
     <<"SetSoftStyle", A1, D0, D1>>, <<"AddBob", A0, A1>>, <<"AddVSprite", A0, A1>>,
     <<"DoCollision", A1>>, <<"DrawGList", A1, A0>>, <<"InitGels", A0, A1, A2>>,
     <<"InitMasks", A0>>, <<"RemIBob", A0, A1, A2>>, <<"RemVSprite", A0>>,
     <<"SetCollision", D0, A0, A1>>, <<"SortGList", A1>>, <<"AddAnimOb", A0, A1, A2>>,
     <<"Animate", A0, A1>>, <<"GetGBuffers", A0, A1, D0>>, <<"InitGMasks", A0>>,
     <<"DrawEllipse", A1, D0, D1, D2, D3>>, <<"AreaEllipse", A1, D0, D1, D2, D3>>,
     <<"LoadRGB4", A0, A1, D0>>, <<"InitRastPort", A1>>, <<"InitVPort", A0>>, <<"MrgCop", A1>>,
     <<"MakeVPort", A0, A1>>, <<"LoadView", A1>>, <<"WaitBlit">>, <<"SetRast", A1, D0>>,
     <<"Move", A1, D0, D1>>, <<"Draw", A1, D0, D1>>, <<"AreaMove", A1, D0, D1>>,
     <<"AreaDraw", A1, D0, D1>>, <<"AreaEnd", A1>>, <<"WaitTOF">>, <<"QBlit", A1>>,
     <<"InitArea", A0, A1, D0>>, <<"SetRGB4", A0, D0, D1, D2, D3>>, <<"QBSBlit", A1>>,
     <<"BltClear", A1, D0, D1>>, <<"RectFill", A1, D0, D1, D2, D3>>,
     <<"BltPattern", A1, A0, D0, D1, D2, D3, D4>>, <<"ReadPixel", A1, D0, D1>>,
     <<"WritePixel", A1, D0, D1>>, <<"Flood", A1, D2, D0, D1>>, <<"PolyDraw", A1, D0, A0>>,
     <<"SetAPen", A1, D0>>, <<"SetBPen", A1, D0>>, <<"SetDrMd", A1, D0>>, <<"InitView", A1>>,
     <<"CBump", A1>>, <<"CMove", A1, D0, D1>>, <<"CWait", A1, D0, D1>>, <<"VBeamPos">>,
     <<"InitBitMap", A0, D0, D1, D2>>, <<"ScrollRaster", A1, D0, D1, D2, D3, D4, D5>>,
     <<"WaitBOVP", A0>>, <<"GetSprite", A0, D0>>, <<"FreeSprite", D0>>,
     <<"ChangeSprite", A0, A1, A2>>, <<"MoveSprite", A0, A1, D0, D1>>, <<"LockLayerRom", A5>>,
     <<"UnlockLayerRom", A5>>, <<"SyncSBitMap", A0>>, <<"CopySBitMap", A0>>, <<"OwnBlitter">>,
     <<"DisownBlitter">>, <<"InitTmpRas", A0, A1, D0>>, <<"AskFont", A1, A0>>, <<"AddFont", A1>>,
     <<"RemFont", A1>>, <<"AllocRaster", D0, D1>>, <<"FreeRaster", A0, D0, D1>>,
     <<"AndRectRegion", A0, A1>>, <<"OrRectRegion", A0, A1>>, <<"NewRegion">>,
     <<"ClearRectRegion", A0, A1>>, <<"ClearRegion", A0>>, <<"DisposeRegion", A0>>,
     <<"FreeVPortCopLists", A0>>, <<"FreeCopList", A0>>,
     <<"ClipBlit", A0, D0, D1, A1, D2, D3, D4, D5, D6>>, <<"XorRectRegion", A0, A1>>,
     <<"FreeCprList", A0>>, <<"GetColorMap", D0>>, <<"FreeColorMap", A0>>, <<"GetRGB4", A0, D0>>,
     <<"ScrollVPort", A0>>, <<"UCopperListInit", A0, D0>>, <<"FreeGBuffers", A0, A1, D0>>,
     <<"BltBitMapRastPort", A0, D0, D1, A1, D2, D3, D4, D5, D6>>, <<"OrRegionRegion", A0, A1>>,
     <<"XorRegionRegion", A0, A1>>, <<"AndRegionRegion", A0, A1>>,
     <<"SetRGB4CM", A0, D0, D1, D2, D3>>,
     <<"BltMaskBitMapRastPort", A0, D0, D1, A1, D2, D3, D4, D5, D6, A2>>, Reserve(2),
     <<"AttemptLockLayerRom", A5>>, <<"GfxNew", D0>>, <<"GfxFree", A0>>,
     <<"GfxAssociate", A0, A1>>, <<"BitMapScale", A0>>, <<"ScalerDiv", D0, D1, D2>>,
     <<"TextExtent", A1, A0, D0, A2>>, <<"TextFit", A1, A0, D0, A2, A3, D1, D2, D3>>,
     <<"GfxLookUp", A0>>, <<"VideoControl", A0, A1>>, Varargs, <<"VideoControlTags", A0, A1>>,
     <<"OpenMonitor", A1, D0>>, <<"CloseMonitor", A0>>, <<"FindDisplayInfo", D0>>,
     <<"NextDisplayInfo", D0>>, Reserve(3), <<"GetDisplayInfoData", A0, A1, D0, D1, D2>>,
     <<"FontExtent", A0, A1>>, <<"ReadPixelLine8", A0, D0, D1, D2, A2, A1>>,
     <<"WritePixelLine8", A0, D0, D1, D2, A2, A1>>,
     <<"ReadPixelArray8", A0, D0, D1, D2, D3, A2, A1>>,
     <<"WritePixelArray8", A0, D0, D1, D2, D3, A2, A1>>, <<"GetVPModeID", A0>>,
     <<"ModeNotAvailable", D0>>, Reserve(1), <<"EraseRect", A1, D0, D1, D2, D3>>,
     <<"ExtendFont", A0, A1>>, Varargs, <<"ExtendFontTags", A0, A1>>, <<"StripFont", A0>>,
     <<"CalcIVG", A0, A1>>, <<"AttachPalExtra", A0, A1>>,
     <<"ObtainBestPenA", A0, D1, D2, D3, A1>>, Varargs, <<"ObtainBestPen", A0, D1, D2, D3, A1>>,
     Reserve(1), <<"SetRGB32", A0, D0, D1, D2, D3>>, <<"GetAPen", A0>>, <<"GetBPen", A0>>,
     <<"GetDrMd", A0>>, <<"GetOutlinePen", A0>>, <<"LoadRGB32", A0, A1>>, <<"SetChipRev", D0>>,
     <<"SetABPenDrMd", A1, D0, D1, D2>>, <<"GetRGB32", A0, D0, D1, A1>>, Reserve(2),
     <<"AllocBitMap", D0, D1, D2, D3, A0>>, <<"FreeBitMap", A0>>, <<"GetExtSpriteA", A2, A1>>,
     Varargs, <<"GetExtSprite", A2, A1>>, <<"CoerceMode", A0, D0, D1>>,
     <<"ChangeVPBitMap", A0, A1, A2>>, <<"ReleasePen", A0, D0>>,
     <<"ObtainPen", A0, D0, D1, D2, D3, D4>>, <<"GetBitMapAttr", A0, D1>>,
     <<"AllocDBufInfo", A0>>, <<"FreeDBufInfo", A1>>, <<"SetOutlinePen", A0, D0>>,
     <<"SetWriteMask", A0, D0>>, <<"SetMaxPen", A0, D0>>, <<"SetRGB32CM", A0, D0, D1, D2, D3>>,
     <<"ScrollRasterBF", A1, D0, D1, D2, D3, D4, D5>>, <<"FindColor", A3, D1, D2, D3, D4>>,
     Reserve(1), <<"AllocSpriteDataA", A2, A1>>, Varargs, <<"AllocSpriteData", A2, A1>>,
     <<"ChangeExtSpriteA", A0, A1, A2, A3>>, Varargs, <<"ChangeExtSprite", A0, A1, A2, A3>>,
     <<"FreeSpriteData", A2>>, <<"SetRPAttrsA", A0, A1>>, Varargs, <<"SetRPAttrs", A0, A1>>,
     <<"GetRPAttrsA", A0, A1>>, Varargs, <<"GetRPAttrs", A0, A1>>, <<"BestModeIDA", A0>>, Varargs,
     <<"BestModeID", A0>>, <<"WriteChunkyPixels", A0, D0, D1, D2, D3, A2, D4>> >>

icon_sfd ==
  << Bias(30), Reserve(4), <<"FreeFreeList", A0>>, Reserve(2), <<"AddFreeList", A0, A1, A2>>,
     <<"GetDiskObject", A0>>, <<"PutDiskObject", A0, A1>>, <<"FreeDiskObject", A0>>,
     <<"FindToolType", A0, A1>>, <<"MatchToolValue", A0, A1>>, <<"BumpRevision", A0, A1>>,
     Reserve(1), <<"GetDefDiskObject", D0>>, <<"PutDefDiskObject", A0>>,
     <<"GetDiskObjectNew", A0>>, <<"DeleteDiskObject", A0>>, Reserve(1),
     <<"DupDiskObjectA", A0, A1>>, Varargs, <<"DupDiskObject", A0, A1>>,
     <<"IconControlA", A0, A1>>, Varargs, <<"IconControl", A0, A1>>,
     <<"DrawIconStateA", A0, A1, A2, D0, D1, D2, A3>>, Varargs,
     <<"DrawIconState", A0, A1, A2, D0, D1, D2, A3>>, <<"GetIconRectangleA", A0, A1, A2, A3, A4>>,
     Varargs, <<"GetIconRectangle", A0, A1, A2, A3, A4>>, <<"NewDiskObject", D0>>,
     <<"GetIconTagList", A0, A1>>, Varargs, <<"GetIconTags", A0, A1>>,
     <<"PutIconTagList", A0, A1, A2>>, Varargs, <<"PutIconTags", A0, A1, A2>>,
     <<"LayoutIconA", A0, A1, A2>>, Varargs, <<"LayoutIcon", A0, A1, A2>>,
     <<"ChangeToSelectedIconColor", A0>> >>

iffparse_sfd ==
  << Bias(30), <<"AllocIFF">>, <<"OpenIFF", A0, D0>>, <<"ParseIFF", A0, D0>>, <<"CloseIFF", A0>>,
     <<"FreeIFF", A0>>, <<"ReadChunkBytes", A0, A1, D0>>, <<"WriteChunkBytes", A0, A1, D0>>,
     <<"ReadChunkRecords", A0, A1, D0, D1>>, <<"WriteChunkRecords", A0, A1, D0, D1>>,
     <<"PushChunk", A0, D0, D1, D2>>, <<"PopChunk", A0>>, Reserve(1),
     <<"EntryHandler", A0, D0, D1, D2, A1, A2>>, <<"ExitHandler", A0, D0, D1, D2, A1, A2>>,
     <<"PropChunk", A0, D0, D1>>, <<"PropChunks", A0, A1, D0>>, <<"StopChunk", A0, D0, D1>>,
     <<"StopChunks", A0, A1, D0>>, <<"CollectionChunk", A0, D0, D1>>,
     <<"CollectionChunks", A0, A1, D0>>, <<"StopOnExit", A0, D0, D1>>, <<"FindProp", A0, D0, D1>>,
     <<"FindCollection", A0, D0, D1>>, <<"FindPropContext", A0>>, <<"CurrentChunk", A0>>,
     <<"ParentChunk", A0>>, <<"AllocLocalItem", D0, D1, D2, D3>>, <<"LocalItemData", A0>>,
     <<"SetLocalItemPurge", A0, A1>>, <<"FreeLocalItem", A0>>,
     <<"FindLocalItem", A0, D0, D1, D2>>, <<"StoreLocalItem", A0, A1, D0>>,
     <<"StoreItemInContext", A0, A1, A2>>, <<"InitIFF", A0, D0, A1>>, <<"InitIFFasDOS", A0>>,
     <<"InitIFFasClip", A0>>, <<"OpenClipboard", D0>>, <<"CloseClipboard", A0>>, <<"GoodID", D0>>,
     <<"GoodType", D0>>, <<"IDtoStr", D0, A0>> >>

input_sfd ==
  << Bias(42), <<"PeekQualifier">> >>

integer_sfd ==
  << Bias(30), <<"INTEGER_GetClass">> >>

intuition_sfd ==
  << Bias(30), <<"OpenIntuition">>, <<"Intuition", A0>>, <<"AddGadget", A0, A1, D0>>,
     <<"ClearDMRequest", A0>>, <<"ClearMenuStrip", A0>>, <<"ClearPointer", A0>>,
     <<"CloseScreen", A0>>, <<"CloseWindow", A0>>, <<"CloseWorkBench">>,
     <<"CurrentTime", A0, A1>>, <<"DisplayAlert", D0, A0, D1>>, <<"DisplayBeep", A0>>,
     <<"DoubleClick", D0, D1, D2, D3>>, <<"DrawBorder", A0, A1, D0, D1>>,
     <<"DrawImage", A0, A1, D0, D1>>, <<"EndRequest", A0, A1>>, <<"GetDefPrefs", A0, D0>>,
     <<"GetPrefs", A0, D0>>, <<"InitRequester", A0>>, <<"ItemAddress", A0, D0>>,
     <<"ModifyIDCMP", A0, D0>>, <<"ModifyProp", A0, A1, A2, D0, D1, D2, D3, D4>>,
     <<"MoveScreen", A0, D0, D1>>, <<"MoveWindow", A0, D0, D1>>, <<"OffGadget", A0, A1, A2>>,
     <<"OffMenu", A0, D0>>, <<"OnGadget", A0, A1, A2>>, <<"OnMenu", A0, D0>>,
     <<"OpenScreen", A0>>, <<"OpenWindow", A0>>, <<"OpenWorkBench">>,
     <<"PrintIText", A0, A1, D0, D1>>, <<"RefreshGadgets", A0, A1, A2>>,
     <<"RemoveGadget", A0, A1>>, <<"ReportMouse", D0, A0>>, Alias, <<"ReportMouse1", D0, A0>>,
     <<"Request", A0, A1>>, <<"ScreenToBack", A0>>, <<"ScreenToFront", A0>>,
     <<"SetDMRequest", A0, A1>>, <<"SetMenuStrip", A0, A1>>,
     <<"SetPointer", A0, A1, D0, D1, D2, D3>>, <<"SetWindowTitles", A0, A1, A2>>,
     <<"ShowTitle", A0, D0>>, <<"SizeWindow", A0, D0, D1>>, <<"ViewAddress">>,
     <<"ViewPortAddress", A0>>, <<"WindowToBack", A0>>, <<"WindowToFront", A0>>,
     <<"WindowLimits", A0, D0, D1, D2, D3>>, <<"SetPrefs", A0, D0, D1>>,
     <<"IntuiTextLength", A0>>, <<"WBenchToBack">>, <<"WBenchToFront">>,
     <<"AutoRequest", A0, A1, A2, A3, D0, D1, D2, D3>>, <<"BeginRefresh", A0>>,
     <<"BuildSysRequest", A0, A1, A2, A3, D0, D1, D2>>, <<"EndRefresh", A0, D0>>,
     <<"FreeSysRequest", A0>>, <<"MakeScreen", A0>>, <<"RemakeDisplay">>, <<"RethinkDisplay">>,
     <<"AllocRemember", A0, D0, D1>>, Reserve(1), <<"FreeRemember", A0, D0>>, <<"LockIBase", D0>>,
     <<"UnlockIBase", A0>>, <<"GetScreenData", A0, D0, D1, A1>>,
     <<"RefreshGList", A0, A1, A2, D0>>, <<"AddGList", A0, A1, D0, D1, A2>>,
     <<"RemoveGList", A0, A1, D0>>, <<"ActivateWindow", A0>>, <<"RefreshWindowFrame", A0>>,
     <<"ActivateGadget", A0, A1, A2>>, <<"NewModifyProp", A0, A1, A2, D0, D1, D2, D3, D4, D5>>,
     <<"QueryOverscan", A0, A1, D0>>, <<"MoveWindowInFrontOf", A0, A1>>,
     <<"ChangeWindowBox", A0, D0, D1, D2, D3>>, <<"SetEditHook", A0>>,
     <<"SetMouseQueue", A0, D0>>, <<"ZipWindow", A0>>, <<"LockPubScreen", A0>>,
     <<"UnlockPubScreen", A0, A1>>, <<"LockPubScreenList">>, <<"UnlockPubScreenList">>,
     <<"NextPubScreen", A0, A1>>, <<"SetDefaultPubScreen", A0>>, <<"SetPubScreenModes", D0>>,
     <<"PubScreenStatus", A0, D0>>, <<"ObtainGIRPort", A0>>, <<"ReleaseGIRPort", A0>>,
     <<"GadgetMouse", A0, A1, A2>>, Reserve(1), <<"GetDefaultPubScreen", A0>>,
     <<"EasyRequestArgs", A0, A1, A2, A3>>, Varargs, <<"EasyRequest", A0, A1, A2, A3>>,
     <<"BuildEasyRequestArgs", A0, A1, D0, A3>>, Varargs, <<"BuildEasyRequest", A0, A1, D0, A3>>,
     <<"SysReqHandler", A0, A1, D0>>, <<"OpenWindowTagList", A0, A1>>, Varargs,
     <<"OpenWindowTags", A0, A1>>, <<"OpenScreenTagList", A0, A1>>, Varargs,
     <<"OpenScreenTags", A0, A1>>, <<"DrawImageState", A0, A1, D0, D1, D2, A2>>,
     <<"PointInImage", D0, A0>>, <<"EraseImage", A0, A1, D0, D1>>, <<"NewObjectA", A0, A1, A2>>,
     Varargs, <<"NewObject", A0, A1, A2>>, <<"DisposeObject", A0>>, <<"SetAttrsA", A0, A1>>,
     Varargs, <<"SetAttrs", A0, A1>>, <<"GetAttr", D0, A0, A1>>,
     <<"SetGadgetAttrsA", A0, A1, A2, A3>>, Varargs, <<"SetGadgetAttrs", A0, A1, A2, A3>>,
     <<"NextObject", A0>>, Reserve(1), <<"MakeClass", A0, A1, A2, D0, D1>>, <<"AddClass", A0>>,
     <<"GetScreenDrawInfo", A0>>, <<"FreeScreenDrawInfo", A0, A1>>, <<"ResetMenuStrip", A0, A1>>,
     <<"RemoveClass", A0>>, <<"FreeClass", A0>>, Reserve(8), <<"AllocScreenBuffer", A0, A1, D0>>,
     <<"FreeScreenBuffer", A0, A1>>, <<"ChangeScreenBuffer", A0, A1>>,
     <<"ScreenDepth", A0, D0, A1>>, <<"ScreenPosition", A0, D0, D1, D2, D3, D4>>,
     <<"ScrollWindowRaster", A1, D0, D1, D2, D3, D4, D5>>, <<"LendMenus", A0, A1>>,
     <<"DoGadgetMethodA", A0, A1, A2, A3>>, Varargs, <<"DoGadgetMethod", A0, A1, A2, A3>>,
     <<"SetWindowPointerA", A0, A1>>, Varargs, <<"SetWindowPointer", A0, A1>>,
     <<"TimedDisplayAlert", D0, A0, D1, A1>>, <<"HelpControl", A0, D0>> >>

keymap_sfd ==
  << Bias(30), <<"SetKeyMapDefault", A0>>, <<"AskKeyMapDefault">>,
     <<"MapRawKey", A0, A1, D1, A2>>, <<"MapANSI", A0, D0, A1, D1, A2>> >>

label_sfd ==
  << Bias(30), <<"LABEL_GetClass">> >>

layers_sfd ==
  << Bias(30), <<"InitLayers", A0>>, <<"CreateUpfrontLayer", A0, A1, D0, D1, D2, D3, D4, A2>>,
     <<"CreateBehindLayer", A0, A1, D0, D1, D2, D3, D4, A2>>, <<"UpfrontLayer", A0, A1>>,
     <<"BehindLayer", A0, A1>>, <<"MoveLayer", A0, A1, D0, D1>>, <<"SizeLayer", A0, A1, D0, D1>>,
     <<"ScrollLayer", A0, A1, D0, D1>>, <<"BeginUpdate", A0>>, <<"EndUpdate", A0, D0>>,
     <<"DeleteLayer", A0, A1>>, <<"LockLayer", A0, A1>>, <<"UnlockLayer", A0>>,
     <<"LockLayers", A0>>, <<"UnlockLayers", A0>>, <<"LockLayerInfo", A0>>,
     <<"SwapBitsRastPortClipRect", A0, A1>>, <<"WhichLayer", A0, D0, D1>>,
     <<"UnlockLayerInfo", A0>>, <<"NewLayerInfo">>, <<"DisposeLayerInfo", A0>>,
     <<"FattenLayerInfo", A0>>, <<"ThinLayerInfo", A0>>, <<"MoveLayerInFrontOf", A0, A1>>,
     <<"InstallClipRegion", A0, A1>>, <<"MoveSizeLayer", A0, D0, D1, D2, D3>>,
     <<"CreateUpfrontHookLayer", A0, A1, D0, D1, D2, D3, D4, A3, A2>>,
     <<"CreateBehindHookLayer", A0, A1, D0, D1, D2, D3, D4, A3, A2>>,
     <<"InstallLayerHook", A0, A1>>, <<"InstallLayerInfoHook", A0, A1>>,
     <<"SortLayerCR", A0, D0, D1>>, <<"DoHookClipRects", A0, A1, A2>> >>

layout_sfd ==
  << Bias(30), <<"LAYOUT_GetClass">>, <<"ActivateLayoutGadget", A0, A1, A2, D0>>,
     <<"FlushLayoutDomainCache", A0>>, <<"RethinkLayout", A0, A1, A2, D0>>,
     <<"LayoutLimits", A0, A1, A2, A3>>, <<"PAGE_GetClass">>,
     <<"SetPageGadgetAttrsA", A0, A1, A2, A3, A4>>, Varargs,
     <<"SetPageGadgetAttrs", A0, A1, A2, A3, A4>>, <<"RefreshPageGadget", A0, A1, A2, A3>> >>

listbrowser_sfd ==
  << Bias(30), <<"LISTBROWSER_GetClass">>, <<"AllocListBrowserNodeA", D0, A0>>, Varargs,
     <<"AllocListBrowserNode", D0, A0>>, <<"FreeListBrowserNode", A0>>,
     <<"SetListBrowserNodeAttrsA", A0, A1>>, Varargs, <<"SetListBrowserNodeAttrs", A0, A1>>,
     <<"GetListBrowserNodeAttrsA", A0, A1>>, Varargs, <<"GetListBrowserNodeAttrs", A0, A1>>,
     <<"ListBrowserSelectAll", A0>>, <<"ShowListBrowserNodeChildren", A0, D0>>,
     <<"HideListBrowserNodeChildren", A0>>, <<"ShowAllListBrowserChildren", A0>>,
     <<"HideAllListBrowserChildren", A0>>, <<"FreeListBrowserList", A0>>,
     <<"AllocLBColumnInfoA", D0, A0>>, Varargs, <<"AllocLBColumnInfo", D0, A0>>,
     <<"SetLBColumnInfoAttrsA", A1, A0>>, Varargs, <<"SetLBColumnInfoAttrs", A1, A0>>,
     <<"GetLBColumnInfoAttrsA", A1, A0>>, Varargs, <<"GetLBColumnInfoAttrs", A1, A0>>,
     <<"FreeLBColumnInfo", A0>>, <<"ListBrowserClearAll", A0>> >>

locale_sfd ==
  << Bias(30), Reserve(1), <<"CloseCatalog", A0>>, <<"CloseLocale", A0>>,
     <<"ConvToLower", A0, D0>>, <<"ConvToUpper", A0, D0>>, <<"FormatDate", A0, A1, A2, A3>>,
     <<"FormatString", A0, A1, A2, A3>>, <<"GetCatalogStr", A0, D0, A1>>,
     <<"GetLocaleStr", A0, D0>>, <<"IsAlNum", A0, D0>>, <<"IsAlpha", A0, D0>>,
     <<"IsCntrl", A0, D0>>, <<"IsDigit", A0, D0>>, <<"IsGraph", A0, D0>>, <<"IsLower", A0, D0>>,
     <<"IsPrint", A0, D0>>, <<"IsPunct", A0, D0>>, <<"IsSpace", A0, D0>>, <<"IsUpper", A0, D0>>,
     <<"IsXDigit", A0, D0>>, <<"OpenCatalogA", A0, A1, A2>>, Varargs,
     <<"OpenCatalog", A0, A1, A2>>, <<"OpenLocale", A0>>, <<"ParseDate", A0, A1, A2, A3>>,
     Reserve(1), <<"StrConvert", A0, A1, A2, D0, D1>>, <<"StrnCmp", A0, A1, A2, D0, D1>> >>

lowlevel_sfd ==
  << Bias(30), <<"ReadJoyPort", D0>>, <<"GetLanguageSelection">>, Reserve(1), <<"GetKey">>,
     <<"QueryKeys", A0, D1>>, <<"AddKBInt", A0, A1>>, <<"RemKBInt", A1>>,
     <<"SystemControlA", A1>>, Varargs, <<"SystemControl", A1>>, <<"AddTimerInt", A0, A1>>,
     <<"RemTimerInt", A1>>, <<"StopTimerInt", A1>>, <<"StartTimerInt", A1, D0, D1>>,
     <<"ElapsedTime", A0>>, <<"AddVBlankInt", A0, A1>>, <<"RemVBlankInt", A1>>, Reserve(2),
     <<"SetJoyPortAttrsA", D0, A1>>, Varargs, <<"SetJoyPortAttrs", D0, A1>> >>

mathffp_sfd ==
  << Bias(30), <<"SPFix", D0>>, <<"SPFlt", D0>>, <<"SPCmp", D1, D0>>, <<"SPTst", D1>>,
     <<"SPAbs", D0>>, <<"SPNeg", D0>>, <<"SPAdd", D1, D0>>, <<"SPSub", D1, D0>>,
     <<"SPMul", D1, D0>>, <<"SPDiv", D1, D0>>, <<"SPFloor", D0>>, <<"SPCeil", D0>> >>

mathieeedoubbas_sfd ==
  << Bias(30), <<"IEEEDPFix", D0>>, <<"IEEEDPFlt", D0>>, <<"IEEEDPCmp", D0, D2>>,
     <<"IEEEDPTst", D0>>, <<"IEEEDPAbs", D0>>, <<"IEEEDPNeg", D0>>, <<"IEEEDPAdd", D0, D2>>,
     <<"IEEEDPSub", D0, D2>>, <<"IEEEDPMul", D0, D2>>, <<"IEEEDPDiv", D0, D2>>,
     <<"IEEEDPFloor", D0>>, <<"IEEEDPCeil", D0>> >>

mathieeedoubtrans_sfd ==
  << Bias(30), <<"IEEEDPAtan", D0>>, <<"IEEEDPSin", D0>>, <<"IEEEDPCos", D0>>,
     <<"IEEEDPTan", D0>>, <<"IEEEDPSincos", A0, D0>>, <<"IEEEDPSinh", D0>>, <<"IEEEDPCosh", D0>>,
     <<"IEEEDPTanh", D0>>, <<"IEEEDPExp", D0>>, <<"IEEEDPLog", D0>>, <<"IEEEDPPow", D2, D0>>,
     <<"IEEEDPSqrt", D0>>, <<"IEEEDPTieee", D0>>, <<"IEEEDPFieee", D0>>, <<"IEEEDPAsin", D0>>,
     <<"IEEEDPAcos", D0>>, <<"IEEEDPLog10", D0>> >>

mathieeesingbas_sfd ==
  << Bias(30), <<"IEEESPFix", D0>>, <<"IEEESPFlt", D0>>, <<"IEEESPCmp", D0, D1>>,
     <<"IEEESPTst", D0>>, <<"IEEESPAbs", D0>>, <<"IEEESPNeg", D0>>, <<"IEEESPAdd", D0, D1>>,
     <<"IEEESPSub", D0, D1>>, <<"IEEESPMul", D0, D1>>, <<"IEEESPDiv", D0, D1>>,
     <<"IEEESPFloor", D0>>, <<"IEEESPCeil", D0>> >>

mathieeesingtrans_sfd ==
  << Bias(30), <<"IEEESPAtan", D0>>, <<"IEEESPSin", D0>>, <<"IEEESPCos", D0>>,
     <<"IEEESPTan", D0>>, <<"IEEESPSincos", A0, D0>>, <<"IEEESPSinh", D0>>, <<"IEEESPCosh", D0>>,
     <<"IEEESPTanh", D0>>, <<"IEEESPExp", D0>>, <<"IEEESPLog", D0>>, <<"IEEESPPow", D1, D0>>,
     <<"IEEESPSqrt", D0>>, <<"IEEESPTieee", D0>>, <<"IEEESPFieee", D0>>, <<"IEEESPAsin", D0>>,
     <<"IEEESPAcos", D0>>, <<"IEEESPLog10", D0>> >>

mathtrans_sfd ==
  << Bias(30), <<"SPAtan", D0>>, <<"SPSin", D0>>, <<"SPCos", D0>>, <<"SPTan", D0>>,
     <<"SPSincos", D1, D0>>, <<"SPSinh", D0>>, <<"SPCosh", D0>>, <<"SPTanh", D0>>,
     <<"SPExp", D0>>, <<"SPLog", D0>>, <<"SPPow", D1, D0>>, <<"SPSqrt", D0>>, <<"SPTieee", D0>>,
     <<"SPFieee", D0>>, <<"SPAsin", D0>>, <<"SPAcos", D0>>, <<"SPLog10", D0>> >>

misc_sfd ==
  << Bias(6), <<"AllocMiscResource", D0, A1>>, <<"FreeMiscResource", D0>> >>

nonvolatile_sfd ==
  << Bias(30), <<"GetCopyNV", A0, A1, D1>>, <<"FreeNVData", A0>>,
     <<"StoreNV", A0, A1, A2, D0, D1>>, <<"DeleteNV", A0, A1, D1>>, <<"GetNVInfo", D1>>,
     <<"GetNVList", A0, D1>>, <<"SetNVProtection", A0, A1, D2, D1>> >>

palette_sfd ==
  << Bias(30), <<"PALETTE_GetClass">> >>

penmap_sfd ==
  << Bias(30), <<"PENMAP_GetClass">> >>

popcycle_sfd ==
  << Bias(30), <<"POPCYCLE_GetClass">>, <<"AllocPopCycleNodeA", A0>>, Varargs,
     <<"AllocPopCycleNode", A0>>, <<"FreePopCycleNode", A0>>, <<"SetPopCycleNodeAttrsA", A0, A1>>,
     Varargs, <<"SetPopCycleNodeAttrs", A0, A1>>, <<"GetPopCycleNodeAttrsA", A0, A1>>, Varargs,
     <<"GetPopCycleNodeAttrs", A0, A1>> >>

potgo_sfd ==
  << Bias(6), <<"AllocPotBits", D0>>, <<"FreePotBits", D0>>, <<"WritePotgo", D0, D1>> >>

radiobutton_sfd ==
  << Bias(30), <<"RADIOBUTTON_GetClass">>, <<"AllocRadioButtonNodeA", D0, A0>>, Varargs,
     <<"AllocRadioButtonNode", D0, A0>>, <<"FreeRadioButtonNode", A0>>,
     <<"SetRadioButtonNodeAttrsA", A0, A1>>, Varargs, <<"SetRadioButtonNodeAttrs", A0, A1>>,
     <<"GetRadioButtonNodeAttrsA", A0, A1>>, Varargs, <<"GetRadioButtonNodeAttrs", A0, A1>> >>

ramdrive_sfd ==
  << Bias(42), <<"KillRAD0">>, <<"KillRAD", D0>> >>

realtime_sfd ==
  << Bias(30), <<"LockRealTime", D0>>, <<"UnlockRealTime", A0>>, <<"CreatePlayerA", A0>>, Varargs,
     <<"CreatePlayer", A0>>, <<"DeletePlayer", A0>>, <<"SetPlayerAttrsA", A0, A1>>, Varargs,
     <<"SetPlayerAttrs", A0, A1>>, <<"SetConductorState", A0, D0, D1>>,
     <<"ExternalSync", A0, D0, D1>>, <<"NextConductor", A0>>, <<"FindConductor", A0>>,
     <<"GetPlayerAttrsA", A0, A1>>, Varargs, <<"GetPlayerAttrs", A0, A1>> >>

requester_sfd ==
  << Bias(30), <<"REQUESTER_GetClass">> >>

resource_sfd ==
  << Bias(30), <<"RL_OpenResource", A0, A1, A2>>, <<"RL_CloseResource", A0>>,
     <<"RL_NewObjectA", A0, D0, A1>>, Varargs, <<"RL_NewObject", A0, D0, A1>>,
     <<"RL_DisposeObject", A0, A1>>, <<"RL_NewGroupA", A0, D0, A1>>, Varargs,
     <<"RL_NewGroup", A0, D0, A1>>, <<"RL_DisposeGroup", A0, A1>>,
     <<"RL_GetObjectArray", A0, A1, D0>>, <<"RL_SetResourceScreen", A0, A1>> >>

rexxsyslib_sfd ==
  << Bias(126), <<"CreateArgstring", A0, D0>>, <<"DeleteArgstring", A0>>,
     <<"LengthArgstring", A0>>, <<"CreateRexxMsg", A0, A1, D0>>, <<"DeleteRexxMsg", A0>>,
     <<"ClearRexxMsg", A0, D0>>, <<"FillRexxMsg", A0, D0, D1>>, <<"IsRexxMsg", A0>>, Reserve(46),
     <<"LockRexxBase", D0>>, <<"UnlockRexxBase", D0>> >>

scroller_sfd ==
  << Bias(30), <<"SCROLLER_GetClass">> >>

slider_sfd ==
  << Bias(30), <<"SLIDER_GetClass">> >>

space_sfd ==
  << Bias(30), <<"SPACE_GetClass">> >>

speedbar_sfd ==
  << Bias(30), <<"SPEEDBAR_GetClass">>, <<"AllocSpeedButtonNodeA", D0, A0>>, Varargs,
     <<"AllocSpeedButtonNode", D0, A0>>, <<"FreeSpeedButtonNode", A0>>,
     <<"SetSpeedButtonNodeAttrsA", A0, A1>>, Varargs, <<"SetSpeedButtonNodeAttrs", A0, A1>>,
     <<"GetSpeedButtonNodeAttrsA", A0, A1>>, Varargs, <<"GetSpeedButtonNodeAttrs", A0, A1>> >>

string_sfd ==
  << Bias(30), <<"STRING_GetClass">> >>

texteditor_sfd ==
  << Bias(30), <<"TEXTEDITOR_GetClass">> >>

timer_sfd ==
  << Bias(42), <<"AddTime", A0, A1>>, <<"SubTime", A0, A1>>, <<"CmpTime", A0, A1>>,
     <<"ReadEClock", A0>>, <<"GetSysTime", A0>> >>

translator_sfd ==
  << Bias(30), <<"Translate", A0, D0, A1, D1>> >>

utility_sfd ==
  << Bias(30), <<"FindTagItem", D0, A0>>, <<"GetTagData", D0, D1, A0>>,
     <<"PackBoolTags", D0, A0, A1>>, <<"NextTagItem", A0>>, <<"FilterTagChanges", A0, A1, D0>>,
     <<"MapTags", A0, A1, D0>>, <<"AllocateTagItems", D0>>, <<"CloneTagItems", A0>>,
     <<"FreeTagItems", A0>>, <<"RefreshTagItemClones", A0, A1>>, <<"TagInArray", D0, A0>>,
     <<"FilterTagItems", A0, A1, D0>>, <<"CallHookPkt", A0, A2, A1>>, Reserve(1), Reserve(1),
     <<"Amiga2Date", D0, A0>>, <<"Date2Amiga", A0>>, <<"CheckDate", A0>>, <<"SMult32", D0, D1>>,
     <<"UMult32", D0, D1>>, <<"SDivMod32", D0, D1>>, <<"UDivMod32", D0, D1>>,
     <<"Stricmp", A0, A1>>, <<"Strnicmp", A0, A1, D0>>, <<"ToUpper", D0>>, <<"ToLower", D0>>,
     <<"ApplyTagChanges", A0, A1>>, Reserve(1), <<"SMult64", D0, D1>>, <<"UMult64", D0, D1>>,
     <<"PackStructureTags", A0, A1, A2>>, <<"UnpackStructureTags", A0, A1, A2>>,
     <<"AddNamedObject", A0, A1>>, <<"AllocNamedObjectA", A0, A1>>, Varargs,
     <<"AllocNamedObject", A0, A1>>, <<"AttemptRemNamedObject", A0>>,
     <<"FindNamedObject", A0, A1, A2>>, <<"FreeNamedObject", A0>>, <<"NamedObjectName", A0>>,
     <<"ReleaseNamedObject", A0>>, <<"RemNamedObject", A0, A1>>, <<"GetUniqueID">>, Reserve(4) >>

virtual_sfd ==
  << Bias(30), <<"VIRTUAL_GetClass">>, <<"RefreshVirtualGadget", A0, A1, A2, A3>>,
     <<"RethinkVirtualSize", A0, A1, A2, A3, D0>> >>

wb_sfd ==
  << Bias(30), Reserve(3), <<"AddAppWindowA", D0, D1, A0, A1, A2>>, Varargs,
     <<"AddAppWindow", D0, D1, A0, A1, A2>>, <<"RemoveAppWindow", A0>>,
     <<"AddAppIconA", D0, D1, A0, A1, A2, A3, A4>>, Varargs,
     <<"AddAppIcon", D0, D1, A0, A1, A2, A3, A4>>, <<"RemoveAppIcon", A0>>,
     <<"AddAppMenuItemA", D0, D1, A0, A1, A2>>, Varargs, <<"AddAppMenuItem", D0, D1, A0, A1, A2>>,
     <<"RemoveAppMenuItem", A0>>, Reserve(1), <<"WBInfo", A0, A1, A2>>,
     <<"OpenWorkbenchObjectA", A0, A1>>, Varargs, <<"OpenWorkbenchObject", A0, A1>>,
     <<"CloseWorkbenchObjectA", A0, A1>>, Varargs, <<"CloseWorkbenchObject", A0, A1>>,
     <<"WorkbenchControlA", A0, A1>>, Varargs, <<"WorkbenchControl", A0, A1>>,
     <<"AddAppWindowDropZoneA", A0, D0, D1, A1>>, Varargs,
     <<"AddAppWindowDropZone", A0, D0, D1, A1>>, <<"RemoveAppWindowDropZone", A0, A1>>,
     <<"ChangeWorkbenchSelectionA", A0, A1, A2>>, Varargs,
     <<"ChangeWorkbenchSelection", A0, A1, A2>>, <<"MakeWorkbenchObjectVisibleA", A0, A1>>,
     Varargs, <<"MakeWorkbenchObjectVisible", A0, A1>> >>

window_sfd ==
  << Bias(30), <<"WINDOW_GetClass">> >>

socket_fd ==
  << Bias(30), <<"socket", D0, D1, D2>>, <<"bind", D0, A0, D1>>, <<"listen", D0, D1>>,
     <<"accept", D0, A0, A1>>, <<"connect", D0, A0, D1>>, <<"sendto", D0, A0, D1, D2, A1, D3>>,
     <<"send", D0, A0, D1, D2>>, <<"recvfrom", D0, A0, D1, D2, A1, A2>>,
     <<"recv", D0, A0, D1, D2>>, <<"shutdown", D0, D1>>, <<"setsockopt", D0, D1, D2, A0, D3>>,
     <<"getsockopt", D0, D1, D2, A0, A1>>, <<"getsockname", D0, A0, A1>>,
     <<"getpeername", D0, A0, A1>>, <<"IoctlSocket", D0, D1, A0>>, <<"CloseSocket", D0>>,
     <<"WaitSelect", D0, A0, A1, A2, A3, D1>>, <<"SetSocketSignals", D0, D1, D2>>,
     <<"getdtablesize">>, <<"ObtainSocket", D0, D1, D2, D3>>, <<"ReleaseSocket", D0, D1>>,
     <<"ReleaseCopyOfSocket", D0, D1>>, <<"Errno">>, <<"SetErrnoPtr", A0, D0>>,
     <<"Inet_NtoA", D0>>, <<"inet_addr", A0>>, <<"Inet_LnaOf", D0>>, <<"Inet_NetOf", D0>>,
     <<"Inet_MakeAddr", D0, D1>>, <<"inet_network", A0>>, <<"gethostbyname", A0>>,
     <<"gethostbyaddr", A0, D0, D1>>, <<"getnetbyname", A0>>, <<"getnetbyaddr", D0, D1>>,
     <<"getservbyname", A0, A1>>, <<"getservbyport", D0, A0>>, <<"getprotobyname", A0>>,
     <<"getprotobynumber", D0>>, <<"vsyslog", D0, A0, A1>>, <<"Dup2Socket", D0, D1>>,
     <<"sendmsg", D0, A0, D1>>, <<"recvmsg", D0, A0, D1>>, <<"gethostname", A0, D0>>,
     <<"gethostid">>, <<"SocketBaseTagList", A0>>, <<"GetSocketEvents", A0>> >>

usergroup_fd ==
  << Bias(30), <<"ug_SetupContextTagList", A0, A1>>, <<"ug_GetErr">>, <<"ug_StrError", D1>>,
     <<"getuid">>, <<"geteuid">>, <<"setreuid", D0, D1>>, <<"setuid", D0>>, <<"getgid">>,
     <<"getegid">>, <<"setregid", D0, D1>>, <<"setgid", D0>>, <<"getgroups", D0, A1>>,
     <<"setgroups", D0, A1>>, <<"initgroups", A1, D0>>, <<"getpwnam", A1>>, <<"getpwuid", D0>>,
     <<"setpwent">>, <<"getpwent">>, <<"endpwent">>, <<"getgrnam", A1>>, <<"getgrgid", D0>>,
     <<"setgrent">>, <<"getgrent">>, <<"endgrent">>, <<"crypt", A0, A1>>,
     <<"ug_GetSalt", A0, A1, D0>>, <<"getpass", A1>>, <<"umask", D0>>, <<"getumask">>,
     <<"setsid">>, <<"getpgrp">>, <<"getlogin">>, <<"setlogin", A1>>, <<"setutent">>,
     <<"getutent">>, <<"endutent">>, <<"getlastlog", D0>>, <<"setlastlog", D0, A0, A1>>,
     <<"getcredentials", A0>> >>

\* Every library of the package with its description.
Sfd ==
  [ amigaguide |-> amigaguide_sfd, aml |-> aml_sfd, arexx |-> arexx_sfd, asl |-> asl_sfd,
    battclock |-> battclock_sfd, battmem |-> battmem_sfd, bevel |-> bevel_sfd,
    bitmap |-> bitmap_sfd, bullet |-> bullet_sfd, button |-> button_sfd, cardres |-> cardres_sfd,
    checkbox |-> checkbox_sfd, chooser |-> chooser_sfd, clicktab |-> clicktab_sfd,
    colorwheel |-> colorwheel_sfd, commodities |-> commodities_sfd, console |-> console_sfd,
    datatypes |-> datatypes_sfd, datebrowser |-> datebrowser_sfd, disk |-> disk_sfd,
    diskfont |-> diskfont_sfd, dos |-> dos_sfd, drawlist |-> drawlist_sfd,
    dtclass |-> dtclass_sfd, exec |-> exec_sfd, expansion |-> expansion_sfd,
    fuelgauge |-> fuelgauge_sfd, gadtools |-> gadtools_sfd, getfile |-> getfile_sfd,
    getfont |-> getfont_sfd, getscreenmode |-> getscreenmode_sfd, glyph |-> glyph_sfd,
    graphics |-> graphics_sfd, icon |-> icon_sfd, iffparse |-> iffparse_sfd, input |-> input_sfd,
    integer |-> integer_sfd, intuition |-> intuition_sfd, keymap |-> keymap_sfd,
    label |-> label_sfd, layers |-> layers_sfd, layout |-> layout_sfd,
    listbrowser |-> listbrowser_sfd, locale |-> locale_sfd, lowlevel |-> lowlevel_sfd,
    mathffp |-> mathffp_sfd, mathieeedoubbas |-> mathieeedoubbas_sfd,
    mathieeedoubtrans |-> mathieeedoubtrans_sfd, mathieeesingbas |-> mathieeesingbas_sfd,
    mathieeesingtrans |-> mathieeesingtrans_sfd, mathtrans |-> mathtrans_sfd, misc |-> misc_sfd,
    nonvolatile |-> nonvolatile_sfd, palette |-> palette_sfd, penmap |-> penmap_sfd,
    popcycle |-> popcycle_sfd, potgo |-> potgo_sfd, radiobutton |-> radiobutton_sfd,
    ramdrive |-> ramdrive_sfd, realtime |-> realtime_sfd, requester |-> requester_sfd,
    resource |-> resource_sfd, rexxsyslib |-> rexxsyslib_sfd, scroller |-> scroller_sfd,
    slider |-> slider_sfd, space |-> space_sfd, speedbar |-> speedbar_sfd, string |-> string_sfd,
    texteditor |-> texteditor_sfd, timer |-> timer_sfd, translator |-> translator_sfd,
    utility |-> utility_sfd, virtual |-> virtual_sfd, wb |-> wb_sfd, window |-> window_sfd,
    socket |-> socket_fd, usergroup |-> usergroup_fd ]

(***************************************************************************)
(* The prototypes of ndk/include_h/clib and netinclude/clib: whether the function *)
(* gives a result and how many arguments come before any variable ones.    *)
(***************************************************************************)

amigaguide_protos ==
  [ LockAmigaGuideBase |-> Gives(1), UnlockAmigaGuideBase |-> Void(1),
    OpenAmigaGuideA |-> Gives(2), OpenAmigaGuide |-> GivesMore(1),
    OpenAmigaGuideAsyncA |-> Gives(2), OpenAmigaGuideAsync |-> GivesMore(1),
    CloseAmigaGuide |-> Void(1), AmigaGuideSignal |-> Gives(1), GetAmigaGuideMsg |-> Gives(1),
    ReplyAmigaGuideMsg |-> Void(1), SetAmigaGuideContextA |-> Gives(3),
    SetAmigaGuideContext |-> GivesMore(2), SendAmigaGuideContextA |-> Gives(2),
    SendAmigaGuideContext |-> GivesMore(1), SendAmigaGuideCmdA |-> Gives(3),
    SendAmigaGuideCmd |-> GivesMore(2), SetAmigaGuideAttrsA |-> Gives(2),
    SetAmigaGuideAttrs |-> GivesMore(1), GetAmigaGuideAttr |-> Gives(3), LoadXRef |-> Gives(2),
    ExpungeXRef |-> Void(0), AddAmigaGuideHostA |-> Gives(3), AddAmigaGuideHost |-> GivesMore(2),
    RemoveAmigaGuideHostA |-> Gives(2), RemoveAmigaGuideHost |-> GivesMore(1),
    GetAmigaGuideString |-> Gives(1) ]

aml_protos ==
  [ RexxDispatcher |-> Gives(1), CreateServerA |-> Gives(1), CreateServer |-> GivesMore(0),
    DisposeServer |-> Void(1), SetServerAttrsA |-> Gives(2), SetServerAttrs |-> GivesMore(1),
    GetServerAttrsA |-> Gives(2), GetServerAttrs |-> GivesMore(1), GetServerHeaders |-> Gives(2),
    GetServerArticles |-> Gives(4), CreateFolderA |-> Gives(2), CreateFolder |-> GivesMore(1),
    DisposeFolder |-> Gives(1), OpenFolderA |-> Gives(2), OpenFolder |-> GivesMore(1),
    SaveFolder |-> Gives(1), RemFolder |-> Gives(1), SetFolderAttrsA |-> Gives(2),
    SetFolderAttrs |-> GivesMore(1), GetFolderAttrsA |-> Gives(2),
    GetFolderAttrs |-> GivesMore(1), AddFolderArticle |-> Gives(3), RemFolderArticle |-> Gives(2),
    ReadFolderSpool |-> Gives(3), WriteFolderSpool |-> Gives(3), ScanFolderIndex |-> Gives(3),
    ExpungeFolder |-> Gives(3), CreateFolderIndex |-> Gives(1), SortFolderIndex |-> Gives(2),
    CreateArticleA |-> Gives(2), CreateArticle |-> GivesMore(1), DisposeArticle |-> Gives(1),
    OpenArticle |-> Gives(4), CopyArticle |-> Gives(2), SetArticleAttrsA |-> Gives(2),
    SetArticleAttrs |-> GivesMore(1), GetArticleAttrsA |-> Gives(2),
    GetArticleAttrs |-> GivesMore(1), SendArticle |-> Gives(3), AddArticlePartA |-> Gives(3),
    AddArticlePart |-> GivesMore(2), RemArticlePart |-> Void(2), GetArticlePart |-> Gives(2),
    GetArticlePartAttrsA |-> Gives(2), GetArticlePartAttrs |-> GivesMore(1),
    SetArticlePartAttrsA |-> Gives(2), SetArticlePartAttrs |-> GivesMore(1),
    CreateArticlePartA |-> Gives(2), CreateArticlePart |-> GivesMore(1),
    DisposeArticlePart |-> Void(1), GetArticlePartDataA |-> Gives(3),
    GetArticlePartData |-> GivesMore(2), SetArticlePartDataA |-> Gives(2),
    SetArticlePartData |-> GivesMore(1), CreateAddressEntryA |-> Gives(1),
    CreateAddressEntry |-> GivesMore(0), DisposeAddressEntry |-> Gives(1),
    OpenAddressEntry |-> Gives(2), SaveAddressEntry |-> Gives(2), RemAddressEntry |-> Gives(2),
    GetAddressEntryAttrsA |-> Gives(2), GetAddressEntryAttrs |-> GivesMore(1),
    SetAddressEntryAttrsA |-> Gives(2), SetAddressEntryAttrs |-> GivesMore(1),
    MatchAddressA |-> Gives(2), MatchAddress |-> GivesMore(1), FindAddressEntryA |-> Gives(2),
    FindAddressEntry |-> GivesMore(1), HuntAddressEntryA |-> Gives(2),
    HuntAddressEntry |-> GivesMore(1), ScanAddressIndex |-> Gives(4), AddCustomField |-> Gives(3),
    RemCustomField |-> Gives(2), GetCustomFieldData |-> Gives(2), CreateDecoderA |-> Gives(1),
    CreateDecoder |-> GivesMore(0), DisposeDecoder |-> Void(1), GetDecoderAttrsA |-> Gives(2),
    GetDecoderAttrs |-> GivesMore(1), SetDecoderAttrsA |-> Gives(2),
    SetDecoderAttrs |-> GivesMore(1), Decode |-> Gives(2), Encode |-> Gives(2) ]

arexx_protos ==
  [ AREXX_GetClass |-> Gives(0) ]

asl_protos ==
  [ AllocFileRequest |-> Gives(0), FreeFileRequest |-> Void(1), RequestFile |-> Gives(1),
    AllocAslRequest |-> Gives(2), AllocAslRequestTags |-> GivesMore(1),
    FreeAslRequest |-> Void(1), AslRequest |-> Gives(2), AslRequestTags |-> GivesMore(1),
    AbortAslRequest |-> Void(1), ActivateAslRequest |-> Void(1) ]

battclock_protos ==
  [ ResetBattClock |-> Void(0), ReadBattClock |-> Gives(0), WriteBattClock |-> Void(1) ]

battmem_protos ==
  [ ObtainBattSemaphore |-> Void(0), ReleaseBattSemaphore |-> Void(0), ReadBattMem |-> Gives(3),
    WriteBattMem |-> Gives(3) ]

bevel_protos ==
  [ BEVEL_GetClass |-> Gives(0) ]

bitmap_protos ==
  [ BITMAP_GetClass |-> Gives(0) ]

bullet_protos ==
  [ OpenEngine |-> Gives(0), CloseEngine |-> Void(1), SetInfoA |-> Gives(2),
    SetInfo |-> GivesMore(1), ObtainInfoA |-> Gives(2), ObtainInfo |-> GivesMore(1),
    ReleaseInfoA |-> Gives(2), ReleaseInfo |-> GivesMore(1) ]

button_protos ==
  [ BUTTON_GetClass |-> Gives(0) ]

cardres_protos ==
  [ OwnCard |-> Gives(1), ReleaseCard |-> Void(2), GetCardMap |-> Gives(0),
    BeginCardAccess |-> Gives(1), EndCardAccess |-> Gives(1), ReadCardStatus |-> Gives(0),
    CardResetRemove |-> Gives(2), CardMiscControl |-> Gives(2), CardAccessSpeed |-> Gives(2),
    CardProgramVoltage |-> Gives(2), CardResetCard |-> Gives(1), CopyTuple |-> Gives(4),
    DeviceTuple |-> Gives(2), IfAmigaXIP |-> Gives(1), CardForceChange |-> Gives(0),
    CardChangeCount |-> Gives(0), CardInterface |-> Gives(0) ]

checkbox_protos ==
  [ CHECKBOX_GetClass |-> Gives(0) ]

chooser_protos ==
  [ CHOOSER_GetClass |-> Gives(0), AllocChooserNodeA |-> Gives(1),
    AllocChooserNode |-> GivesMore(0), FreeChooserNode |-> Void(1),
    SetChooserNodeAttrsA |-> Void(2), SetChooserNodeAttrs |-> VoidMore(1),
    GetChooserNodeAttrsA |-> Void(2), GetChooserNodeAttrs |-> VoidMore(1) ]

clicktab_protos ==
  [ CLICKTAB_GetClass |-> Gives(0), AllocClickTabNodeA |-> Gives(1),
    AllocClickTabNode |-> GivesMore(0), FreeClickTabNode |-> Void(1),
    SetClickTabNodeAttrsA |-> Void(2), SetClickTabNodeAttrs |-> VoidMore(1),
    GetClickTabNodeAttrsA |-> Void(2), GetClickTabNodeAttrs |-> VoidMore(1) ]

colorwheel_protos ==
  [ ConvertHSBToRGB |-> Void(2), ConvertRGBToHSB |-> Void(2) ]

commodities_protos ==
  [ CreateCxObj |-> Gives(3), CxBroker |-> Gives(2), ActivateCxObj |-> Gives(2),
    DeleteCxObj |-> Void(1), DeleteCxObjAll |-> Void(1), CxObjType |-> Gives(1),
    CxObjError |-> Gives(1), ClearCxObjError |-> Void(1), SetCxObjPri |-> Gives(2),
    AttachCxObj |-> Void(2), EnqueueCxObj |-> Void(2), InsertCxObj |-> Void(3),
    RemoveCxObj |-> Void(1), SetTranslate |-> Void(2), SetFilter |-> Void(2),
    SetFilterIX |-> Void(2), ParseIX |-> Gives(2), CxMsgType |-> Gives(1), CxMsgData |-> Gives(1),
    CxMsgID |-> Gives(1), DivertCxMsg |-> Void(3), RouteCxMsg |-> Void(2),
    DisposeCxMsg |-> Void(1), InvertKeyMap |-> Gives(3), AddIEvents |-> Void(1),
    MatchIX |-> Gives(2) ]

console_protos ==
  [ CDInputHandler |-> Gives(2), RawKeyConvert |-> Gives(4) ]

datatypes_protos ==
  [ ObtainDataTypeA |-> Gives(3), ObtainDataType |-> GivesMore(2), ReleaseDataType |-> Void(1),
    NewDTObjectA |-> Gives(2), NewDTObject |-> GivesMore(1), DisposeDTObject |-> Void(1),
    SetDTAttrsA |-> Gives(4), SetDTAttrs |-> GivesMore(3), GetDTAttrsA |-> Gives(2),
    GetDTAttrs |-> GivesMore(1), AddDTObject |-> Gives(4), RefreshDTObjectA |-> Void(4),
    RefreshDTObjects |-> VoidMore(3), RefreshDTObject |-> VoidMore(3), DoAsyncLayout |-> Gives(2),
    DoDTMethodA |-> Gives(4), DoDTMethod |-> GivesMore(3), RemoveDTObject |-> Gives(2),
    GetDTMethods |-> Gives(1), GetDTTriggerMethods |-> Gives(1), PrintDTObjectA |-> Gives(4),
    PrintDTObject |-> GivesMore(3), ObtainDTDrawInfoA |-> Gives(2),
    ObtainDTDrawInfo |-> GivesMore(1), DrawDTObjectA |-> Gives(9), DrawDTObject |-> GivesMore(8),
    ReleaseDTDrawInfo |-> Void(2), GetDTString |-> Gives(1) ]

datebrowser_protos ==
  [ DATEBROWSER_GetClass |-> Gives(0), JulianWeekDay |-> Gives(3), JulianMonthDays |-> Gives(2),
    JulianLeapYear |-> Gives(1) ]

disk_protos ==
  [ AllocUnit |-> Gives(1), FreeUnit |-> Void(1), GetUnit |-> Gives(1), GiveUnit |-> Void(0),
    GetUnitID |-> Gives(1), ReadUnitID |-> Gives(1) ]

diskfont_protos ==
  [ OpenDiskFont |-> Gives(1), AvailFonts |-> Gives(3), NewFontContents |-> Gives(2),
    DisposeFontContents |-> Void(1), NewScaledDiskFont |-> Gives(2), GetDiskFontCtrl |-> Gives(1),
    SetDiskFontCtrlA |-> Void(1), SetDiskFontCtrl |-> VoidMore(0) ]

dos_protos1 ==
  [ Open |-> Gives(2), Close |-> Gives(1), Read |-> Gives(3), Write |-> Gives(3),
    Input |-> Gives(0), Output |-> Gives(0), Seek |-> Gives(3), DeleteFile |-> Gives(1),
    Rename |-> Gives(2), Lock |-> Gives(2), UnLock |-> Void(1), DupLock |-> Gives(1),
    Examine |-> Gives(2), ExNext |-> Gives(2), Info |-> Gives(2), CreateDir |-> Gives(1),
    CurrentDir |-> Gives(1), IoErr |-> Gives(0), CreateProc |-> Gives(4), Exit |-> Void(1),
    LoadSeg |-> Gives(1), UnLoadSeg |-> Void(1), DeviceProc |-> Gives(1), SetComment |-> Gives(2),
    SetProtection |-> Gives(2), DateStamp |-> Gives(1), Delay |-> Void(1),
    WaitForChar |-> Gives(2), ParentDir |-> Gives(1), IsInteractive |-> Gives(1),
    Execute |-> Gives(3), AllocDosObject |-> Gives(2), AllocDosObjectTagList |-> Gives(2),
    AllocDosObjectTags |-> GivesMore(1), FreeDosObject |-> Void(2), DoPkt |-> Gives(7),
    DoPkt0 |-> Gives(2), DoPkt1 |-> Gives(3), DoPkt2 |-> Gives(4), DoPkt3 |-> Gives(5),
    DoPkt4 |-> Gives(6), SendPkt |-> Void(3), WaitPkt |-> Gives(0), ReplyPkt |-> Void(3),
    AbortPkt |-> Void(2), LockRecord |-> Gives(5), LockRecords |-> Gives(2),
    UnLockRecord |-> Gives(3), UnLockRecords |-> Gives(1), SelectInput |-> Gives(1),
    SelectOutput |-> Gives(1), FGetC |-> Gives(1), FPutC |-> Gives(2), UnGetC |-> Gives(2),
    FRead |-> Gives(4), FWrite |-> Gives(4), FGets |-> Gives(3), FPuts |-> Gives(2),
    VFWritef |-> Void(3), FWritef |-> VoidMore(2), VFPrintf |-> Gives(3),
    FPrintf |-> GivesMore(2), Flush |-> Gives(1), SetVBuf |-> Gives(4),
    DupLockFromFH |-> Gives(1), OpenFromLock |-> Gives(1), ParentOfFH |-> Gives(1),
    ExamineFH |-> Gives(2), SetFileDate |-> Gives(2), NameFromLock |-> Gives(3),
    NameFromFH |-> Gives(3), SplitName |-> Gives(5), SameLock |-> Gives(2), SetMode |-> Gives(2),
    ExAll |-> Gives(5), ReadLink |-> Gives(5), MakeLink |-> Gives(3), ChangeMode |-> Gives(3),
    SetFileSize |-> Gives(3), SetIoErr |-> Gives(1), Fault |-> Gives(4), PrintFault |-> Gives(2),
    ErrorReport |-> Gives(4), Cli |-> Gives(0), CreateNewProc |-> Gives(1),
    CreateNewProcTagList |-> Gives(1), CreateNewProcTags |-> GivesMore(0),
    RunCommand |-> Gives(4), GetConsoleTask |-> Gives(0), SetConsoleTask |-> Gives(1),
    GetFileSysTask |-> Gives(0), SetFileSysTask |-> Gives(1), GetArgStr |-> Gives(0),
    SetArgStr |-> Gives(1), FindCliProc |-> Gives(1), MaxCli |-> Gives(0),
    SetCurrentDirName |-> Gives(1), GetCurrentDirName |-> Gives(2), SetProgramName |-> Gives(1),
    GetProgramName |-> Gives(2), SetPrompt |-> Gives(1), GetPrompt |-> Gives(2),
    SetProgramDir |-> Gives(1), GetProgramDir |-> Gives(0), SystemTagList |-> Gives(2),
    System |-> Gives(2), SystemTags |-> GivesMore(1), AssignLock |-> Gives(2),
    AssignLate |-> Gives(2), AssignPath |-> Gives(2), AssignAdd |-> Gives(2),
    RemAssignList |-> Gives(2), GetDeviceProc |-> Gives(2), FreeDeviceProc |-> Void(1),
    LockDosList |-> Gives(1), UnLockDosList |-> Void(1), AttemptLockDosList |-> Gives(1),
    RemDosEntry |-> Gives(1), AddDosEntry |-> Gives(1), FindDosEntry |-> Gives(3),
    NextDosEntry |-> Gives(2), MakeDosEntry |-> Gives(2), FreeDosEntry |-> Void(1),
    IsFileSystem |-> Gives(1), Format |-> Gives(3), Relabel |-> Gives(2), Inhibit |-> Gives(2),
    AddBuffers |-> Gives(2), CompareDates |-> Gives(2), DateToStr |-> Gives(1),
    StrToDate |-> Gives(1), InternalLoadSeg |-> Gives(4), InternalUnLoadSeg |-> Gives(2),
    NewLoadSeg |-> Gives(2), NewLoadSegTagList |-> Gives(2), NewLoadSegTags |-> GivesMore(1),
    AddSegment |-> Gives(3), FindSegment |-> Gives(3) ]

dos_protos2 ==
  [ RemSegment |-> Gives(1), CheckSignal |-> Gives(1), ReadArgs |-> Gives(3),
    FindArg |-> Gives(2), ReadItem |-> Gives(3), StrToLong |-> Gives(2), MatchFirst |-> Gives(2),
    MatchNext |-> Gives(1), MatchEnd |-> Void(1), ParsePattern |-> Gives(3),
    MatchPattern |-> Gives(2), FreeArgs |-> Void(1), FilePart |-> Gives(1), PathPart |-> Gives(1),
    AddPart |-> Gives(3), StartNotify |-> Gives(1), EndNotify |-> Void(1), SetVar |-> Gives(4),
    GetVar |-> Gives(4), DeleteVar |-> Gives(2), FindVar |-> Gives(2), CliInitNewcli |-> Gives(1),
    CliInitRun |-> Gives(1), WriteChars |-> Gives(2), PutStr |-> Gives(1), VPrintf |-> Gives(2),
    Printf |-> GivesMore(1), ParsePatternNoCase |-> Gives(3), MatchPatternNoCase |-> Gives(2),
    SameDevice |-> Gives(2), ExAllEnd |-> Void(5), SetOwner |-> Gives(2) ]

drawlist_protos ==
  [ DRAWLIST_GetClass |-> Gives(0) ]

exec_protos1 ==
  [ Supervisor |-> Gives(1), InitCode |-> Void(2), InitStruct |-> Void(3),
    MakeLibrary |-> Gives(5), MakeFunctions |-> Void(3), FindResident |-> Gives(1),
    InitResident |-> Gives(2), Alert |-> Void(1), Debug |-> Void(1), Disable |-> Void(0),
    Enable |-> Void(0), Forbid |-> Void(0), Permit |-> Void(0), SetSR |-> Gives(2),
    SuperState |-> Gives(0), UserState |-> Void(1), SetIntVector |-> Gives(2),
    AddIntServer |-> Void(2), RemIntServer |-> Void(2), Cause |-> Void(1), Allocate |-> Gives(2),
    Deallocate |-> Void(3), AllocMem |-> Gives(2), AllocAbs |-> Gives(2), FreeMem |-> Void(2),
    AvailMem |-> Gives(1), AllocEntry |-> Gives(1), FreeEntry |-> Void(1), Insert |-> Void(3),
    AddHead |-> Void(2), AddTail |-> Void(2), Remove |-> Void(1), RemHead |-> Gives(1),
    RemTail |-> Gives(1), Enqueue |-> Void(2), FindName |-> Gives(2), AddTask |-> Gives(3),
    RemTask |-> Void(1), FindTask |-> Gives(1), SetTaskPri |-> Gives(2), SetSignal |-> Gives(2),
    SetExcept |-> Gives(2), Wait |-> Gives(1), Signal |-> Void(2), AllocSignal |-> Gives(1),
    FreeSignal |-> Void(1), AllocTrap |-> Gives(1), FreeTrap |-> Void(1), AddPort |-> Void(1),
    RemPort |-> Void(1), PutMsg |-> Void(2), GetMsg |-> Gives(1), ReplyMsg |-> Void(1),
    WaitPort |-> Gives(1), FindPort |-> Gives(1), AddLibrary |-> Void(1), RemLibrary |-> Void(1),
    OldOpenLibrary |-> Gives(1), CloseLibrary |-> Void(1), SetFunction |-> Gives(3),
    SumLibrary |-> Void(1), AddDevice |-> Void(1), RemDevice |-> Void(1), OpenDevice |-> Gives(4),
    CloseDevice |-> Void(1), DoIO |-> Gives(1), SendIO |-> Void(1), CheckIO |-> Gives(1),
    WaitIO |-> Gives(1), AbortIO |-> Void(1), AddResource |-> Void(1), RemResource |-> Void(1),
    OpenResource |-> Gives(1), RawDoFmt |-> Gives(4), GetCC |-> Gives(0), TypeOfMem |-> Gives(1),
    Procure |-> Gives(2), Vacate |-> Void(2), OpenLibrary |-> Gives(2), InitSemaphore |-> Void(1),
    ObtainSemaphore |-> Void(1), ReleaseSemaphore |-> Void(1), AttemptSemaphore |-> Gives(1),
    ObtainSemaphoreList |-> Void(1), ReleaseSemaphoreList |-> Void(1), FindSemaphore |-> Gives(1),
    AddSemaphore |-> Void(1), RemSemaphore |-> Void(1), SumKickData |-> Gives(0),
    AddMemList |-> Void(5), CopyMem |-> Void(3), CopyMemQuick |-> Void(3),
    CacheClearU |-> Void(0), CacheClearE |-> Void(3), CacheControl |-> Gives(2),
    CreateIORequest |-> Gives(2), DeleteIORequest |-> Void(1), CreateMsgPort |-> Gives(0),
    DeleteMsgPort |-> Void(1), ObtainSemaphoreShared |-> Void(1), AllocVec |-> Gives(2),
    FreeVec |-> Void(1), CreatePool |-> Gives(3), DeletePool |-> Void(1),
    AllocPooled |-> Gives(2), FreePooled |-> Void(3), AttemptSemaphoreShared |-> Gives(1),
    ColdReboot |-> Void(0), StackSwap |-> Void(1), CachePreDMA |-> Gives(3),
    CachePostDMA |-> Void(3), AddMemHandler |-> Void(1), RemMemHandler |-> Void(1),
    ObtainQuickVector |-> Gives(1), NewMinList |-> Void(1), AVL_AddNode |-> Gives(3),
    AVL_RemNodeByAddress |-> Gives(2), AVL_RemNodeByKey |-> Gives(3), AVL_FindNode |-> Gives(3) ]

exec_protos2 ==
  [ AVL_FindPrevNodeByAddress |-> Gives(1), AVL_FindPrevNodeByKey |-> Gives(3),
    AVL_FindNextNodeByAddress |-> Gives(1), AVL_FindNextNodeByKey |-> Gives(3),
    AVL_FindFirstNode |-> Gives(1), AVL_FindLastNode |-> Gives(1) ]

expansion_protos ==
  [ AddConfigDev |-> Void(1), AddBootNode |-> Gives(4), AllocBoardMem |-> Void(1),
    AllocConfigDev |-> Gives(0), AllocExpansionMem |-> Gives(2), ConfigBoard |-> Void(2),
    ConfigChain |-> Void(1), FindConfigDev |-> Gives(3), FreeBoardMem |-> Void(2),
    FreeConfigDev |-> Void(1), FreeExpansionMem |-> Void(2), ReadExpansionByte |-> Gives(2),
    ReadExpansionRom |-> Void(2), RemConfigDev |-> Void(1), WriteExpansionByte |-> Void(3),
    ObtainConfigBinding |-> Void(0), ReleaseConfigBinding |-> Void(0),
    SetCurrentBinding |-> Void(2), GetCurrentBinding |-> Gives(2), MakeDosNode |-> Gives(1),
    AddDosNode |-> Gives(3) ]

fuelgauge_protos ==
  [ FUELGAUGE_GetClass |-> Gives(0) ]

gadtools_protos ==
  [ CreateGadgetA |-> Gives(4), CreateGadget |-> GivesMore(3), FreeGadgets |-> Void(1),
    GT_SetGadgetAttrsA |-> Void(4), GT_SetGadgetAttrs |-> VoidMore(3), CreateMenusA |-> Gives(2),
    CreateMenus |-> GivesMore(1), FreeMenus |-> Void(1), LayoutMenuItemsA |-> Gives(3),
    LayoutMenuItems |-> GivesMore(2), LayoutMenusA |-> Gives(3), LayoutMenus |-> GivesMore(2),
    GT_GetIMsg |-> Gives(1), GT_ReplyIMsg |-> Void(1), GT_RefreshWindow |-> Void(2),
    GT_BeginRefresh |-> Void(1), GT_EndRefresh |-> Void(2), GT_FilterIMsg |-> Gives(1),
    GT_PostFilterIMsg |-> Gives(1), CreateContext |-> Gives(1), DrawBevelBoxA |-> Void(6),
    DrawBevelBox |-> VoidMore(5), GetVisualInfoA |-> Gives(2), GetVisualInfo |-> GivesMore(1),
    FreeVisualInfo |-> Void(1), GT_GetGadgetAttrsA |-> Gives(4),
    GT_GetGadgetAttrs |-> GivesMore(3) ]

getfile_protos ==
  [ GETFILE_GetClass |-> Gives(0) ]

getfont_protos ==
  [ GETFONT_GetClass |-> Gives(0) ]

getscreenmode_protos ==
  [ GETSCREENMODE_GetClass |-> Gives(0) ]

glyph_protos ==
  [ GLYPH_GetClass |-> Gives(0) ]

graphics_protos1 ==
  [ BltBitMap |-> Gives(11), BltTemplate |-> Void(8), ClearEOL |-> Void(1),
    ClearScreen |-> Void(1), TextLength |-> Gives(3), Text |-> Gives(3), SetFont |-> Gives(2),
    OpenFont |-> Gives(1), CloseFont |-> Void(1), AskSoftStyle |-> Gives(1),
    SetSoftStyle |-> Gives(3), AddBob |-> Void(2), AddVSprite |-> Void(2),
    DoCollision |-> Void(1), DrawGList |-> Void(2), InitGels |-> Void(3), InitMasks |-> Void(1),
    RemIBob |-> Void(3), RemVSprite |-> Void(1), SetCollision |-> Void(3), SortGList |-> Void(1),
    AddAnimOb |-> Void(3), Animate |-> Void(2), GetGBuffers |-> Gives(3), InitGMasks |-> Void(1),
    DrawEllipse |-> Void(5), AreaEllipse |-> Gives(5), LoadRGB4 |-> Void(3),
    InitRastPort |-> Void(1), InitVPort |-> Void(1), MrgCop |-> Gives(1), MakeVPort |-> Gives(2),
    LoadView |-> Void(1), WaitBlit |-> Void(0), SetRast |-> Void(2), Move |-> Void(3),
    Draw |-> Void(3), AreaMove |-> Gives(3), AreaDraw |-> Gives(3), AreaEnd |-> Gives(1),
    WaitTOF |-> Void(0), QBlit |-> Void(1), InitArea |-> Void(3), SetRGB4 |-> Void(5),
    QBSBlit |-> Void(1), BltClear |-> Void(3), RectFill |-> Void(5), BltPattern |-> Void(7),
    ReadPixel |-> Gives(3), WritePixel |-> Gives(3), Flood |-> Gives(4), PolyDraw |-> Void(3),
    SetAPen |-> Void(2), SetBPen |-> Void(2), SetDrMd |-> Void(2), InitView |-> Void(1),
    CBump |-> Void(1), CMove |-> Void(3), CWait |-> Void(3), VBeamPos |-> Gives(0),
    InitBitMap |-> Void(4), ScrollRaster |-> Void(7), WaitBOVP |-> Void(1),
    GetSprite |-> Gives(2), FreeSprite |-> Void(1), ChangeSprite |-> Void(3),
    MoveSprite |-> Void(4), LockLayerRom |-> Void(1), UnlockLayerRom |-> Void(1),
    SyncSBitMap |-> Void(1), CopySBitMap |-> Void(1), OwnBlitter |-> Void(0),
    DisownBlitter |-> Void(0), InitTmpRas |-> Gives(3), AskFont |-> Void(2), AddFont |-> Void(1),
    RemFont |-> Void(1), AllocRaster |-> Gives(2), FreeRaster |-> Void(3),
    AndRectRegion |-> Void(2), OrRectRegion |-> Gives(2), NewRegion |-> Gives(0),
    ClearRectRegion |-> Gives(2), ClearRegion |-> Void(1), DisposeRegion |-> Void(1),
    FreeVPortCopLists |-> Void(1), FreeCopList |-> Void(1), ClipBlit |-> Void(9),
    XorRectRegion |-> Gives(2), FreeCprList |-> Void(1), GetColorMap |-> Gives(1),
    FreeColorMap |-> Void(1), GetRGB4 |-> Gives(2), ScrollVPort |-> Void(1),
    UCopperListInit |-> Gives(2), FreeGBuffers |-> Void(3), BltBitMapRastPort |-> Void(9),
    OrRegionRegion |-> Gives(2), XorRegionRegion |-> Gives(2), AndRegionRegion |-> Gives(2),
    SetRGB4CM |-> Void(5), BltMaskBitMapRastPort |-> Void(10), AttemptLockLayerRom |-> Gives(1),
    GfxNew |-> Gives(1), GfxFree |-> Void(1), GfxAssociate |-> Void(2), BitMapScale |-> Void(1),
    ScalerDiv |-> Gives(3), TextExtent |-> Gives(4), TextFit |-> Gives(8), GfxLookUp |-> Gives(1),
    VideoControl |-> Gives(2), VideoControlTags |-> GivesMore(1), OpenMonitor |-> Gives(2),
    CloseMonitor |-> Gives(1), FindDisplayInfo |-> Gives(1), NextDisplayInfo |-> Gives(1),
    GetDisplayInfoData |-> Gives(5), FontExtent |-> Void(2), ReadPixelLine8 |-> Gives(6),
    WritePixelLine8 |-> Gives(6), ReadPixelArray8 |-> Gives(7), WritePixelArray8 |-> Gives(7),
    GetVPModeID |-> Gives(1), ModeNotAvailable |-> Gives(1), EraseRect |-> Void(5),
    ExtendFont |-> Gives(2), ExtendFontTags |-> GivesMore(1), StripFont |-> Void(1),
    CalcIVG |-> Gives(2), AttachPalExtra |-> Gives(2), ObtainBestPenA |-> Gives(5),
    ObtainBestPen |-> GivesMore(4), SetRGB32 |-> Void(5), GetAPen |-> Gives(1),
    GetBPen |-> Gives(1), GetDrMd |-> Gives(1), GetOutlinePen |-> Gives(1), LoadRGB32 |-> Void(2),
    SetChipRev |-> Gives(1), SetABPenDrMd |-> Void(4), GetRGB32 |-> Void(4),
    AllocBitMap |-> Gives(5), FreeBitMap |-> Void(1), GetExtSpriteA |-> Gives(2) ]

graphics_protos2 ==
  [ GetExtSprite |-> GivesMore(1), CoerceMode |-> Gives(3), ChangeVPBitMap |-> Void(3),
    ReleasePen |-> Void(2), ObtainPen |-> Gives(6), GetBitMapAttr |-> Gives(2),
    AllocDBufInfo |-> Gives(1), FreeDBufInfo |-> Void(1), SetOutlinePen |-> Gives(2),
    SetWriteMask |-> Gives(2), SetMaxPen |-> Void(2), SetRGB32CM |-> Void(5),
    ScrollRasterBF |-> Void(7), FindColor |-> Gives(5), AllocSpriteDataA |-> Gives(2),
    AllocSpriteData |-> GivesMore(1), ChangeExtSpriteA |-> Gives(4),
    ChangeExtSprite |-> GivesMore(3), FreeSpriteData |-> Void(1), SetRPAttrsA |-> Void(2),
    SetRPAttrs |-> VoidMore(1), GetRPAttrsA |-> Void(2), GetRPAttrs |-> VoidMore(1),
    BestModeIDA |-> Gives(1), BestModeID |-> GivesMore(0), WriteChunkyPixels |-> Void(7) ]

icon_protos ==
  [ FreeFreeList |-> Void(1), AddFreeList |-> Gives(3), GetDiskObject |-> Gives(1),
    PutDiskObject |-> Gives(2), FreeDiskObject |-> Void(1), FindToolType |-> Gives(2),
    MatchToolValue |-> Gives(2), BumpRevision |-> Gives(2), GetDefDiskObject |-> Gives(1),
    PutDefDiskObject |-> Gives(1), GetDiskObjectNew |-> Gives(1), DeleteDiskObject |-> Gives(1),
    DupDiskObjectA |-> Gives(2), DupDiskObject |-> GivesMore(1), IconControlA |-> Gives(2),
    IconControl |-> GivesMore(1), DrawIconStateA |-> Void(7), DrawIconState |-> VoidMore(6),
    GetIconRectangleA |-> Gives(5), GetIconRectangle |-> GivesMore(4), NewDiskObject |-> Gives(1),
    GetIconTagList |-> Gives(2), GetIconTags |-> GivesMore(1), PutIconTagList |-> Gives(3),
    PutIconTags |-> GivesMore(2), LayoutIconA |-> Gives(3), LayoutIcon |-> GivesMore(2),
    ChangeToSelectedIconColor |-> Void(1) ]

iffparse_protos ==
  [ AllocIFF |-> Gives(0), OpenIFF |-> Gives(2), ParseIFF |-> Gives(2), CloseIFF |-> Void(1),
    FreeIFF |-> Void(1), ReadChunkBytes |-> Gives(3), WriteChunkBytes |-> Gives(3),
    ReadChunkRecords |-> Gives(4), WriteChunkRecords |-> Gives(4), PushChunk |-> Gives(4),
    PopChunk |-> Gives(1), EntryHandler |-> Gives(6), ExitHandler |-> Gives(6),
    PropChunk |-> Gives(3), PropChunks |-> Gives(3), StopChunk |-> Gives(3),
    StopChunks |-> Gives(3), CollectionChunk |-> Gives(3), CollectionChunks |-> Gives(3),
    StopOnExit |-> Gives(3), FindProp |-> Gives(3), FindCollection |-> Gives(3),
    FindPropContext |-> Gives(1), CurrentChunk |-> Gives(1), ParentChunk |-> Gives(1),
    AllocLocalItem |-> Gives(4), LocalItemData |-> Gives(1), SetLocalItemPurge |-> Void(2),
    FreeLocalItem |-> Void(1), FindLocalItem |-> Gives(4), StoreLocalItem |-> Gives(3),
    StoreItemInContext |-> Void(3), InitIFF |-> Void(3), InitIFFasDOS |-> Void(1),
    InitIFFasClip |-> Void(1), OpenClipboard |-> Gives(1), CloseClipboard |-> Void(1),
    GoodID |-> Gives(1), GoodType |-> Gives(1), IDtoStr |-> Gives(2) ]

input_protos ==
  [ PeekQualifier |-> Gives(0) ]

integer_protos ==
  [ INTEGER_GetClass |-> Gives(0) ]

intuition_protos1 ==
  [ OpenIntuition |-> Void(0), Intuition |-> Void(1), AddGadget |-> Gives(3),
    ClearDMRequest |-> Gives(1), ClearMenuStrip |-> Void(1), ClearPointer |-> Void(1),
    CloseScreen |-> Gives(1), CloseWindow |-> Void(1), CloseWorkBench |-> Gives(0),
    CurrentTime |-> Void(2), DisplayAlert |-> Gives(3), DisplayBeep |-> Void(1),
    DoubleClick |-> Gives(4), DrawBorder |-> Void(4), DrawImage |-> Void(4),
    EndRequest |-> Void(2), GetDefPrefs |-> Gives(2), GetPrefs |-> Gives(2),
    InitRequester |-> Void(1), ItemAddress |-> Gives(2), ModifyIDCMP |-> Gives(2),
    ModifyProp |-> Void(8), MoveScreen |-> Void(3), MoveWindow |-> Void(3), OffGadget |-> Void(3),
    OffMenu |-> Void(2), OnGadget |-> Void(3), OnMenu |-> Void(2), OpenScreen |-> Gives(1),
    OpenWindow |-> Gives(1), OpenWorkBench |-> Gives(0), PrintIText |-> Void(4),
    RefreshGadgets |-> Void(3), RemoveGadget |-> Gives(2), ReportMouse |-> Void(2),
    ReportMouse1 |-> Void(2), Request |-> Gives(2), ScreenToBack |-> Void(1),
    ScreenToFront |-> Void(1), SetDMRequest |-> Gives(2), SetMenuStrip |-> Gives(2),
    SetPointer |-> Void(6), SetWindowTitles |-> Void(3), ShowTitle |-> Void(2),
    SizeWindow |-> Void(3), ViewAddress |-> Gives(0), ViewPortAddress |-> Gives(1),
    WindowToBack |-> Void(1), WindowToFront |-> Void(1), WindowLimits |-> Gives(5),
    SetPrefs |-> Gives(3), IntuiTextLength |-> Gives(1), WBenchToBack |-> Gives(0),
    WBenchToFront |-> Gives(0), AutoRequest |-> Gives(8), BeginRefresh |-> Void(1),
    BuildSysRequest |-> Gives(7), EndRefresh |-> Void(2), FreeSysRequest |-> Void(1),
    MakeScreen |-> Gives(1), RemakeDisplay |-> Gives(0), RethinkDisplay |-> Gives(0),
    AllocRemember |-> Gives(3), FreeRemember |-> Void(2), LockIBase |-> Gives(1),
    UnlockIBase |-> Void(1), GetScreenData |-> Gives(4), RefreshGList |-> Void(4),
    AddGList |-> Gives(5), RemoveGList |-> Gives(3), ActivateWindow |-> Void(1),
    RefreshWindowFrame |-> Void(1), ActivateGadget |-> Gives(3), NewModifyProp |-> Void(9),
    QueryOverscan |-> Gives(3), MoveWindowInFrontOf |-> Void(2), ChangeWindowBox |-> Void(5),
    SetEditHook |-> Gives(1), SetMouseQueue |-> Gives(2), ZipWindow |-> Void(1),
    LockPubScreen |-> Gives(1), UnlockPubScreen |-> Void(2), LockPubScreenList |-> Gives(0),
    UnlockPubScreenList |-> Void(0), NextPubScreen |-> Gives(2), SetDefaultPubScreen |-> Void(1),
    SetPubScreenModes |-> Gives(1), PubScreenStatus |-> Gives(2), ObtainGIRPort |-> Gives(1),
    ReleaseGIRPort |-> Void(1), GadgetMouse |-> Void(3), GetDefaultPubScreen |-> Void(1),
    EasyRequestArgs |-> Gives(4), EasyRequest |-> GivesMore(3), BuildEasyRequestArgs |-> Gives(4),
    BuildEasyRequest |-> GivesMore(3), SysReqHandler |-> Gives(3), OpenWindowTagList |-> Gives(2),
    OpenWindowTags |-> GivesMore(1), OpenScreenTagList |-> Gives(2),
    OpenScreenTags |-> GivesMore(1), DrawImageState |-> Void(6), PointInImage |-> Gives(2),
    EraseImage |-> Void(4), NewObjectA |-> Gives(3), NewObject |-> GivesMore(2),
    DisposeObject |-> Void(1), SetAttrsA |-> Gives(2), SetAttrs |-> GivesMore(1),
    GetAttr |-> Gives(3), SetGadgetAttrsA |-> Gives(4), SetGadgetAttrs |-> GivesMore(3),
    NextObject |-> Gives(1), MakeClass |-> Gives(5), AddClass |-> Void(1),
    GetScreenDrawInfo |-> Gives(1), FreeScreenDrawInfo |-> Void(2), ResetMenuStrip |-> Gives(2),
    RemoveClass |-> Void(1), FreeClass |-> Gives(1), AllocScreenBuffer |-> Gives(3),
    FreeScreenBuffer |-> Void(2) ]

intuition_protos2 ==
  [ ChangeScreenBuffer |-> Gives(2), ScreenDepth |-> Void(3), ScreenPosition |-> Void(6),
    ScrollWindowRaster |-> Void(7), LendMenus |-> Void(2), DoGadgetMethodA |-> Gives(4),
    DoGadgetMethod |-> GivesMore(3), SetWindowPointerA |-> Void(2),
    SetWindowPointer |-> VoidMore(1), TimedDisplayAlert |-> Gives(4), HelpControl |-> Void(2) ]

keymap_protos ==
  [ SetKeyMapDefault |-> Void(1), AskKeyMapDefault |-> Gives(0), MapRawKey |-> Gives(4),
    MapANSI |-> Gives(5) ]

label_protos ==
  [ LABEL_GetClass |-> Gives(0) ]

layers_protos ==
  [ InitLayers |-> Void(1), CreateUpfrontLayer |-> Gives(8), CreateBehindLayer |-> Gives(8),
    UpfrontLayer |-> Gives(2), BehindLayer |-> Gives(2), MoveLayer |-> Gives(4),
    SizeLayer |-> Gives(4), ScrollLayer |-> Void(4), BeginUpdate |-> Gives(1),
    EndUpdate |-> Void(2), DeleteLayer |-> Gives(2), LockLayer |-> Void(2),
    UnlockLayer |-> Void(1), LockLayers |-> Void(1), UnlockLayers |-> Void(1),
    LockLayerInfo |-> Void(1), SwapBitsRastPortClipRect |-> Void(2), WhichLayer |-> Gives(3),
    UnlockLayerInfo |-> Void(1), NewLayerInfo |-> Gives(0), DisposeLayerInfo |-> Void(1),
    FattenLayerInfo |-> Gives(1), ThinLayerInfo |-> Void(1), MoveLayerInFrontOf |-> Gives(2),
    InstallClipRegion |-> Gives(2), MoveSizeLayer |-> Gives(5),
    CreateUpfrontHookLayer |-> Gives(9), CreateBehindHookLayer |-> Gives(9),
    InstallLayerHook |-> Gives(2), InstallLayerInfoHook |-> Gives(2), SortLayerCR |-> Void(3),
    DoHookClipRects |-> Void(3) ]

layout_protos ==
  [ LAYOUT_GetClass |-> Gives(0), ActivateLayoutGadget |-> Gives(4),
    FlushLayoutDomainCache |-> Void(1), RethinkLayout |-> Gives(4), LayoutLimits |-> Void(4),
    PAGE_GetClass |-> Gives(0), SetPageGadgetAttrsA |-> Gives(5),
    SetPageGadgetAttrs |-> GivesMore(4), RefreshPageGadget |-> Void(4) ]

listbrowser_protos ==
  [ LISTBROWSER_GetClass |-> Gives(0), AllocListBrowserNodeA |-> Gives(2),
    AllocListBrowserNode |-> GivesMore(1), FreeListBrowserNode |-> Void(1),
    SetListBrowserNodeAttrsA |-> Void(2), SetListBrowserNodeAttrs |-> VoidMore(1),
    GetListBrowserNodeAttrsA |-> Void(2), GetListBrowserNodeAttrs |-> VoidMore(1),
    ListBrowserSelectAll |-> Void(1), ShowListBrowserNodeChildren |-> Void(2),
    HideListBrowserNodeChildren |-> Void(1), ShowAllListBrowserChildren |-> Void(1),
    HideAllListBrowserChildren |-> Void(1), FreeListBrowserList |-> Void(1),
    AllocLBColumnInfoA |-> Gives(2), AllocLBColumnInfo |-> GivesMore(1),
    SetLBColumnInfoAttrsA |-> Gives(2), SetLBColumnInfoAttrs |-> GivesMore(1),
    GetLBColumnInfoAttrsA |-> Gives(2), GetLBColumnInfoAttrs |-> GivesMore(1),
    FreeLBColumnInfo |-> Void(1), ListBrowserClearAll |-> Void(1) ]

locale_protos ==
  [ CloseCatalog |-> Void(1), CloseLocale |-> Void(1), ConvToLower |-> Gives(2),
    ConvToUpper |-> Gives(2), FormatDate |-> Void(4), FormatString |-> Gives(4),
    GetCatalogStr |-> Gives(3), GetLocaleStr |-> Gives(2), IsAlNum |-> Gives(2),
    IsAlpha |-> Gives(2), IsCntrl |-> Gives(2), IsDigit |-> Gives(2), IsGraph |-> Gives(2),
    IsLower |-> Gives(2), IsPrint |-> Gives(2), IsPunct |-> Gives(2), IsSpace |-> Gives(2),
    IsUpper |-> Gives(2), IsXDigit |-> Gives(2), OpenCatalogA |-> Gives(3),
    OpenCatalog |-> GivesMore(2), OpenLocale |-> Gives(1), ParseDate |-> Gives(4),
    StrConvert |-> Gives(5), StrnCmp |-> Gives(5) ]

lowlevel_protos ==
  [ ReadJoyPort |-> Gives(1), GetLanguageSelection |-> Gives(0), GetKey |-> Gives(0),
    QueryKeys |-> Void(2), AddKBInt |-> Gives(2), RemKBInt |-> Void(1),
    SystemControlA |-> Gives(1), SystemControl |-> GivesMore(0), AddTimerInt |-> Gives(2),
    RemTimerInt |-> Void(1), StopTimerInt |-> Void(1), StartTimerInt |-> Void(3),
    ElapsedTime |-> Gives(1), AddVBlankInt |-> Gives(2), RemVBlankInt |-> Void(1),
    SetJoyPortAttrsA |-> Gives(2), SetJoyPortAttrs |-> GivesMore(1) ]

mathffp_protos ==
  [ SPFix |-> Gives(1), SPFlt |-> Gives(1), SPCmp |-> Gives(2), SPTst |-> Gives(1),
    SPAbs |-> Gives(1), SPNeg |-> Gives(1), SPAdd |-> Gives(2), SPSub |-> Gives(2),
    SPMul |-> Gives(2), SPDiv |-> Gives(2), SPFloor |-> Gives(1), SPCeil |-> Gives(1) ]

mathieeedoubbas_protos ==
  [ IEEEDPFix |-> Gives(1), IEEEDPFlt |-> Gives(1), IEEEDPCmp |-> Gives(2),
    IEEEDPTst |-> Gives(1), IEEEDPAbs |-> Gives(1), IEEEDPNeg |-> Gives(1),
    IEEEDPAdd |-> Gives(2), IEEEDPSub |-> Gives(2), IEEEDPMul |-> Gives(2),
    IEEEDPDiv |-> Gives(2), IEEEDPFloor |-> Gives(1), IEEEDPCeil |-> Gives(1) ]

mathieeedoubtrans_protos ==
  [ IEEEDPAtan |-> Gives(1), IEEEDPSin |-> Gives(1), IEEEDPCos |-> Gives(1),
    IEEEDPTan |-> Gives(1), IEEEDPSincos |-> Gives(2), IEEEDPSinh |-> Gives(1),
    IEEEDPCosh |-> Gives(1), IEEEDPTanh |-> Gives(1), IEEEDPExp |-> Gives(1),
    IEEEDPLog |-> Gives(1), IEEEDPPow |-> Gives(2), IEEEDPSqrt |-> Gives(1),
    IEEEDPTieee |-> Gives(1), IEEEDPFieee |-> Gives(1), IEEEDPAsin |-> Gives(1),
    IEEEDPAcos |-> Gives(1), IEEEDPLog10 |-> Gives(1) ]

mathieeesingbas_protos ==
  [ IEEESPFix |-> Gives(1), IEEESPFlt |-> Gives(1), IEEESPCmp |-> Gives(2),
    IEEESPTst |-> Gives(1), IEEESPAbs |-> Gives(1), IEEESPNeg |-> Gives(1),
    IEEESPAdd |-> Gives(2), IEEESPSub |-> Gives(2), IEEESPMul |-> Gives(2),
    IEEESPDiv |-> Gives(2), IEEESPFloor |-> Gives(1), IEEESPCeil |-> Gives(1) ]

mathieeesingtrans_protos ==
  [ IEEESPAtan |-> Gives(1), IEEESPSin |-> Gives(1), IEEESPCos |-> Gives(1),
    IEEESPTan |-> Gives(1), IEEESPSincos |-> Gives(2), IEEESPSinh |-> Gives(1),
    IEEESPCosh |-> Gives(1), IEEESPTanh |-> Gives(1), IEEESPExp |-> Gives(1),
    IEEESPLog |-> Gives(1), IEEESPPow |-> Gives(2), IEEESPSqrt |-> Gives(1),
    IEEESPTieee |-> Gives(1), IEEESPFieee |-> Gives(1), IEEESPAsin |-> Gives(1),
    IEEESPAcos |-> Gives(1), IEEESPLog10 |-> Gives(1) ]

mathtrans_protos ==
  [ SPAtan |-> Gives(1), SPSin |-> Gives(1), SPCos |-> Gives(1), SPTan |-> Gives(1),
    SPSincos |-> Gives(2), SPSinh |-> Gives(1), SPCosh |-> Gives(1), SPTanh |-> Gives(1),
    SPExp |-> Gives(1), SPLog |-> Gives(1), SPPow |-> Gives(2), SPSqrt |-> Gives(1),
    SPTieee |-> Gives(1), SPFieee |-> Gives(1), SPAsin |-> Gives(1), SPAcos |-> Gives(1),
    SPLog10 |-> Gives(1) ]

misc_protos ==
  [ AllocMiscResource |-> Gives(2), FreeMiscResource |-> Void(1) ]

nonvolatile_protos ==
  [ GetCopyNV |-> Gives(3), FreeNVData |-> Void(1), StoreNV |-> Gives(5), DeleteNV |-> Gives(3),
    GetNVInfo |-> Gives(1), GetNVList |-> Gives(2), SetNVProtection |-> Gives(4) ]

palette_protos ==
  [ PALETTE_GetClass |-> Gives(0) ]

penmap_protos ==
  [ PENMAP_GetClass |-> Gives(0) ]

popcycle_protos ==
  [ POPCYCLE_GetClass |-> Gives(0), AllocPopCycleNodeA |-> Gives(1),
    AllocPopCycleNode |-> GivesMore(0), FreePopCycleNode |-> Void(1),
    SetPopCycleNodeAttrsA |-> Void(2), SetPopCycleNodeAttrs |-> VoidMore(1),
    GetPopCycleNodeAttrsA |-> Void(2), GetPopCycleNodeAttrs |-> VoidMore(1) ]

potgo_protos ==
  [ AllocPotBits |-> Gives(1), FreePotBits |-> Void(1), WritePotgo |-> Void(2) ]

radiobutton_protos ==
  [ RADIOBUTTON_GetClass |-> Gives(0), AllocRadioButtonNodeA |-> Gives(2),
    AllocRadioButtonNode |-> GivesMore(1), FreeRadioButtonNode |-> Void(1),
    SetRadioButtonNodeAttrsA |-> Void(2), SetRadioButtonNodeAttrs |-> VoidMore(1),
    GetRadioButtonNodeAttrsA |-> Void(2), GetRadioButtonNodeAttrs |-> VoidMore(1) ]

ramdrive_protos ==
  [ KillRAD0 |-> Gives(0), KillRAD |-> Gives(1) ]

realtime_protos ==
  [ LockRealTime |-> Gives(1), UnlockRealTime |-> Void(1), CreatePlayerA |-> Gives(1),
    CreatePlayer |-> GivesMore(0), DeletePlayer |-> Void(1), SetPlayerAttrsA |-> Gives(2),
    SetPlayerAttrs |-> GivesMore(1), SetConductorState |-> Gives(3), ExternalSync |-> Gives(3),
    NextConductor |-> Gives(1), FindConductor |-> Gives(1), GetPlayerAttrsA |-> Gives(2),
    GetPlayerAttrs |-> GivesMore(1) ]

requester_protos ==
  [ REQUESTER_GetClass |-> Gives(0) ]

resource_protos ==
  [ RL_OpenResource |-> Gives(3), RL_CloseResource |-> Void(1), RL_NewObjectA |-> Gives(3),
    RL_NewObject |-> GivesMore(2), RL_DisposeObject |-> Void(2), RL_NewGroupA |-> Gives(3),
    RL_NewGroup |-> GivesMore(2), RL_DisposeGroup |-> Void(2), RL_GetObjectArray |-> Gives(3),
    RL_SetResourceScreen |-> Gives(2) ]

rexxsyslib_protos ==
  [ CreateArgstring |-> Gives(2), DeleteArgstring |-> Void(1), LengthArgstring |-> Gives(1),
    CreateRexxMsg |-> Gives(3), DeleteRexxMsg |-> Void(1), ClearRexxMsg |-> Void(2),
    FillRexxMsg |-> Gives(3), IsRexxMsg |-> Gives(1), LockRexxBase |-> Void(1),
    UnlockRexxBase |-> Void(1) ]

scroller_protos ==
  [ SCROLLER_GetClass |-> Gives(0) ]

slider_protos ==
  [ SLIDER_GetClass |-> Gives(0) ]

space_protos ==
  [ SPACE_GetClass |-> Gives(0) ]

speedbar_protos ==
  [ SPEEDBAR_GetClass |-> Gives(0), AllocSpeedButtonNodeA |-> Gives(2),
    AllocSpeedButtonNode |-> GivesMore(1), FreeSpeedButtonNode |-> Void(1),
    SetSpeedButtonNodeAttrsA |-> Void(2), SetSpeedButtonNodeAttrs |-> VoidMore(1),
    GetSpeedButtonNodeAttrsA |-> Void(2), GetSpeedButtonNodeAttrs |-> VoidMore(1) ]

string_protos ==
  [ STRING_GetClass |-> Gives(0) ]

texteditor_protos ==
  [ TEXTEDITOR_GetClass |-> Gives(0) ]

timer_protos ==
  [ AddTime |-> Void(2), SubTime |-> Void(2), CmpTime |-> Gives(2), ReadEClock |-> Gives(1),
    GetSysTime |-> Void(1) ]

translator_protos ==
  [ Translate |-> Gives(4) ]

utility_protos ==
  [ FindTagItem |-> Gives(2), GetTagData |-> Gives(3), PackBoolTags |-> Gives(3),
    NextTagItem |-> Gives(1), FilterTagChanges |-> Void(3), MapTags |-> Void(3),
    AllocateTagItems |-> Gives(1), CloneTagItems |-> Gives(1), FreeTagItems |-> Void(1),
    RefreshTagItemClones |-> Void(2), TagInArray |-> Gives(2), FilterTagItems |-> Gives(3),
    CallHookPkt |-> Gives(3), Amiga2Date |-> Void(2), Date2Amiga |-> Gives(1),
    CheckDate |-> Gives(1), SMult32 |-> Gives(2), UMult32 |-> Gives(2), SDivMod32 |-> Gives(2),
    UDivMod32 |-> Gives(2), Stricmp |-> Gives(2), Strnicmp |-> Gives(3), ToUpper |-> Gives(1),
    ToLower |-> Gives(1), ApplyTagChanges |-> Void(2), SMult64 |-> Gives(2), UMult64 |-> Gives(2),
    PackStructureTags |-> Gives(3), UnpackStructureTags |-> Gives(3), AddNamedObject |-> Gives(2),
    AllocNamedObjectA |-> Gives(2), AllocNamedObject |-> GivesMore(1),
    AttemptRemNamedObject |-> Gives(1), FindNamedObject |-> Gives(3), FreeNamedObject |-> Void(1),
    NamedObjectName |-> Gives(1), ReleaseNamedObject |-> Void(1), RemNamedObject |-> Void(2),
    GetUniqueID |-> Gives(0) ]

virtual_protos ==
  [ VIRTUAL_GetClass |-> Gives(0), RefreshVirtualGadget |-> Void(4),
    RethinkVirtualSize |-> Gives(5) ]

wb_protos ==
  [ AddAppWindowA |-> Gives(5), AddAppWindow |-> GivesMore(4), RemoveAppWindow |-> Gives(1),
    AddAppIconA |-> Gives(7), AddAppIcon |-> GivesMore(6), RemoveAppIcon |-> Gives(1),
    AddAppMenuItemA |-> Gives(5), AddAppMenuItem |-> GivesMore(4), RemoveAppMenuItem |-> Gives(1),
    WBInfo |-> Void(3), OpenWorkbenchObjectA |-> Gives(2), OpenWorkbenchObject |-> GivesMore(1),
    CloseWorkbenchObjectA |-> Gives(2), CloseWorkbenchObject |-> GivesMore(1),
    WorkbenchControlA |-> Gives(2), WorkbenchControl |-> GivesMore(1),
    AddAppWindowDropZoneA |-> Gives(4), AddAppWindowDropZone |-> GivesMore(3),
    RemoveAppWindowDropZone |-> Gives(2), ChangeWorkbenchSelectionA |-> Gives(3),
    ChangeWorkbenchSelection |-> GivesMore(2), MakeWorkbenchObjectVisibleA |-> Gives(2),
    MakeWorkbenchObjectVisible |-> GivesMore(1) ]

window_protos ==
  [ WINDOW_GetClass |-> Gives(0) ]

socket_protos ==
  [ socket |-> Gives(3), bind |-> Gives(3), listen |-> Gives(2), accept |-> Gives(3),
    connect |-> Gives(3), send |-> Gives(4), sendto |-> Gives(6), sendmsg |-> Gives(3),
    recv |-> Gives(4), recvfrom |-> Gives(6), recvmsg |-> Gives(3), shutdown |-> Gives(2),
    setsockopt |-> Gives(5), getsockopt |-> Gives(5), getsockname |-> Gives(3),
    getpeername |-> Gives(3), IoctlSocket |-> Gives(3), CloseSocket |-> Gives(1),
    WaitSelect |-> Gives(6), Dup2Socket |-> Gives(2), getdtablesize |-> Gives(0),
    SetSocketSignals |-> Void(3), SetErrnoPtr |-> Gives(2), SocketBaseTagList |-> Gives(1),
    SocketBaseTags |-> GivesMore(0), GetSocketEvents |-> Gives(1), Errno |-> Gives(0),
    gethostname |-> Gives(2), gethostid |-> Gives(0), ObtainSocket |-> Gives(4),
    ReleaseSocket |-> Gives(2), ReleaseCopyOfSocket |-> Gives(2), inet_addr |-> Gives(1),
    inet_network |-> Gives(1), Inet_NtoA |-> Gives(1), Inet_MakeAddr |-> Gives(2),
    Inet_LnaOf |-> Gives(1), Inet_NetOf |-> Gives(1), gethostbyname |-> Gives(1),
    gethostbyaddr |-> Gives(3), getnetbyname |-> Gives(1), getnetbyaddr |-> Gives(2),
    getservbyname |-> Gives(2), getservbyport |-> Gives(2), getprotobyname |-> Gives(1),
    getprotobynumber |-> Gives(1), vsyslog |-> Void(3), syslog |-> VoidMore(2) ]

usergroup_protos ==
  [ ug_SetupContextTagList |-> Gives(2), ug_SetupContextTags |-> GivesMore(1),
    ug_GetErr |-> Gives(0), ug_StrError |-> Gives(1), getuid |-> Gives(0), geteuid |-> Gives(0),
    setreuid |-> Gives(2), setuid |-> Gives(1), getgid |-> Gives(0), getegid |-> Gives(0),
    setregid |-> Gives(2), setgid |-> Gives(1), getgroups |-> Gives(2), setgroups |-> Gives(2),
    initgroups |-> Gives(2), getpwnam |-> Gives(1), getpwuid |-> Gives(1), setpwent |-> Void(0),
    getpwent |-> Gives(0), endpwent |-> Void(0), getgrnam |-> Gives(1), getgrgid |-> Gives(1),
    setgrent |-> Void(0), getgrent |-> Gives(0), endgrent |-> Void(0), crypt |-> Gives(2),
    ug_GetSalt |-> Gives(3), getpass |-> Gives(1), umask |-> Gives(1), getumask |-> Gives(0),
    setsid |-> Gives(0), getpgrp |-> Gives(0), getlogin |-> Gives(0), setlogin |-> Gives(1),
    setutent |-> Void(0), getutent |-> Gives(0), endutent |-> Void(0), getlastlog |-> Gives(1),
    setlastlog |-> Gives(3), getcredentials |-> Gives(1) ]

\* The prototypes of each library.
Protos ==
  [ amigaguide |-> amigaguide_protos, aml |-> aml_protos, arexx |-> arexx_protos,
    asl |-> asl_protos, battclock |-> battclock_protos, battmem |-> battmem_protos,
    bevel |-> bevel_protos, bitmap |-> bitmap_protos, bullet |-> bullet_protos,
    button |-> button_protos, cardres |-> cardres_protos, checkbox |-> checkbox_protos,
    chooser |-> chooser_protos, clicktab |-> clicktab_protos, colorwheel |-> colorwheel_protos,
    commodities |-> commodities_protos, console |-> console_protos,
    datatypes |-> datatypes_protos, datebrowser |-> datebrowser_protos, disk |-> disk_protos,
    diskfont |-> diskfont_protos, dos |-> dos_protos1 @@ dos_protos2,
    drawlist |-> drawlist_protos, exec |-> exec_protos1 @@ exec_protos2,
    expansion |-> expansion_protos, fuelgauge |-> fuelgauge_protos, gadtools |-> gadtools_protos,
    getfile |-> getfile_protos, getfont |-> getfont_protos,
    getscreenmode |-> getscreenmode_protos, glyph |-> glyph_protos,
    graphics |-> graphics_protos1 @@ graphics_protos2, icon |-> icon_protos,
    iffparse |-> iffparse_protos, input |-> input_protos, integer |-> integer_protos,
    intuition |-> intuition_protos1 @@ intuition_protos2, keymap |-> keymap_protos,
    label |-> label_protos, layers |-> layers_protos, layout |-> layout_protos,
    listbrowser |-> listbrowser_protos, locale |-> locale_protos, lowlevel |-> lowlevel_protos,
    mathffp |-> mathffp_protos, mathieeedoubbas |-> mathieeedoubbas_protos,
    mathieeedoubtrans |-> mathieeedoubtrans_protos, mathieeesingbas |-> mathieeesingbas_protos,
    mathieeesingtrans |-> mathieeesingtrans_protos, mathtrans |-> mathtrans_protos,
    misc |-> misc_protos, nonvolatile |-> nonvolatile_protos, palette |-> palette_protos,
    penmap |-> penmap_protos, popcycle |-> popcycle_protos, potgo |-> potgo_protos,
    radiobutton |-> radiobutton_protos, ramdrive |-> ramdrive_protos,
    realtime |-> realtime_protos, requester |-> requester_protos, resource |-> resource_protos,
    rexxsyslib |-> rexxsyslib_protos, scroller |-> scroller_protos, slider |-> slider_protos,
    space |-> space_protos, speedbar |-> speedbar_protos, string |-> string_protos,
    texteditor |-> texteditor_protos, timer |-> timer_protos, translator |-> translator_protos,
    utility |-> utility_protos, virtual |-> virtual_protos, wb |-> wb_protos,
    window |-> window_protos, socket |-> socket_protos, usergroup |-> usergroup_protos ]
=============================================================================
