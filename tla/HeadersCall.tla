----------------------------- MODULE HeadersCall ----------------------------
(***************************************************************************)
(* The headers of ndk/include_h that declare library functions.            *)
(***************************************************************************)
EXTENDS HeaderItems

ndk_clib_alib_protos ==
  H("CLIB_ALIB_PROTOS_H", << Need("EXEC_TYPES_H", "exec_types"),
     Need("DEVICES_TIMER_H", "devices_timer"), Need("DEVICES_KEYMAP_H", "devices_keymap"),
     Need("LIBRARIES_COMMODITIES_H", "libraries_commodities"),
     Need("UTILITY_HOOKS_H", "utility_hooks"), Need("INTUITION_CLASSES_H", "intuition_classes"),
     Need("INTUITION_CLASSUSR_H", "intuition_classusr"),
     Need("GRAPHICS_GRAPHINT_H", "graphics_graphint"), Need("REXX_STORAGE_H", "rexx_storage"),
     Text({"exec_types", "intuition_classusr", "libraries_commodities"}) >>)
ndk_clib_alib_stdio_protos ==
  H("CLIB_ALIB_STDIO_PROTOS_H", << Need("EXEC_TYPES_H", "exec_types"), Text({"exec_types"}) >>)
ndk_clib_amigaguide_protos ==
  H("CLIB_AMIGAGUIDE_PROTOS_H", << Need("EXEC_TYPES_H", "exec_types"),
     Need("EXEC_PORTS_H", "exec_ports"), Need("DOS_DOS_H", "dos_dos"),
     Need("LIBRARIES_AMIGAGUIDE_H", "libraries_amigaguide"),
     Need("UTILITY_TAGITEM_H", "utility_tagitem"), Need("UTILITY_HOOKS_H", "utility_hooks"),
     Need("REXX_STORAGE_H", "rexx_storage"), Text({"dos_dos", "exec_types", "utility_tagitem"}) >>)
ndk_clib_aml_protos ==
  H("CLIB_AML_PROTOS_H", << Need("UTILITY_TAGITEM_H", "utility_tagitem"),
     Need("UTILITY_HOOKS_H", "utility_hooks"), Need("REXX_STORAGE_H", "rexx_storage"),
     Need("LIBRARIES_AML_H", "libraries_aml"), Text({"exec_types", "utility_tagitem"}) >>)
ndk_clib_arexx_protos ==
  H("CLIB_AREXX_PROTOS_H", << Need("INTUITION_INTUITION_H", "intuition_intuition"),
     Need("INTUITION_CLASSES_H", "intuition_classes"), Text({"intuition_classes"}) >>)
ndk_clib_asl_protos ==
  H("CLIB_ASL_PROTOS_H", << Need("EXEC_TYPES_H", "exec_types"),
     Need("UTILITY_TAGITEM_H", "utility_tagitem"), Need("LIBRARIES_ASL_H", "libraries_asl"),
     Text({"exec_types", "utility_tagitem"}) >>)
ndk_clib_battclock_protos ==
  H("CLIB_BATTCLOCK_PROTOS_H", << Need("EXEC_TYPES_H", "exec_types"), Text({"exec_types"}) >>)
ndk_clib_battmem_protos ==
  H("CLIB_BATTMEM_PROTOS_H", << Need("EXEC_TYPES_H", "exec_types"), Text({"exec_types"}) >>)
ndk_clib_bevel_protos ==
  H("CLIB_BEVEL_PROTOS_H", << Need("INTUITION_INTUITION_H", "intuition_intuition"),
     Need("INTUITION_CLASSES_H", "intuition_classes"), Text({"intuition_classes"}) >>)
ndk_clib_bitmap_protos ==
  H("CLIB_BITMAP_PROTOS_H", << Need("INTUITION_INTUITION_H", "intuition_intuition"),
     Need("INTUITION_CLASSES_H", "intuition_classes"), Text({"intuition_classes"}) >>)
ndk_clib_bullet_protos ==
  H("CLIB_BULLET_PROTOS_H", << Need("UTILITY_TAGITEM_H", "utility_tagitem"),
     Need("DISKFONT_GLYPH_H", "diskfont_glyph"), Text({"exec_types", "utility_tagitem"}) >>)
ndk_clib_button_protos ==
  H("CLIB_BUTTON_PROTOS_H", << Need("INTUITION_INTUITION_H", "intuition_intuition"),
     Need("INTUITION_CLASSES_H", "intuition_classes"), Text({"intuition_classes"}) >>)
ndk_clib_cardres_protos ==
  H("CLIB_CARDRES_PROTOS_H", << Need("EXEC_TYPES_H", "exec_types"),
     Need("EXEC_RESIDENT_H", "exec_resident"), Need("RESOURCES_CARD_H", "resources_card"),
     Text({"exec_types"}) >>)
ndk_clib_checkbox_protos ==
  H("CLIB_CHECKBOX_PROTOS_H", << Need("INTUITION_INTUITION_H", "intuition_intuition"),
     Need("INTUITION_CLASSES_H", "intuition_classes"), Text({"intuition_classes"}) >>)
ndk_clib_chooser_protos ==
  H("CLIB_CHOOSER_PROTOS_H", << Need("INTUITION_INTUITION_H", "intuition_intuition"),
     Need("INTUITION_CLASSES_H", "intuition_classes"),
     Text({"intuition_classes", "utility_tagitem"}) >>)
ndk_clib_cia_protos ==
  H("CLIB_CIA_PROTOS_H", << Need("EXEC_TYPES_H", "exec_types"),
     Need("EXEC_INTERRUPTS_H", "exec_interrupts"), Need("EXEC_LIBRARIES_H", "exec_libraries"),
     Text({"exec_types"}) >>)
ndk_clib_clicktab_protos ==
  H("CLIB_CLICKTAB_PROTOS_H", << Need("INTUITION_INTUITION_H", "intuition_intuition"),
     Need("INTUITION_CLASSES_H", "intuition_classes"),
     Text({"intuition_classes", "utility_tagitem"}) >>)
ndk_clib_colorwheel_protos ==
  H("CLIB_COLORWHEEL_PROTOS_H", << Need("EXEC_TYPES_H", "exec_types"),
     Need("GADGETS_COLORWHEEL_H", "gadgets_colorwheel"), Text({}) >>)
ndk_clib_commodities_protos ==
  H("CLIB_COMMODITIES_PROTOS_H", << Need("EXEC_TYPES_H", "exec_types"),
     Need("EXEC_NODES_H", "exec_nodes"), Need("LIBRARIES_COMMODITIES_H", "libraries_commodities"),
     Need("DEVICES_INPUTEVENT_H", "devices_inputevent"), Need("DEVICES_KEYMAP_H", "devices_keymap"),
     Text({"exec_types", "libraries_commodities"}) >>)
ndk_clib_console_protos ==
  H("CLIB_CONSOLE_PROTOS_H", << Need("EXEC_LIBRARIES_H", "exec_libraries"),
     Need("DEVICES_INPUTEVENT_H", "devices_inputevent"), Need("DEVICES_KEYMAP_H", "devices_keymap"),
     Text({"exec_types"}) >>)
ndk_clib_datatypes_protos ==
  H("CLIB_DATATYPES_PROTOS_H", << Need("EXEC_TYPES_H", "exec_types"),
     Need("EXEC_LISTS_H", "exec_lists"), Need("INTUITION_INTUITION_H", "intuition_intuition"),
     Need("INTUITION_CLASSES_H", "intuition_classes"),
     Need("INTUITION_CLASSUSR_H", "intuition_classusr"),
     Need("INTUITION_GADGETCLASS_H", "intuition_gadgetclass"),
     Need("UTILITY_TAGITEM_H", "utility_tagitem"),
     Need("DATATYPES_DATATYPESCLASS_H", "datatypes_datatypesclass"),
     Need("DATATYPES_DATATYPES_H", "datatypes_datatypes"), Need("REXX_STORAGE_H", "rexx_storage"),
     Text({"exec_types", "intuition_classusr", "utility_tagitem"}) >>)
ndk_clib_datebrowser_protos ==
  H("CLIB_DATEBROWSER_PROTOS_H", << Need("INTUITION_INTUITION_H", "intuition_intuition"),
     Need("INTUITION_CLASSES_H", "intuition_classes"), Text({"exec_types", "intuition_classes"}) >>)
ndk_clib_ddebug_protos ==
  H("CLIB_DDEBUG_PROTOS_H", << Need("EXEC_TYPES_H", "exec_types"), Text({"exec_types"}) >>)
ndk_clib_debug_protos ==
  H("CLIB_DEBUG_PROTOS_H", << Need("EXEC_TYPES_H", "exec_types"), Text({"exec_types"}) >>)
ndk_clib_disk_protos ==
  H("CLIB_DISK_PROTOS_H", << Need("RESOURCES_DISK_H", "resources_disk"), Text({"exec_types"}) >>)
ndk_clib_diskfont_protos ==
  H("CLIB_DISKFONT_PROTOS_H", << Need("DOS_DOS_H", "dos_dos"),
     Need("LIBRARIES_DISKFONT_H", "libraries_diskfont"),
     Need("UTILITY_TAGITEM_H", "utility_tagitem"),
     Text({"dos_dos", "exec_types", "utility_tagitem"}) >>)
ndk_clib_dos_protos ==
  H("CLIB_DOS_PROTOS_H", << Need("DOS_DOS_H", "dos_dos"), Need("DOS_DOSEXTENS_H", "dos_dosextens"),
     Need("DOS_RECORD_H", "dos_record"), Need("DOS_RDARGS_H", "dos_rdargs"),
     Need("DOS_DOSASL_H", "dos_dosasl"), Need("DOS_VAR_H", "dos_var"),
     Need("DOS_NOTIFY_H", "dos_notify"), Need("DOS_DATETIME_H", "dos_datetime"),
     Need("DOS_EXALL_H", "dos_exall"), Need("UTILITY_TAGITEM_H", "utility_tagitem"),
     Text({"dos_dos", "exec_types"}) >>)
ndk_clib_drawlist_protos ==
  H("CLIB_DRAWLIST_PROTOS_H", << Need("INTUITION_INTUITION_H", "intuition_intuition"),
     Need("INTUITION_CLASSES_H", "intuition_classes"), Text({"intuition_classes"}) >>)
ndk_clib_exec_protos ==
  H("CLIB_EXEC_PROTOS_H", << Need("EXEC_TYPES_H", "exec_types"), Need("EXEC_TASKS_H", "exec_tasks"),
     Need("EXEC_MEMORY_H", "exec_memory"), Need("EXEC_PORTS_H", "exec_ports"),
     Need("EXEC_DEVICES_H", "exec_devices"), Need("EXEC_IO_H", "exec_io"),
     Need("EXEC_SEMAPHORES_H", "exec_semaphores"), Need("EXEC_AVL_H", "exec_avl"),
     Text({"exec_avl", "exec_types"}) >>)
ndk_clib_expansion_protos ==
  H("CLIB_EXPANSION_PROTOS_H", << Need("EXEC_TYPES_H", "exec_types"),
     Need("LIBRARIES_CONFIGVARS_H", "libraries_configvars"),
     Need("DOS_FILEHANDLER_H", "dos_filehandler"), Text({"exec_types"}) >>)
ndk_clib_fuelgauge_protos ==
  H("CLIB_FUELGAUGE_PROTOS_H", << Need("INTUITION_INTUITION_H", "intuition_intuition"),
     Need("INTUITION_CLASSES_H", "intuition_classes"), Text({"intuition_classes"}) >>)
ndk_clib_gadtools_protos ==
  H("CLIB_GADTOOLS_PROTOS_H", << Need("EXEC_TYPES_H", "exec_types"),
     Need("INTUITION_INTUITION_H", "intuition_intuition"),
     Need("UTILITY_TAGITEM_H", "utility_tagitem"),
     Need("LIBRARIES_GADTOOLS_H", "libraries_gadtools"), Text({"exec_types", "utility_tagitem"}) >>)
ndk_clib_getfile_protos ==
  H("CLIB_GETFILE_PROTOS_H", << Need("INTUITION_INTUITION_H", "intuition_intuition"),
     Need("INTUITION_CLASSES_H", "intuition_classes"), Text({"intuition_classes"}) >>)
ndk_clib_getfont_protos ==
  H("CLIB_GETFONT_PROTOS_H", << Need("INTUITION_INTUITION_H", "intuition_intuition"),
     Need("INTUITION_CLASSES_H", "intuition_classes"), Text({"intuition_classes"}) >>)
ndk_clib_getscreenmode_protos ==
  H("CLIB_GETSCREENMODE_PROTOS_H", << Need("INTUITION_INTUITION_H", "intuition_intuition"),
     Need("INTUITION_CLASSES_H", "intuition_classes"), Text({"intuition_classes"}) >>)
ndk_clib_glyph_protos ==
  H("CLIB_GLYPH_PROTOS_H", << Need("INTUITION_INTUITION_H", "intuition_intuition"),
     Need("INTUITION_CLASSES_H", "intuition_classes"), Text({"intuition_classes"}) >>)
ndk_clib_graphics_protos ==
  H("CLIB_GRAPHICS_PROTOS_H", << Need("GRAPHICS_GFX_H", "graphics_gfx"),
     Need("GRAPHICS_DISPLAYINFO_H", "graphics_displayinfo"),
     Need("GRAPHICS_GELS_H", "graphics_gels"), Need("GRAPHICS_RASTPORT_H", "graphics_rastport"),
     Need("GRAPHICS_VIEW_H", "graphics_view"), Need("GRAPHICS_COPPER_H", "graphics_copper"),
     Need("GRAPHICS_CLIP_H", "graphics_clip"), Need("GRAPHICS_REGIONS_H", "graphics_regions"),
     Need("GRAPHICS_SPRITE_H", "graphics_sprite"), Need("GRAPHICS_TEXT_H", "graphics_text"),
     Need("GRAPHICS_SCALE_H", "graphics_scale"), Need("HARDWARE_BLIT_H", "hardware_blit"),
     Text({"exec_types", "graphics_displayinfo", "graphics_gfx"}) >>)
ndk_clib_icon_protos ==
  H("CLIB_ICON_PROTOS_H", << Need("WORKBENCH_WORKBENCH_H", "workbench_workbench"),
     Need("DATATYPES_PICTURECLASS_H", "datatypes_pictureclass"), Text({"exec_types"}) >>)
ndk_clib_iffparse_protos ==
  H("CLIB_IFFPARSE_PROTOS_H", << Need("EXEC_TYPES_H", "exec_types"),
     Need("LIBRARIES_IFFPARSE_H", "libraries_iffparse"), Need("UTILITY_HOOKS_H", "utility_hooks"),
     Text({"exec_types"}) >>)
ndk_clib_input_protos ==
  H("CLIB_INPUT_PROTOS_H", << Need("EXEC_TYPES_H", "exec_types"), Text({"exec_types"}) >>)
ndk_clib_integer_protos ==
  H("CLIB_INTEGER_PROTOS_H", << Need("INTUITION_INTUITION_H", "intuition_intuition"),
     Need("INTUITION_CLASSES_H", "intuition_classes"), Text({"intuition_classes"}) >>)
ndk_clib_intuition_protos ==
  H("CLIB_INTUITION_PROTOS_H", << Need("INTUITION_INTUITION_H", "intuition_intuition"),
     Need("INTUITION_CLASSES_H", "intuition_classes"),
     Need("INTUITION_CGHOOKS_H", "intuition_cghooks"),
     Need("INTUITION_CLASSUSR_H", "intuition_classusr"),
     Text({"exec_types", "intuition_classusr"}) >>)
ndk_clib_keymap_protos ==
  H("CLIB_KEYMAP_PROTOS_H", << Need("DEVICES_INPUTEVENT_H", "devices_inputevent"),
     Need("DEVICES_KEYMAP_H", "devices_keymap"), Text({"exec_types"}) >>)
ndk_clib_label_protos ==
  H("CLIB_LABEL_PROTOS_H", << Need("INTUITION_INTUITION_H", "intuition_intuition"),
     Need("INTUITION_CLASSES_H", "intuition_classes"), Text({"intuition_classes"}) >>)
ndk_clib_layers_protos ==
  H("CLIB_LAYERS_PROTOS_H", << Need("EXEC_TYPES_H", "exec_types"),
     Need("GRAPHICS_LAYERS_H", "graphics_layers"), Need("GRAPHICS_CLIP_H", "graphics_clip"),
     Need("GRAPHICS_RASTPORT_H", "graphics_rastport"),
     Need("GRAPHICS_REGIONS_H", "graphics_regions"), Text({"exec_types"}) >>)
ndk_clib_layout_protos ==
  H("CLIB_LAYOUT_PROTOS_H", << Need("INTUITION_INTUITION_H", "intuition_intuition"),
     Need("INTUITION_CLASSES_H", "intuition_classes"), Need("GADGETS_LAYOUT_H", "gadgets_layout"),
     Text({"exec_types", "intuition_classes", "intuition_classusr"}) >>)
ndk_clib_listbrowser_protos ==
  H("CLIB_LISTBROWSER_PROTOS_H", << Need("INTUITION_INTUITION_H", "intuition_intuition"),
     Need("INTUITION_CLASSES_H", "intuition_classes"),
     Need("GADGETS_LISTBROWSER_H", "gadgets_listbrowser"), Text({"exec_types"}) >>)
ndk_clib_locale_protos ==
  H("CLIB_LOCALE_PROTOS_H", << Need("EXEC_TYPES_H", "exec_types"),
     Need("LIBRARIES_LOCALE_H", "libraries_locale"), Need("DOS_DOS_H", "dos_dos"),
     Need("UTILITY_HOOKS_H", "utility_hooks"), Need("UTILITY_TAGITEM_H", "utility_tagitem"),
     Need("REXX_STORAGE_H", "rexx_storage"), Text({"exec_types", "utility_tagitem"}) >>)
ndk_clib_lowlevel_protos ==
  H("CLIB_LOWLEVEL_PROTOS_H", << Need("EXEC_TYPES_H", "exec_types"),
     Need("EXEC_INTERRUPTS_H", "exec_interrupts"), Need("UTILITY_TAGITEM_H", "utility_tagitem"),
     Need("DEVICES_TIMER_H", "devices_timer"), Need("LIBRARIES_LOWLEVEL_H", "libraries_lowlevel"),
     Text({"exec_types", "utility_tagitem"}) >>)
ndk_clib_macros == H("CLIB_MACROS_H", << Text({}) >>)
ndk_clib_mathffp_protos ==
  H("CLIB_MATHFFP_PROTOS_H", << Need("EXEC_TYPES_H", "exec_types"), Text({"exec_types"}) >>)
ndk_clib_mathieeedoubbas_protos ==
  H("CLIB_MATHIEEEDOUBBAS_PROTOS_H", << Need("EXEC_TYPES_H", "exec_types"), Text({"exec_types"}) >>)
ndk_clib_mathieeedoubtrans_protos ==
  H("CLIB_MATHIEEEDOUBTRANS_PROTOS_H", << Need("EXEC_TYPES_H", "exec_types"),
     Text({"exec_types"}) >>)
ndk_clib_mathieeesingbas_protos ==
  H("CLIB_MATHIEEESINGBAS_PROTOS_H", << Need("EXEC_TYPES_H", "exec_types"), Text({"exec_types"}) >>)
ndk_clib_mathieeesingtrans_protos ==
  H("CLIB_MATHIEEESINGTRANS_PROTOS_H", << Need("EXEC_TYPES_H", "exec_types"),
     Text({"exec_types"}) >>)
ndk_clib_mathtrans_protos ==
  H("CLIB_MATHTRANS_PROTOS_H", << Need("EXEC_TYPES_H", "exec_types"), Text({"exec_types"}) >>)
ndk_clib_misc_protos ==
  H("CLIB_MISC_PROTOS_H", << Need("EXEC_TYPES_H", "exec_types"), Text({"exec_types"}) >>)
ndk_clib_nonvolatile_protos ==
  H("CLIB_NONVOLATILE_PROTOS_H", << Need("EXEC_TYPES_H", "exec_types"),
     Need("EXEC_LISTS_H", "exec_lists"), Need("LIBRARIES_NONVOLATILE_H", "libraries_nonvolatile"),
     Text({"exec_types"}) >>)
ndk_clib_page_protos ==
  H("CLIB_PAGE_PROTOS_H", << Need("EXEC_TYPES_H", "exec_types"),
     Need("INTUITION_CLASSES_H", "intuition_classes"), Text({"intuition_classes"}) >>)
ndk_clib_palette_protos ==
  H("CLIB_PALETTE_PROTOS_H", << Need("INTUITION_INTUITION_H", "intuition_intuition"),
     Need("INTUITION_CLASSES_H", "intuition_classes"), Text({"intuition_classes"}) >>)
ndk_clib_penmap_protos ==
  H("CLIB_PENMAP_PROTOS_H", << Need("INTUITION_INTUITION_H", "intuition_intuition"),
     Need("INTUITION_CLASSES_H", "intuition_classes"), Text({"intuition_classes"}) >>)
ndk_clib_popcycle_protos ==
  H("CLIB_POPCYCLE_PROTOS_H", << Need("INTUITION_INTUITION_H", "intuition_intuition"),
     Need("INTUITION_CLASSES_H", "intuition_classes"),
     Text({"intuition_classes", "utility_tagitem"}) >>)
ndk_clib_potgo_protos ==
  H("CLIB_POTGO_PROTOS_H", << Need("EXEC_TYPES_H", "exec_types"), Text({"exec_types"}) >>)
ndk_clib_radiobutton_protos ==
  H("CLIB_RADIOBUTTON_PROTOS_H", << Need("INTUITION_INTUITION_H", "intuition_intuition"),
     Need("INTUITION_CLASSES_H", "intuition_classes"),
     Text({"exec_types", "intuition_classes", "utility_tagitem"}) >>)
ndk_clib_ramdrive_protos ==
  H("CLIB_RAMDRIVE_PROTOS_H", << Need("EXEC_TYPES_H", "exec_types"), Text({"exec_types"}) >>)
ndk_clib_reaction_lib_protos ==
  H("CLIB_REACTION_LIB_PROTOS_H", << Need("EXEC_TYPES_H", "exec_types"),
     Need("UTILITY_TAGITEM_H", "utility_tagitem"),
     Need("INTUITION_CLASSUSR_H", "intuition_classusr"),
     Need("REACTION_REACTION_H", "reaction_reaction"),
     Need("INTUITION_INTUITION_H", "intuition_intuition"),
     Text({"exec_types", "intuition_classusr", "utility_tagitem"}) >>)
ndk_clib_realtime_protos ==
  H("CLIB_REALTIME_PROTOS_H", << Need("EXEC_TYPES_H", "exec_types"),
     Need("LIBRARIES_REALTIME_H", "libraries_realtime"),
     Need("UTILITY_TAGITEM_H", "utility_tagitem"), Text({"exec_types", "utility_tagitem"}) >>)
ndk_clib_requester_protos ==
  H("CLIB_REQUESTER_PROTOS_H", << Need("INTUITION_INTUITION_H", "intuition_intuition"),
     Need("INTUITION_CLASSES_H", "intuition_classes"), Text({"intuition_classes"}) >>)
ndk_clib_resource_protos ==
  H("CLIB_RESOURCE_PROTOS_H", << Need("LIBRARIES_RESOURCE_H", "libraries_resource"),
     Need("INTUITION_CLASSUSR_H", "intuition_classusr"),
     Need("INTUITION_INTUITION_H", "intuition_intuition"),
     Need("LIBRARIES_LOCALE_H", "libraries_locale"), Need("UTILITY_TAGITEM_H", "utility_tagitem"),
     Text({"exec_types", "intuition_classusr", "libraries_resource"}) >>)
ndk_clib_rexxsyslib_protos ==
  H("CLIB_REXXSYSLIB_PROTOS_H", << Need("EXEC_TYPES_H", "exec_types"),
     Need("REXX_RXSLIB_H", "rexx_rxslib"), Need("REXX_REXXIO_H", "rexx_rexxio"),
     Text({"exec_types"}) >>)
ndk_clib_scroller_protos ==
  H("CLIB_SCROLLER_PROTOS_H", << Need("INTUITION_INTUITION_H", "intuition_intuition"),
     Need("INTUITION_CLASSES_H", "intuition_classes"), Text({"intuition_classes"}) >>)
ndk_clib_slider_protos ==
  H("CLIB_SLIDER_PROTOS_H", << Need("INTUITION_INTUITION_H", "intuition_intuition"),
     Need("INTUITION_CLASSES_H", "intuition_classes"), Text({"intuition_classes"}) >>)
ndk_clib_space_protos ==
  H("CLIB_SPACE_PROTOS_H", << Need("INTUITION_INTUITION_H", "intuition_intuition"),
     Need("INTUITION_CLASSES_H", "intuition_classes"), Text({"intuition_classes"}) >>)
ndk_clib_speedbar_protos ==
  H("CLIB_SPEEDBAR_PROTOS_H", << Need("INTUITION_INTUITION_H", "intuition_intuition"),
     Need("INTUITION_CLASSES_H", "intuition_classes"),
     Text({"exec_types", "intuition_classes", "utility_tagitem"}) >>)
ndk_clib_string_protos ==
  H("CLIB_STRING_PROTOS_H", << Need("INTUITION_INTUITION_H", "intuition_intuition"),
     Need("INTUITION_CLASSES_H", "intuition_classes"), Text({"intuition_classes"}) >>)
ndk_clib_texteditor_protos ==
  H("CLIB_TEXTEDITOR_PROTOS_H", << Need("INTUITION_INTUITION_H", "intuition_intuition"),
     Need("INTUITION_CLASSES_H", "intuition_classes"), Text({"intuition_classes"}) >>)
ndk_clib_timer_protos ==
  H("CLIB_TIMER_PROTOS_H", << Need("DEVICES_TIMER_H", "devices_timer"), Text({"exec_types"}) >>)
ndk_clib_translator_protos ==
  H("CLIB_TRANSLATOR_PROTOS_H", << Need("EXEC_TYPES_H", "exec_types"), Text({"exec_types"}) >>)
ndk_clib_utility_protos ==
  H("CLIB_UTILITY_PROTOS_H", << Need("EXEC_TYPES_H", "exec_types"),
     Need("EXEC_PORTS_H", "exec_ports"), Need("UTILITY_TAGITEM_H", "utility_tagitem"),
     Need("UTILITY_DATE_H", "utility_date"), Need("UTILITY_HOOKS_H", "utility_hooks"),
     Need("UTILITY_NAME_H", "utility_name"), Text({"exec_types", "utility_tagitem"}) >>)
ndk_clib_virtual_protos ==
  H("CLIB_VIRTUAL_PROTOS_H", << Need("INTUITION_INTUITION_H", "intuition_intuition"),
     Need("INTUITION_CLASSES_H", "intuition_classes"), Need("GADGETS_LAYOUT_H", "gadgets_layout"),
     Text({"exec_types"}) >>)
ndk_clib_wb_protos ==
  H("CLIB_WB_PROTOS_H", << Need("EXEC_TYPES_H", "exec_types"), Need("DOS_DOS_H", "dos_dos"),
     Need("WORKBENCH_WORKBENCH_H", "workbench_workbench"),
     Need("INTUITION_INTUITION_H", "intuition_intuition"),
     Need("UTILITY_TAGITEM_H", "utility_tagitem"),
     Text({"dos_dos", "exec_types", "utility_tagitem"}) >>)
ndk_clib_window_protos ==
  H("CLIB_WINDOW_PROTOS_H", << Need("INTUITION_INTUITION_H", "intuition_intuition"),
     Need("INTUITION_CLASSES_H", "intuition_classes"), Text({"intuition_classes"}) >>)
ndk_pragma_amigaguide_lib ==
  H("PRAGMA_AMIGAGUIDE_H", << Need("PRAGMAS_AMIGAGUIDE_PRAGMAS_H", "pragmas_amigaguide_pragmas") >>)
ndk_pragma_aml_lib == H("PRAGMA_AML_H", << Need("PRAGMAS_AML_PRAGMAS_H", "pragmas_aml_pragmas") >>)
ndk_pragma_arexx_lib ==
  H("PRAGMA_AREXX_H", << Need("PRAGMAS_AREXX_PRAGMAS_H", "pragmas_arexx_pragmas") >>)
ndk_pragma_asl_lib == H("PRAGMA_ASL_H", << Need("PRAGMAS_ASL_PRAGMAS_H", "pragmas_asl_pragmas") >>)
ndk_pragma_battclock_lib ==
  H("PRAGMA_BATTCLOCK_H", << Need("PRAGMAS_BATTCLOCK_PRAGMAS_H", "pragmas_battclock_pragmas") >>)
ndk_pragma_battmem_lib ==
  H("PRAGMA_BATTMEM_H", << Need("PRAGMAS_BATTMEM_PRAGMAS_H", "pragmas_battmem_pragmas") >>)
ndk_pragma_bevel_lib ==
  H("PRAGMA_BEVEL_H", << Need("PRAGMAS_BEVEL_PRAGMAS_H", "pragmas_bevel_pragmas") >>)
ndk_pragma_bitmap_lib ==
  H("PRAGMA_BITMAP_H", << Need("PRAGMAS_BITMAP_PRAGMAS_H", "pragmas_bitmap_pragmas") >>)
ndk_pragma_bullet_lib ==
  H("PRAGMA_BULLET_H", << Need("PRAGMAS_BULLET_PRAGMAS_H", "pragmas_bullet_pragmas") >>)
ndk_pragma_button_lib ==
  H("PRAGMA_BUTTON_H", << Need("PRAGMAS_BUTTON_PRAGMAS_H", "pragmas_button_pragmas") >>)
ndk_pragma_cardres_lib ==
  H("PRAGMA_CARDRES_H", << Need("PRAGMAS_CARDRES_PRAGMAS_H", "pragmas_cardres_pragmas") >>)
ndk_pragma_checkbox_lib ==
  H("PRAGMA_CHECKBOX_H", << Need("PRAGMAS_CHECKBOX_PRAGMAS_H", "pragmas_checkbox_pragmas") >>)
ndk_pragma_chooser_lib ==
  H("PRAGMA_CHOOSER_H", << Need("PRAGMAS_CHOOSER_PRAGMAS_H", "pragmas_chooser_pragmas") >>)
ndk_pragma_cia_lib == H("PRAGMA_CIA_H", << Need("PRAGMAS_CIA_PRAGMAS_H", "pragmas_cia_pragmas") >>)
ndk_pragma_clicktab_lib ==
  H("PRAGMA_CLICKTAB_H", << Need("PRAGMAS_CLICKTAB_PRAGMAS_H", "pragmas_clicktab_pragmas") >>)
ndk_pragma_colorwheel_lib ==
  H("PRAGMA_COLORWHEEL_H", << Need("PRAGMAS_COLORWHEEL_PRAGMAS_H", "pragmas_colorwheel_pragmas") >>)
ndk_pragma_commodities_lib ==
  H("PRAGMA_COMMODITIES_H",
     << Need("PRAGMAS_COMMODITIES_PRAGMAS_H", "pragmas_commodities_pragmas") >>)
ndk_pragma_console_lib ==
  H("PRAGMA_CONSOLE_H", << Need("PRAGMAS_CONSOLE_PRAGMAS_H", "pragmas_console_pragmas") >>)
ndk_pragma_datatypes_lib ==
  H("PRAGMA_DATATYPES_H", << Need("PRAGMAS_DATATYPES_PRAGMAS_H", "pragmas_datatypes_pragmas") >>)
ndk_pragma_datebrowser_lib ==
  H("PRAGMA_DATEBROWSER_H",
     << Need("PRAGMAS_DATEBROWSER_PRAGMAS_H", "pragmas_datebrowser_pragmas") >>)
ndk_pragma_disk_lib ==
  H("PRAGMA_DISK_H", << Need("PRAGMAS_DISK_PRAGMAS_H", "pragmas_disk_pragmas") >>)
ndk_pragma_diskfont_lib ==
  H("PRAGMA_DISKFONT_H", << Need("PRAGMAS_DISKFONT_PRAGMAS_H", "pragmas_diskfont_pragmas") >>)
ndk_pragma_dos_lib == H("PRAGMA_DOS_H", << Need("PRAGMAS_DOS_PRAGMAS_H", "pragmas_dos_pragmas") >>)
ndk_pragma_drawlist_lib ==
  H("PRAGMA_DRAWLIST_H", << Need("PRAGMAS_DRAWLIST_PRAGMAS_H", "pragmas_drawlist_pragmas") >>)
ndk_pragma_exec_lib ==
  H("PRAGMA_EXEC_H", << Need("PRAGMAS_EXEC_PRAGMAS_H", "pragmas_exec_sysbase_pragmas") >>)
ndk_pragma_expansion_lib ==
  H("PRAGMA_EXPANSION_H", << Need("PRAGMAS_EXPANSION_PRAGMAS_H", "pragmas_expansion_pragmas") >>)
ndk_pragma_fuelgauge_lib ==
  H("PRAGMA_FUELGAUGE_H", << Need("PRAGMAS_FUELGAUGE_PRAGMAS_H", "pragmas_fuelgauge_pragmas") >>)
ndk_pragma_gadtools_lib ==
  H("PRAGMA_GADTOOLS_H", << Need("PRAGMAS_GADTOOLS_PRAGMAS_H", "pragmas_gadtools_pragmas") >>)
ndk_pragma_getfile_lib ==
  H("PRAGMA_GETFILE_H", << Need("PRAGMAS_GETFILE_PRAGMAS_H", "pragmas_getfile_pragmas") >>)
ndk_pragma_getfont_lib ==
  H("PRAGMA_GETFONT_H", << Need("PRAGMAS_GETFONT_PRAGMAS_H", "pragmas_getfont_pragmas") >>)
ndk_pragma_getscreenmode_lib ==
  H("PRAGMA_GETSCREENMODE_H",
     << Need("PRAGMAS_GETSCREENMODE_PRAGMAS_H", "pragmas_getscreenmode_pragmas") >>)
ndk_pragma_glyph_lib ==
  H("PRAGMA_GLYPH_H", << Need("PRAGMAS_GLYPH_PRAGMAS_H", "pragmas_glyph_pragmas") >>)
ndk_pragma_graphics_lib ==
  H("PRAGMA_GRAPHICS_H", << Need("PRAGMAS_GRAPHICS_PRAGMAS_H", "pragmas_graphics_pragmas") >>)
ndk_pragma_icon_lib ==
  H("PRAGMA_ICON_H", << Need("PRAGMAS_ICON_PRAGMAS_H", "pragmas_icon_pragmas") >>)
ndk_pragma_iffparse_lib ==
  H("PRAGMA_IFFPARSE_H", << Need("PRAGMAS_IFFPARSE_PRAGMAS_H", "pragmas_iffparse_pragmas") >>)
ndk_pragma_input_lib ==
  H("PRAGMA_INPUT_H", << Need("PRAGMAS_INPUT_PRAGMAS_H", "pragmas_input_pragmas") >>)
ndk_pragma_integer_lib ==
  H("PRAGMA_INTEGER_H", << Need("PRAGMAS_INTEGER_PRAGMAS_H", "pragmas_integer_pragmas") >>)
ndk_pragma_intuition_lib ==
  H("PRAGMA_INTUITION_H", << Need("PRAGMAS_INTUITION_PRAGMAS_H", "pragmas_intuition_pragmas") >>)
ndk_pragma_keymap_lib ==
  H("PRAGMA_KEYMAP_H", << Need("PRAGMAS_KEYMAP_PRAGMAS_H", "pragmas_keymap_pragmas") >>)
ndk_pragma_label_lib ==
  H("PRAGMA_LABEL_H", << Need("PRAGMAS_LABEL_PRAGMAS_H", "pragmas_label_pragmas") >>)
ndk_pragma_layers_lib ==
  H("PRAGMA_LAYERS_H", << Need("PRAGMAS_LAYERS_PRAGMAS_H", "pragmas_layers_pragmas") >>)
ndk_pragma_layout_lib ==
  H("PRAGMA_LAYOUT_H", << Need("PRAGMAS_LAYOUT_PRAGMAS_H", "pragmas_layout_pragmas") >>)
ndk_pragma_listbrowser_lib ==
  H("PRAGMA_LISTBROWSER_H",
     << Need("PRAGMAS_LISTBROWSER_PRAGMAS_H", "pragmas_listbrowser_pragmas") >>)
ndk_pragma_locale_lib ==
  H("PRAGMA_LOCALE_H", << Need("PRAGMAS_LOCALE_PRAGMAS_H", "pragmas_locale_pragmas") >>)
ndk_pragma_lowlevel_lib ==
  H("PRAGMA_LOWLEVEL_H", << Need("PRAGMAS_LOWLEVEL_PRAGMAS_H", "pragmas_lowlevel_pragmas") >>)
ndk_pragma_mathffp_lib ==
  H("PRAGMA_MATHFFP_H", << Need("PRAGMAS_MATHFFP_PRAGMAS_H", "pragmas_mathffp_pragmas") >>)
ndk_pragma_mathieeedoubbas_lib ==
  H("PRAGMA_MATHIEEEDOUBBAS_H",
     << Need("PRAGMAS_MATHIEEEDOUBBAS_PRAGMAS_H", "pragmas_mathieeedoubbas_pragmas") >>)
ndk_pragma_mathieeedoubtrans_lib ==
  H("PRAGMA_MATHIEEEDOUBTRANS_H",
     << Need("PRAGMAS_MATHIEEEDOUBTRANS_PRAGMAS_H", "pragmas_mathieeedoubtrans_pragmas") >>)
ndk_pragma_mathieeesingbas_lib ==
  H("PRAGMA_MATHIEEESINGBAS_H",
     << Need("PRAGMAS_MATHIEEESINGBAS_PRAGMAS_H", "pragmas_mathieeesingbas_pragmas") >>)
ndk_pragma_mathieeesingtrans_lib ==
  H("PRAGMA_MATHIEEESINGTRANS_H",
     << Need("PRAGMAS_MATHIEEESINGTRANS_PRAGMAS_H", "pragmas_mathieeesingtrans_pragmas") >>)
ndk_pragma_mathtrans_lib ==
  H("PRAGMA_MATHTRANS_H", << Need("PRAGMAS_MATHTRANS_PRAGMAS_H", "pragmas_mathtrans_pragmas") >>)
ndk_pragma_misc_lib ==
  H("PRAGMA_MISC_H", << Need("PRAGMAS_MISC_PRAGMAS_H", "pragmas_misc_pragmas") >>)
ndk_pragma_nonvolatile_lib ==
  H("PRAGMA_NONVOLATILE_H",
     << Need("PRAGMAS_NONVOLATILE_PRAGMAS_H", "pragmas_nonvolatile_pragmas") >>)
ndk_pragma_palette_lib ==
  H("PRAGMA_PALETTE_H", << Need("PRAGMAS_PALETTE_PRAGMAS_H", "pragmas_palette_pragmas") >>)
ndk_pragma_penmap_lib ==
  H("PRAGMA_PENMAP_H", << Need("PRAGMAS_PENMAP_PRAGMAS_H", "pragmas_penmap_pragmas") >>)
ndk_pragma_popcycle_lib ==
  H("PRAGMA_POPCYCLE_H", << Need("PRAGMAS_POPCYCLE_PRAGMAS_H", "pragmas_popcycle_pragmas") >>)
ndk_pragma_potgo_lib ==
  H("PRAGMA_POTGO_H", << Need("PRAGMAS_POTGO_PRAGMAS_H", "pragmas_potgo_pragmas") >>)
ndk_pragma_radiobutton_lib ==
  H("PRAGMA_RADIOBUTTON_H",
     << Need("PRAGMAS_RADIOBUTTON_PRAGMAS_H", "pragmas_radiobutton_pragmas") >>)
ndk_pragma_ramdrive_lib ==
  H("PRAGMA_RAMDRIVE_H", << Need("PRAGMAS_RAMDRIVE_PRAGMAS_H", "pragmas_ramdrive_pragmas") >>)
ndk_pragma_realtime_lib ==
  H("PRAGMA_REALTIME_H", << Need("PRAGMAS_REALTIME_PRAGMAS_H", "pragmas_realtime_pragmas") >>)
ndk_pragma_requester_lib ==
  H("PRAGMA_REQUESTER_H", << Need("PRAGMAS_REQUESTER_PRAGMAS_H", "pragmas_requester_pragmas") >>)
ndk_pragma_resource_lib ==
  H("PRAGMA_RESOURCE_H", << Need("PRAGMAS_RESOURCE_PRAGMAS_H", "pragmas_resource_pragmas") >>)
ndk_pragma_rexxsyslib_lib ==
  H("PRAGMA_REXXSYSLIB_H", << Need("PRAGMAS_REXXSYSLIB_PRAGMAS_H", "pragmas_rexxsyslib_pragmas") >>)
ndk_pragma_scroller_lib ==
  H("PRAGMA_SCROLLER_H", << Need("PRAGMAS_SCROLLER_PRAGMAS_H", "pragmas_scroller_pragmas") >>)
ndk_pragma_slider_lib ==
  H("PRAGMA_SLIDER_H", << Need("PRAGMAS_SLIDER_PRAGMAS_H", "pragmas_slider_pragmas") >>)
ndk_pragma_space_lib ==
  H("PRAGMA_SPACE_H", << Need("PRAGMAS_SPACE_PRAGMAS_H", "pragmas_space_pragmas") >>)
ndk_pragma_speedbar_lib ==
  H("PRAGMA_SPEEDBAR_H", << Need("PRAGMAS_SPEEDBAR_PRAGMAS_H", "pragmas_speedbar_pragmas") >>)
ndk_pragma_string_lib ==
  H("PRAGMA_STRING_H", << Need("PRAGMAS_STRING_PRAGMAS_H", "pragmas_string_pragmas") >>)
ndk_pragma_texteditor_lib ==
  H("PRAGMA_TEXTEDITOR_H", << Need("PRAGMAS_TEXTEDITOR_PRAGMAS_H", "pragmas_texteditor_pragmas") >>)
ndk_pragma_timer_lib ==
  H("PRAGMA_TIMER_H", << Need("PRAGMAS_TIMER_PRAGMAS_H", "pragmas_timer_pragmas") >>)
ndk_pragma_translator_lib ==
  H("PRAGMA_TRANSLATOR_H", << Need("PRAGMAS_TRANSLATOR_PRAGMAS_H", "pragmas_translator_pragmas") >>)
ndk_pragma_utility_lib ==
  H("PRAGMA_UTILITY_H", << Need("PRAGMAS_UTILITY_PRAGMAS_H", "pragmas_utility_pragmas") >>)
ndk_pragma_virtual_lib ==
  H("PRAGMA_VIRTUAL_H", << Need("PRAGMAS_VIRTUAL_PRAGMAS_H", "pragmas_virtual_pragmas") >>)
ndk_pragma_wb_lib == H("PRAGMA_WB_H", << Need("PRAGMAS_WB_PRAGMAS_H", "pragmas_wb_pragmas") >>)
ndk_pragma_window_lib ==
  H("PRAGMA_WINDOW_H", << Need("PRAGMAS_WINDOW_PRAGMAS_H", "pragmas_window_pragmas") >>)

\* By name.
NdkCalls ==
  [ clib_alib_protos |-> ndk_clib_alib_protos, clib_alib_stdio_protos |-> ndk_clib_alib_stdio_protos,
    clib_amigaguide_protos |-> ndk_clib_amigaguide_protos, clib_aml_protos |-> ndk_clib_aml_protos,
    clib_arexx_protos |-> ndk_clib_arexx_protos, clib_asl_protos |-> ndk_clib_asl_protos,
    clib_battclock_protos |-> ndk_clib_battclock_protos, clib_battmem_protos |->
    ndk_clib_battmem_protos, clib_bevel_protos |-> ndk_clib_bevel_protos, clib_bitmap_protos |->
    ndk_clib_bitmap_protos, clib_bullet_protos |-> ndk_clib_bullet_protos, clib_button_protos |->
    ndk_clib_button_protos, clib_cardres_protos |-> ndk_clib_cardres_protos, clib_checkbox_protos |->
    ndk_clib_checkbox_protos, clib_chooser_protos |-> ndk_clib_chooser_protos, clib_cia_protos |->
    ndk_clib_cia_protos, clib_clicktab_protos |-> ndk_clib_clicktab_protos, clib_colorwheel_protos |->
    ndk_clib_colorwheel_protos, clib_commodities_protos |-> ndk_clib_commodities_protos,
    clib_console_protos |-> ndk_clib_console_protos, clib_datatypes_protos |->
    ndk_clib_datatypes_protos, clib_datebrowser_protos |-> ndk_clib_datebrowser_protos,
    clib_ddebug_protos |-> ndk_clib_ddebug_protos, clib_debug_protos |-> ndk_clib_debug_protos,
    clib_disk_protos |-> ndk_clib_disk_protos, clib_diskfont_protos |-> ndk_clib_diskfont_protos,
    clib_dos_protos |-> ndk_clib_dos_protos, clib_drawlist_protos |-> ndk_clib_drawlist_protos,
    clib_exec_protos |-> ndk_clib_exec_protos, clib_expansion_protos |-> ndk_clib_expansion_protos,
    clib_fuelgauge_protos |-> ndk_clib_fuelgauge_protos, clib_gadtools_protos |->
    ndk_clib_gadtools_protos, clib_getfile_protos |-> ndk_clib_getfile_protos, clib_getfont_protos |->
    ndk_clib_getfont_protos, clib_getscreenmode_protos |-> ndk_clib_getscreenmode_protos,
    clib_glyph_protos |-> ndk_clib_glyph_protos, clib_graphics_protos |-> ndk_clib_graphics_protos,
    clib_icon_protos |-> ndk_clib_icon_protos, clib_iffparse_protos |-> ndk_clib_iffparse_protos,
    clib_input_protos |-> ndk_clib_input_protos, clib_integer_protos |-> ndk_clib_integer_protos,
    clib_intuition_protos |-> ndk_clib_intuition_protos, clib_keymap_protos |-> ndk_clib_keymap_protos,
    clib_label_protos |-> ndk_clib_label_protos, clib_layers_protos |-> ndk_clib_layers_protos,
    clib_layout_protos |-> ndk_clib_layout_protos, clib_listbrowser_protos |->
    ndk_clib_listbrowser_protos, clib_locale_protos |-> ndk_clib_locale_protos, clib_lowlevel_protos |->
    ndk_clib_lowlevel_protos, clib_macros |-> ndk_clib_macros, clib_mathffp_protos |->
    ndk_clib_mathffp_protos, clib_mathieeedoubbas_protos |-> ndk_clib_mathieeedoubbas_protos,
    clib_mathieeedoubtrans_protos |-> ndk_clib_mathieeedoubtrans_protos, clib_mathieeesingbas_protos |->
    ndk_clib_mathieeesingbas_protos, clib_mathieeesingtrans_protos |->
    ndk_clib_mathieeesingtrans_protos, clib_mathtrans_protos |-> ndk_clib_mathtrans_protos,
    clib_misc_protos |-> ndk_clib_misc_protos, clib_nonvolatile_protos |-> ndk_clib_nonvolatile_protos,
    clib_page_protos |-> ndk_clib_page_protos, clib_palette_protos |-> ndk_clib_palette_protos,
    clib_penmap_protos |-> ndk_clib_penmap_protos, clib_popcycle_protos |-> ndk_clib_popcycle_protos,
    clib_potgo_protos |-> ndk_clib_potgo_protos, clib_radiobutton_protos |->
    ndk_clib_radiobutton_protos, clib_ramdrive_protos |-> ndk_clib_ramdrive_protos,
    clib_reaction_lib_protos |-> ndk_clib_reaction_lib_protos, clib_realtime_protos |->
    ndk_clib_realtime_protos, clib_requester_protos |-> ndk_clib_requester_protos, clib_resource_protos
    |-> ndk_clib_resource_protos, clib_rexxsyslib_protos |-> ndk_clib_rexxsyslib_protos,
    clib_scroller_protos |-> ndk_clib_scroller_protos, clib_slider_protos |-> ndk_clib_slider_protos,
    clib_space_protos |-> ndk_clib_space_protos, clib_speedbar_protos |-> ndk_clib_speedbar_protos,
    clib_string_protos |-> ndk_clib_string_protos, clib_texteditor_protos |->
    ndk_clib_texteditor_protos, clib_timer_protos |-> ndk_clib_timer_protos, clib_translator_protos |->
    ndk_clib_translator_protos, clib_utility_protos |-> ndk_clib_utility_protos, clib_virtual_protos |->
    ndk_clib_virtual_protos, clib_wb_protos |-> ndk_clib_wb_protos, clib_window_protos |->
    ndk_clib_window_protos, pragma_amigaguide_lib |-> ndk_pragma_amigaguide_lib, pragma_aml_lib |->
    ndk_pragma_aml_lib, pragma_arexx_lib |-> ndk_pragma_arexx_lib, pragma_asl_lib |->
    ndk_pragma_asl_lib, pragma_battclock_lib |-> ndk_pragma_battclock_lib, pragma_battmem_lib |->
    ndk_pragma_battmem_lib, pragma_bevel_lib |-> ndk_pragma_bevel_lib, pragma_bitmap_lib |->
    ndk_pragma_bitmap_lib, pragma_bullet_lib |-> ndk_pragma_bullet_lib, pragma_button_lib |->
    ndk_pragma_button_lib, pragma_cardres_lib |-> ndk_pragma_cardres_lib, pragma_checkbox_lib |->
    ndk_pragma_checkbox_lib, pragma_chooser_lib |-> ndk_pragma_chooser_lib, pragma_cia_lib |->
    ndk_pragma_cia_lib, pragma_clicktab_lib |-> ndk_pragma_clicktab_lib, pragma_colorwheel_lib |->
    ndk_pragma_colorwheel_lib, pragma_commodities_lib |-> ndk_pragma_commodities_lib, pragma_console_lib
    |-> ndk_pragma_console_lib, pragma_datatypes_lib |-> ndk_pragma_datatypes_lib,
    pragma_datebrowser_lib |-> ndk_pragma_datebrowser_lib, pragma_disk_lib |-> ndk_pragma_disk_lib,
    pragma_diskfont_lib |-> ndk_pragma_diskfont_lib, pragma_dos_lib |-> ndk_pragma_dos_lib,
    pragma_drawlist_lib |-> ndk_pragma_drawlist_lib, pragma_exec_lib |-> ndk_pragma_exec_lib,
    pragma_expansion_lib |-> ndk_pragma_expansion_lib, pragma_fuelgauge_lib |->
    ndk_pragma_fuelgauge_lib, pragma_gadtools_lib |-> ndk_pragma_gadtools_lib, pragma_getfile_lib |->
    ndk_pragma_getfile_lib, pragma_getfont_lib |-> ndk_pragma_getfont_lib, pragma_getscreenmode_lib |->
    ndk_pragma_getscreenmode_lib, pragma_glyph_lib |-> ndk_pragma_glyph_lib, pragma_graphics_lib |->
    ndk_pragma_graphics_lib, pragma_icon_lib |-> ndk_pragma_icon_lib, pragma_iffparse_lib |->
    ndk_pragma_iffparse_lib, pragma_input_lib |-> ndk_pragma_input_lib, pragma_integer_lib |->
    ndk_pragma_integer_lib, pragma_intuition_lib |-> ndk_pragma_intuition_lib, pragma_keymap_lib |->
    ndk_pragma_keymap_lib, pragma_label_lib |-> ndk_pragma_label_lib, pragma_layers_lib |->
    ndk_pragma_layers_lib, pragma_layout_lib |-> ndk_pragma_layout_lib, pragma_listbrowser_lib |->
    ndk_pragma_listbrowser_lib, pragma_locale_lib |-> ndk_pragma_locale_lib, pragma_lowlevel_lib |->
    ndk_pragma_lowlevel_lib, pragma_mathffp_lib |-> ndk_pragma_mathffp_lib, pragma_mathieeedoubbas_lib
    |-> ndk_pragma_mathieeedoubbas_lib, pragma_mathieeedoubtrans_lib |->
    ndk_pragma_mathieeedoubtrans_lib, pragma_mathieeesingbas_lib |-> ndk_pragma_mathieeesingbas_lib,
    pragma_mathieeesingtrans_lib |-> ndk_pragma_mathieeesingtrans_lib, pragma_mathtrans_lib |->
    ndk_pragma_mathtrans_lib, pragma_misc_lib |-> ndk_pragma_misc_lib, pragma_nonvolatile_lib |->
    ndk_pragma_nonvolatile_lib, pragma_palette_lib |-> ndk_pragma_palette_lib, pragma_penmap_lib |->
    ndk_pragma_penmap_lib, pragma_popcycle_lib |-> ndk_pragma_popcycle_lib, pragma_potgo_lib |->
    ndk_pragma_potgo_lib, pragma_radiobutton_lib |-> ndk_pragma_radiobutton_lib, pragma_ramdrive_lib |->
    ndk_pragma_ramdrive_lib, pragma_realtime_lib |-> ndk_pragma_realtime_lib, pragma_requester_lib |->
    ndk_pragma_requester_lib, pragma_resource_lib |-> ndk_pragma_resource_lib, pragma_rexxsyslib_lib |->
    ndk_pragma_rexxsyslib_lib, pragma_scroller_lib |-> ndk_pragma_scroller_lib, pragma_slider_lib |->
    ndk_pragma_slider_lib, pragma_space_lib |-> ndk_pragma_space_lib, pragma_speedbar_lib |->
    ndk_pragma_speedbar_lib, pragma_string_lib |-> ndk_pragma_string_lib, pragma_texteditor_lib |->
    ndk_pragma_texteditor_lib, pragma_timer_lib |-> ndk_pragma_timer_lib, pragma_translator_lib |->
    ndk_pragma_translator_lib, pragma_utility_lib |-> ndk_pragma_utility_lib, pragma_virtual_lib |->
    ndk_pragma_virtual_lib, pragma_wb_lib |-> ndk_pragma_wb_lib, pragma_window_lib |->
    ndk_pragma_window_lib ]
=============================================================================
