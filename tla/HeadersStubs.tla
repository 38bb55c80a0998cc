---------------------------- MODULE HeadersStubs ----------------------------
(***************************************************************************)
(* The bindings: ndk/include_h/pragmas and include/inline.                 *)
(***************************************************************************)
EXTENDS HeaderItems

ndk_pragmas_amigaguide_pragmas ==
  H("PRAGMAS_AMIGAGUIDE_PRAGMAS_H", << Text({}),
     Need("CLIB_AMIGAGUIDE_PROTOS_H", "clib_amigaguide_protos") >>)
ndk_pragmas_aml_pragmas ==
  H("PRAGMAS_AML_PRAGMAS_H", << Text({}), Need("CLIB_AML_PROTOS_H", "clib_aml_protos") >>)
ndk_pragmas_arexx_pragmas ==
  H("PRAGMAS_AREXX_PRAGMAS_H", << Text({}), Need("CLIB_AREXX_PROTOS_H", "clib_arexx_protos") >>)
ndk_pragmas_asl_pragmas ==
  H("PRAGMAS_ASL_PRAGMAS_H", << Text({}), Need("CLIB_ASL_PROTOS_H", "clib_asl_protos") >>)
ndk_pragmas_battclock_pragmas ==
  H("PRAGMAS_BATTCLOCK_PRAGMAS_H", << Text({}),
     Need("CLIB_BATTCLOCK_PROTOS_H", "clib_battclock_protos") >>)
ndk_pragmas_battmem_pragmas ==
  H("PRAGMAS_BATTMEM_PRAGMAS_H", << Text({}),
     Need("CLIB_BATTMEM_PROTOS_H", "clib_battmem_protos") >>)
ndk_pragmas_bevel_pragmas ==
  H("PRAGMAS_BEVEL_PRAGMAS_H", << Text({}), Need("CLIB_BEVEL_PROTOS_H", "clib_bevel_protos") >>)
ndk_pragmas_bitmap_pragmas ==
  H("PRAGMAS_BITMAP_PRAGMAS_H", << Text({}), Need("CLIB_BITMAP_PROTOS_H", "clib_bitmap_protos") >>)
ndk_pragmas_bullet_pragmas ==
  H("PRAGMAS_BULLET_PRAGMAS_H", << Text({}), Need("CLIB_BULLET_PROTOS_H", "clib_bullet_protos") >>)
ndk_pragmas_button_pragmas ==
  H("PRAGMAS_BUTTON_PRAGMAS_H", << Text({}), Need("CLIB_BUTTON_PROTOS_H", "clib_button_protos") >>)
ndk_pragmas_cardres_pragmas ==
  H("PRAGMAS_CARDRES_PRAGMAS_H", << Text({}),
     Need("CLIB_CARDRES_PROTOS_H", "clib_cardres_protos") >>)
ndk_pragmas_checkbox_pragmas ==
  H("PRAGMAS_CHECKBOX_PRAGMAS_H", << Text({}),
     Need("CLIB_CHECKBOX_PROTOS_H", "clib_checkbox_protos") >>)
ndk_pragmas_chooser_pragmas ==
  H("PRAGMAS_CHOOSER_PRAGMAS_H", << Text({}),
     Need("CLIB_CHOOSER_PROTOS_H", "clib_chooser_protos") >>)
ndk_pragmas_cia_pragmas ==
  H("PRAGMAS_CIA_PRAGMAS_H", << Text({}), Need("CLIB_CIA_PROTOS_H", "clib_cia_protos") >>)
ndk_pragmas_clicktab_pragmas ==
  H("PRAGMAS_CLICKTAB_PRAGMAS_H", << Text({}),
     Need("CLIB_CLICKTAB_PROTOS_H", "clib_clicktab_protos") >>)
ndk_pragmas_colorwheel_pragmas ==
  H("PRAGMAS_COLORWHEEL_PRAGMAS_H", << Text({}),
     Need("CLIB_COLORWHEEL_PROTOS_H", "clib_colorwheel_protos") >>)
ndk_pragmas_commodities_pragmas ==
  H("PRAGMAS_COMMODITIES_PRAGMAS_H", << Text({}),
     Need("CLIB_COMMODITIES_PROTOS_H", "clib_commodities_protos") >>)
ndk_pragmas_console_pragmas ==
  H("PRAGMAS_CONSOLE_PRAGMAS_H", << Text({}),
     Need("CLIB_CONSOLE_PROTOS_H", "clib_console_protos") >>)
ndk_pragmas_datatypes_pragmas ==
  H("PRAGMAS_DATATYPES_PRAGMAS_H", << Text({}),
     Need("CLIB_DATATYPES_PROTOS_H", "clib_datatypes_protos") >>)
ndk_pragmas_datebrowser_pragmas ==
  H("PRAGMAS_DATEBROWSER_PRAGMAS_H", << Text({}),
     Need("CLIB_DATEBROWSER_PROTOS_H", "clib_datebrowser_protos") >>)
ndk_pragmas_disk_pragmas ==
  H("PRAGMAS_DISK_PRAGMAS_H", << Text({}), Need("CLIB_DISK_PROTOS_H", "clib_disk_protos") >>)
ndk_pragmas_diskfont_pragmas ==
  H("PRAGMAS_DISKFONT_PRAGMAS_H", << Text({}),
     Need("CLIB_DISKFONT_PROTOS_H", "clib_diskfont_protos") >>)
ndk_pragmas_dos_pragmas ==
  H("PRAGMAS_DOS_PRAGMAS_H", << Text({}), Need("CLIB_DOS_PROTOS_H", "clib_dos_protos") >>)
ndk_pragmas_drawlist_pragmas ==
  H("PRAGMAS_DRAWLIST_PRAGMAS_H", << Text({}),
     Need("CLIB_DRAWLIST_PROTOS_H", "clib_drawlist_protos") >>)
ndk_pragmas_exec_pragmas ==
  H("PRAGMAS_EXEC_PRAGMAS_H", << Text({}), Need("CLIB_EXEC_PROTOS_H", "clib_exec_protos") >>)
ndk_pragmas_exec_sysbase_pragmas ==
  H("PRAGMAS_EXEC_SYSBASE_PRAGMAS_H", << Text({}),
     Need("CLIB_EXEC_PROTOS_H", "clib_exec_protos") >>)
ndk_pragmas_expansion_pragmas ==
  H("PRAGMAS_EXPANSION_PRAGMAS_H", << Text({}),
     Need("CLIB_EXPANSION_PROTOS_H", "clib_expansion_protos") >>)
ndk_pragmas_fuelgauge_pragmas ==
  H("PRAGMAS_FUELGAUGE_PRAGMAS_H", << Text({}),
     Need("CLIB_FUELGAUGE_PROTOS_H", "clib_fuelgauge_protos") >>)
ndk_pragmas_gadtools_pragmas ==
  H("PRAGMAS_GADTOOLS_PRAGMAS_H", << Text({}),
     Need("CLIB_GADTOOLS_PROTOS_H", "clib_gadtools_protos") >>)
ndk_pragmas_getfile_pragmas ==
  H("PRAGMAS_GETFILE_PRAGMAS_H", << Text({}),
     Need("CLIB_GETFILE_PROTOS_H", "clib_getfile_protos") >>)
ndk_pragmas_getfont_pragmas ==
  H("PRAGMAS_GETFONT_PRAGMAS_H", << Text({}),
     Need("CLIB_GETFONT_PROTOS_H", "clib_getfont_protos") >>)
ndk_pragmas_getscreenmode_pragmas ==
  H("PRAGMAS_GETSCREENMODE_PRAGMAS_H", << Text({}),
     Need("CLIB_GETSCREENMODE_PROTOS_H", "clib_getscreenmode_protos") >>)
ndk_pragmas_glyph_pragmas ==
  H("PRAGMAS_GLYPH_PRAGMAS_H", << Text({}), Need("CLIB_GLYPH_PROTOS_H", "clib_glyph_protos") >>)
ndk_pragmas_graphics_pragmas ==
  H("PRAGMAS_GRAPHICS_PRAGMAS_H", << Text({}),
     Need("CLIB_GRAPHICS_PROTOS_H", "clib_graphics_protos") >>)
ndk_pragmas_hdwrench_pragmas == Unguarded(<< Text({}) >>)
ndk_pragmas_icon_pragmas ==
  H("PRAGMAS_ICON_PRAGMAS_H", << Text({}), Need("CLIB_ICON_PROTOS_H", "clib_icon_protos") >>)
ndk_pragmas_iffparse_pragmas ==
  H("PRAGMAS_IFFPARSE_PRAGMAS_H", << Text({}),
     Need("CLIB_IFFPARSE_PROTOS_H", "clib_iffparse_protos") >>)
ndk_pragmas_input_pragmas ==
  H("PRAGMAS_INPUT_PRAGMAS_H", << Text({}), Need("CLIB_INPUT_PROTOS_H", "clib_input_protos") >>)
ndk_pragmas_integer_pragmas ==
  H("PRAGMAS_INTEGER_PRAGMAS_H", << Text({}),
     Need("CLIB_INTEGER_PROTOS_H", "clib_integer_protos") >>)
ndk_pragmas_intuition_pragmas ==
  H("PRAGMAS_INTUITION_PRAGMAS_H", << Text({}),
     Need("CLIB_INTUITION_PROTOS_H", "clib_intuition_protos") >>)
ndk_pragmas_keymap_pragmas ==
  H("PRAGMAS_KEYMAP_PRAGMAS_H", << Text({}), Need("CLIB_KEYMAP_PROTOS_H", "clib_keymap_protos") >>)
ndk_pragmas_label_pragmas ==
  H("PRAGMAS_LABEL_PRAGMAS_H", << Text({}), Need("CLIB_LABEL_PROTOS_H", "clib_label_protos") >>)
ndk_pragmas_layers_pragmas ==
  H("PRAGMAS_LAYERS_PRAGMAS_H", << Text({}), Need("CLIB_LAYERS_PROTOS_H", "clib_layers_protos") >>)
ndk_pragmas_layout_pragmas ==
  H("PRAGMAS_LAYOUT_PRAGMAS_H", << Text({}), Need("CLIB_LAYOUT_PROTOS_H", "clib_layout_protos") >>)
ndk_pragmas_listbrowser_pragmas ==
  H("PRAGMAS_LISTBROWSER_PRAGMAS_H", << Text({}),
     Need("CLIB_LISTBROWSER_PROTOS_H", "clib_listbrowser_protos") >>)
ndk_pragmas_locale_pragmas ==
  H("PRAGMAS_LOCALE_PRAGMAS_H", << Text({}), Need("CLIB_LOCALE_PROTOS_H", "clib_locale_protos") >>)
ndk_pragmas_lowlevel_pragmas ==
  H("PRAGMAS_LOWLEVEL_PRAGMAS_H", << Text({}),
     Need("CLIB_LOWLEVEL_PROTOS_H", "clib_lowlevel_protos") >>)
ndk_pragmas_mathffp_pragmas ==
  H("PRAGMAS_MATHFFP_PRAGMAS_H", << Text({}),
     Need("CLIB_MATHFFP_PROTOS_H", "clib_mathffp_protos") >>)
ndk_pragmas_mathieeedoubbas_pragmas ==
  H("PRAGMAS_MATHIEEEDOUBBAS_PRAGMAS_H", << Text({}),
     Need("CLIB_MATHIEEEDOUBBAS_PROTOS_H", "clib_mathieeedoubbas_protos") >>)
ndk_pragmas_mathieeedoubtrans_pragmas ==
  H("PRAGMAS_MATHIEEEDOUBTRANS_PRAGMAS_H", << Text({}),
     Need("CLIB_MATHIEEEDOUBTRANS_PROTOS_H", "clib_mathieeedoubtrans_protos") >>)
ndk_pragmas_mathieeesingbas_pragmas ==
  H("PRAGMAS_MATHIEEESINGBAS_PRAGMAS_H", << Text({}),
     Need("CLIB_MATHIEEESINGBAS_PROTOS_H", "clib_mathieeesingbas_protos") >>)
ndk_pragmas_mathieeesingtrans_pragmas ==
  H("PRAGMAS_MATHIEEESINGTRANS_PRAGMAS_H", << Text({}),
     Need("CLIB_MATHIEEESINGTRANS_PROTOS_H", "clib_mathieeesingtrans_protos") >>)
ndk_pragmas_mathtrans_pragmas ==
  H("PRAGMAS_MATHTRANS_PRAGMAS_H", << Text({}),
     Need("CLIB_MATHTRANS_PROTOS_H", "clib_mathtrans_protos") >>)
ndk_pragmas_misc_pragmas ==
  H("PRAGMAS_MISC_PRAGMAS_H", << Text({}), Need("CLIB_MISC_PROTOS_H", "clib_misc_protos") >>)
ndk_pragmas_nonvolatile_pragmas ==
  H("PRAGMAS_NONVOLATILE_PRAGMAS_H", << Text({}),
     Need("CLIB_NONVOLATILE_PROTOS_H", "clib_nonvolatile_protos") >>)
ndk_pragmas_palette_pragmas ==
  H("PRAGMAS_PALETTE_PRAGMAS_H", << Text({}),
     Need("CLIB_PALETTE_PROTOS_H", "clib_palette_protos") >>)
ndk_pragmas_penmap_pragmas ==
  H("PRAGMAS_PENMAP_PRAGMAS_H", << Text({}), Need("CLIB_PENMAP_PROTOS_H", "clib_penmap_protos") >>)
ndk_pragmas_popcycle_pragmas ==
  H("PRAGMAS_POPCYCLE_PRAGMAS_H", << Text({}),
     Need("CLIB_POPCYCLE_PROTOS_H", "clib_popcycle_protos") >>)
ndk_pragmas_potgo_pragmas ==
  H("PRAGMAS_POTGO_PRAGMAS_H", << Text({}), Need("CLIB_POTGO_PROTOS_H", "clib_potgo_protos") >>)
ndk_pragmas_radiobutton_pragmas ==
  H("PRAGMAS_RADIOBUTTON_PRAGMAS_H", << Text({}),
     Need("CLIB_RADIOBUTTON_PROTOS_H", "clib_radiobutton_protos") >>)
ndk_pragmas_ramdrive_pragmas ==
  H("PRAGMAS_RAMDRIVE_PRAGMAS_H", << Text({}),
     Need("CLIB_RAMDRIVE_PROTOS_H", "clib_ramdrive_protos") >>)
ndk_pragmas_realtime_pragmas ==
  H("PRAGMAS_REALTIME_PRAGMAS_H", << Text({}),
     Need("CLIB_REALTIME_PROTOS_H", "clib_realtime_protos") >>)
ndk_pragmas_requester_pragmas ==
  H("PRAGMAS_REQUESTER_PRAGMAS_H", << Text({}),
     Need("CLIB_REQUESTER_PROTOS_H", "clib_requester_protos") >>)
ndk_pragmas_resource_pragmas ==
  H("PRAGMAS_RESOURCE_PRAGMAS_H", << Text({}),
     Need("CLIB_RESOURCE_PROTOS_H", "clib_resource_protos") >>)
ndk_pragmas_rexxsyslib_pragmas ==
  H("PRAGMAS_REXXSYSLIB_PRAGMAS_H", << Text({}),
     Need("CLIB_REXXSYSLIB_PROTOS_H", "clib_rexxsyslib_protos") >>)
ndk_pragmas_scroller_pragmas ==
  H("PRAGMAS_SCROLLER_PRAGMAS_H", << Text({}),
     Need("CLIB_SCROLLER_PROTOS_H", "clib_scroller_protos") >>)
ndk_pragmas_slider_pragmas ==
  H("PRAGMAS_SLIDER_PRAGMAS_H", << Text({}), Need("CLIB_SLIDER_PROTOS_H", "clib_slider_protos") >>)
ndk_pragmas_space_pragmas ==
  H("PRAGMAS_SPACE_PRAGMAS_H", << Text({}), Need("CLIB_SPACE_PROTOS_H", "clib_space_protos") >>)
ndk_pragmas_speedbar_pragmas ==
  H("PRAGMAS_SPEEDBAR_PRAGMAS_H", << Text({}),
     Need("CLIB_SPEEDBAR_PROTOS_H", "clib_speedbar_protos") >>)
ndk_pragmas_string_pragmas ==
  H("PRAGMAS_STRING_PRAGMAS_H", << Text({}), Need("CLIB_STRING_PROTOS_H", "clib_string_protos") >>)
ndk_pragmas_texteditor_pragmas ==
  H("PRAGMAS_TEXTEDITOR_PRAGMAS_H", << Text({}),
     Need("CLIB_TEXTEDITOR_PROTOS_H", "clib_texteditor_protos") >>)
ndk_pragmas_timer_pragmas ==
  H("PRAGMAS_TIMER_PRAGMAS_H", << Text({}), Need("CLIB_TIMER_PROTOS_H", "clib_timer_protos") >>)
ndk_pragmas_translator_pragmas ==
  H("PRAGMAS_TRANSLATOR_PRAGMAS_H", << Text({}),
     Need("CLIB_TRANSLATOR_PROTOS_H", "clib_translator_protos") >>)
ndk_pragmas_utility_pragmas ==
  H("PRAGMAS_UTILITY_PRAGMAS_H", << Text({}),
     Need("CLIB_UTILITY_PROTOS_H", "clib_utility_protos") >>)
ndk_pragmas_virtual_pragmas ==
  H("PRAGMAS_VIRTUAL_PRAGMAS_H", << Text({}),
     Need("CLIB_VIRTUAL_PROTOS_H", "clib_virtual_protos") >>)
ndk_pragmas_wb_pragmas ==
  H("PRAGMAS_WB_PRAGMAS_H", << Text({}), Need("CLIB_WB_PROTOS_H", "clib_wb_protos") >>)
ndk_pragmas_window_pragmas ==
  H("PRAGMAS_WINDOW_PRAGMAS_H", << Text({}), Need("CLIB_WINDOW_PROTOS_H", "clib_window_protos") >>)
inc_inline_ahi_protos ==
  H("_VBCCINLINE_AHI_H", << Need("EXEC_TYPES_H", "exec_types"),
     Text({"exec_types", "utility_tagitem"}) >>)
inc_inline_ahi_sub_protos ==
  H("_VBCCINLINE_AHI_SUB_H", << Need("EXEC_TYPES_H", "exec_types"), Text({"exec_types"}) >>)
inc_inline_amigaguide_protos ==
  H("_VBCCINLINE_AMIGAGUIDE_H", << Need("EXEC_TYPES_H", "exec_types"),
     Text({"exec_types", "utility_tagitem"}) >>)
inc_inline_aml_protos ==
  H("_VBCCINLINE_AML_H", << Need("EXEC_TYPES_H", "exec_types"),
     Text({"exec_types", "utility_tagitem"}) >>)
inc_inline_arexx_protos ==
  H("_VBCCINLINE_AREXX_H", << Need("EXEC_TYPES_H", "exec_types"), Text({"intuition_classes"}) >>)
inc_inline_asl_protos ==
  H("_VBCCINLINE_ASL_H", << Need("EXEC_TYPES_H", "exec_types"),
     Text({"exec_types", "utility_tagitem"}) >>)
inc_inline_battclock_protos ==
  H("_VBCCINLINE_BATTCLOCK_H", << Need("EXEC_TYPES_H", "exec_types"), Text({"exec_types"}) >>)
inc_inline_battmem_protos ==
  H("_VBCCINLINE_BATTMEM_H", << Need("EXEC_TYPES_H", "exec_types"), Text({"exec_types"}) >>)
inc_inline_bevel_protos ==
  H("_VBCCINLINE_BEVEL_H", << Need("EXEC_TYPES_H", "exec_types"), Text({"intuition_classes"}) >>)
inc_inline_bitmap_protos ==
  H("_VBCCINLINE_BITMAP_H", << Need("EXEC_TYPES_H", "exec_types"), Text({"intuition_classes"}) >>)
inc_inline_bullet_protos ==
  H("_VBCCINLINE_BULLET_H", << Need("EXEC_TYPES_H", "exec_types"),
     Text({"exec_types", "utility_tagitem"}) >>)
inc_inline_button_protos ==
  H("_VBCCINLINE_BUTTON_H", << Need("EXEC_TYPES_H", "exec_types"), Text({"intuition_classes"}) >>)
inc_inline_cardres_protos ==
  H("_VBCCINLINE_CARDRES_H", << Need("EXEC_TYPES_H", "exec_types"), Text({"exec_types"}) >>)
inc_inline_cgxdither_protos ==
  H("_VBCCINLINE_CGXDITHER_H", << Need("EXEC_TYPES_H", "exec_types"), Text({"exec_types"}) >>)
inc_inline_cgxsystem_protos ==
  H("_VBCCINLINE_CGXSYSTEM_H", << Need("EXEC_TYPES_H", "exec_types"), Text({"exec_types"}) >>)
inc_inline_cgxvideo_protos ==
  H("_VBCCINLINE_CGXVIDEO_H", << Need("EXEC_TYPES_H", "exec_types"),
     Text({"exec_types", "utility_tagitem"}) >>)
inc_inline_checkbox_protos ==
  H("_VBCCINLINE_CHECKBOX_H", << Need("EXEC_TYPES_H", "exec_types"), Text({"intuition_classes"}) >>)
inc_inline_chooser_protos ==
  H("_VBCCINLINE_CHOOSER_H", << Need("EXEC_TYPES_H", "exec_types"),
     Text({"intuition_classes", "utility_tagitem"}) >>)
inc_inline_clicktab_protos ==
  H("_VBCCINLINE_CLICKTAB_H", << Need("EXEC_TYPES_H", "exec_types"),
     Text({"intuition_classes", "utility_tagitem"}) >>)
inc_inline_colorwheel_protos ==
  H("_VBCCINLINE_COLORWHEEL_H", << Need("EXEC_TYPES_H", "exec_types"), Text({}) >>)
inc_inline_commodities_protos ==
  H("_VBCCINLINE_COMMODITIES_H", << Need("EXEC_TYPES_H", "exec_types"),
     Text({"exec_types", "libraries_commodities"}) >>)
inc_inline_console_protos ==
  H("_VBCCINLINE_CONSOLE_H", << Need("EXEC_TYPES_H", "exec_types"), Text({"exec_types"}) >>)
inc_inline_cybergraphics_protos ==
  H("_VBCCINLINE_CYBERGRAPHICS_H", << Need("EXEC_TYPES_H", "exec_types"),
     Text({"exec_types", "utility_tagitem"}) >>)
inc_inline_datatypes_protos ==
  H("_VBCCINLINE_DATATYPES_H", << Need("EXEC_TYPES_H", "exec_types"),
     Text({"exec_types", "intuition_classusr", "utility_tagitem"}) >>)
inc_inline_datebrowser_protos ==
  H("_VBCCINLINE_DATEBROWSER_H", << Need("EXEC_TYPES_H", "exec_types"),
     Text({"exec_types", "intuition_classes"}) >>)
inc_inline_disk_protos ==
  H("_VBCCINLINE_DISK_H", << Need("EXEC_TYPES_H", "exec_types"), Text({"exec_types"}) >>)
inc_inline_diskfont_protos ==
  H("_VBCCINLINE_DISKFONT_H", << Need("EXEC_TYPES_H", "exec_types"),
     Text({"exec_types", "utility_tagitem"}) >>)
inc_inline_dos_protos ==
  H("_VBCCINLINE_DOS_H", << Need("EXEC_TYPES_H", "exec_types"), Text({"dos_dos", "exec_types"}) >>)
inc_inline_drawlist_protos ==
  H("_VBCCINLINE_DRAWLIST_H", << Need("EXEC_TYPES_H", "exec_types"), Text({"intuition_classes"}) >>)
inc_inline_dtclass_protos ==
  H("_VBCCINLINE_DTCLASS_H", << Need("EXEC_TYPES_H", "exec_types"), Text({"intuition_classes"}) >>)
inc_inline_exec_protos ==
  H("_VBCCINLINE_EXEC_H", << Need("EXEC_TYPES_H", "exec_types"),
     Text({"exec_avl", "exec_types"}) >>)
inc_inline_expansion_protos ==
  H("_VBCCINLINE_EXPANSION_H", << Need("EXEC_TYPES_H", "exec_types"), Text({"exec_types"}) >>)
inc_inline_fuelgauge_protos ==
  H("_VBCCINLINE_FUELGAUGE_H", << Need("EXEC_TYPES_H", "exec_types"),
     Text({"intuition_classes"}) >>)
inc_inline_gadtools_protos ==
  H("_VBCCINLINE_GADTOOLS_H", << Need("EXEC_TYPES_H", "exec_types"),
     Text({"exec_types", "utility_tagitem"}) >>)
inc_inline_getfile_protos ==
  H("_VBCCINLINE_GETFILE_H", << Need("EXEC_TYPES_H", "exec_types"), Text({"intuition_classes"}) >>)
inc_inline_getfont_protos ==
  H("_VBCCINLINE_GETFONT_H", << Need("EXEC_TYPES_H", "exec_types"), Text({"intuition_classes"}) >>)
inc_inline_getscreenmode_protos ==
  H("_VBCCINLINE_GETSCREENMODE_H", << Need("EXEC_TYPES_H", "exec_types"),
     Text({"intuition_classes"}) >>)
inc_inline_glyph_protos ==
  H("_VBCCINLINE_GLYPH_H", << Need("EXEC_TYPES_H", "exec_types"), Text({"intuition_classes"}) >>)
inc_inline_graphics_protos ==
  H("_VBCCINLINE_GRAPHICS_H", << Need("EXEC_TYPES_H", "exec_types"),
     Text({"exec_types", "graphics_displayinfo", "graphics_gfx"}) >>)
inc_inline_icon_protos ==
  H("_VBCCINLINE_ICON_H", << Need("EXEC_TYPES_H", "exec_types"), Text({"exec_types"}) >>)
inc_inline_iffparse_protos ==
  H("_VBCCINLINE_IFFPARSE_H", << Need("EXEC_TYPES_H", "exec_types"), Text({"exec_types"}) >>)
inc_inline_input_protos ==
  H("_VBCCINLINE_INPUT_H", << Need("EXEC_TYPES_H", "exec_types"), Text({"exec_types"}) >>)
inc_inline_integer_protos ==
  H("_VBCCINLINE_INTEGER_H", << Need("EXEC_TYPES_H", "exec_types"), Text({"intuition_classes"}) >>)
inc_inline_intuition_protos ==
  H("_VBCCINLINE_INTUITION_H", << Need("EXEC_TYPES_H", "exec_types"),
     Text({"exec_types", "intuition_classusr"}) >>)
inc_inline_keymap_protos ==
  H("_VBCCINLINE_KEYMAP_H", << Need("EXEC_TYPES_H", "exec_types"), Text({"exec_types"}) >>)
inc_inline_label_protos ==
  H("_VBCCINLINE_LABEL_H", << Need("EXEC_TYPES_H", "exec_types"), Text({"intuition_classes"}) >>)
inc_inline_layers_protos ==
  H("_VBCCINLINE_LAYERS_H", << Need("EXEC_TYPES_H", "exec_types"), Text({"exec_types"}) >>)
inc_inline_layout_protos ==
  H("_VBCCINLINE_LAYOUT_H", << Need("EXEC_TYPES_H", "exec_types"),
     Text({"exec_types", "intuition_classes", "intuition_classusr"}) >>)
inc_inline_listbrowser_protos ==
  H("_VBCCINLINE_LISTBROWSER_H", << Need("EXEC_TYPES_H", "exec_types"), Text({"exec_types"}) >>)
inc_inline_locale_protos ==
  H("_VBCCINLINE_LOCALE_H", << Need("EXEC_TYPES_H", "exec_types"),
     Text({"exec_types", "utility_tagitem"}) >>)
inc_inline_lowlevel_protos ==
  H("_VBCCINLINE_LOWLEVEL_H", << Need("EXEC_TYPES_H", "exec_types"),
     Text({"exec_types", "utility_tagitem"}) >>)
inc_inline_mathffp_protos ==
  H("_VBCCINLINE_MATHFFP_H", << Need("EXEC_TYPES_H", "exec_types"), Text({"exec_types"}) >>)
inc_inline_mathieeedoubbas_protos ==
  H("_VBCCINLINE_MATHIEEEDOUBBAS_H", << Need("EXEC_TYPES_H", "exec_types"), Text({"exec_types"}) >>)
inc_inline_mathieeedoubtrans_protos ==
  H("_VBCCINLINE_MATHIEEEDOUBTRANS_H", << Need("EXEC_TYPES_H", "exec_types"),
     Text({"exec_types"}) >>)
inc_inline_mathieeesingbas_protos ==
  H("_VBCCINLINE_MATHIEEESINGBAS_H", << Need("EXEC_TYPES_H", "exec_types"), Text({"exec_types"}) >>)
inc_inline_mathieeesingtrans_protos ==
  H("_VBCCINLINE_MATHIEEESINGTRANS_H", << Need("EXEC_TYPES_H", "exec_types"),
     Text({"exec_types"}) >>)
inc_inline_mathtrans_protos ==
  H("_VBCCINLINE_MATHTRANS_H", << Need("EXEC_TYPES_H", "exec_types"), Text({"exec_types"}) >>)
inc_inline_misc_protos ==
  H("_VBCCINLINE_MISC_H", << Need("EXEC_TYPES_H", "exec_types"), Text({"exec_types"}) >>)
inc_inline_muimaster_protos ==
  H("_VBCCINLINE_MUIMASTER_H", << Need("EXEC_TYPES_H", "exec_types"),
     Text({"exec_types", "intuition_classusr", "utility_tagitem"}) >>)
inc_inline_nonvolatile_protos ==
  H("_VBCCINLINE_NONVOLATILE_H", << Need("EXEC_TYPES_H", "exec_types"), Text({"exec_types"}) >>)
inc_inline_palette_protos ==
  H("_VBCCINLINE_PALETTE_H", << Need("EXEC_TYPES_H", "exec_types"), Text({"intuition_classes"}) >>)
inc_inline_penmap_protos ==
  H("_VBCCINLINE_PENMAP_H", << Need("EXEC_TYPES_H", "exec_types"), Text({"intuition_classes"}) >>)
inc_inline_picasso96_protos ==
  H("_VBCCINLINE_PICASSO96_H", << Need("EXEC_TYPES_H", "exec_types"), Text({"exec_types"}) >>)
inc_inline_popcycle_protos ==
  H("_VBCCINLINE_POPCYCLE_H", << Need("EXEC_TYPES_H", "exec_types"),
     Text({"intuition_classes", "utility_tagitem"}) >>)
inc_inline_potgo_protos ==
  H("_VBCCINLINE_POTGO_H", << Need("EXEC_TYPES_H", "exec_types"), Text({"exec_types"}) >>)
inc_inline_powerpc_protos ==
  H("_VBCCINLINE_POWERPC_H", << Need("EXEC_TYPES_H", "exec_types"),
     Text({"exec_types", "utility_tagitem"}) >>)
inc_inline_radiobutton_protos ==
  H("_VBCCINLINE_RADIOBUTTON_H", << Need("EXEC_TYPES_H", "exec_types"),
     Text({"exec_types", "intuition_classes", "utility_tagitem"}) >>)
inc_inline_ramdrive_protos ==
  H("_VBCCINLINE_RAMDRIVE_H", << Need("EXEC_TYPES_H", "exec_types"), Text({"exec_types"}) >>)
inc_inline_realtime_protos ==
  H("_VBCCINLINE_REALTIME_H", << Need("EXEC_TYPES_H", "exec_types"),
     Text({"exec_types", "utility_tagitem"}) >>)
inc_inline_reqtools_protos ==
  H("_VBCCINLINE_REQTOOLS_H", << Need("EXEC_TYPES_H", "exec_types"),
     Text({"exec_types", "utility_tagitem"}) >>)
inc_inline_requester_protos ==
  H("_VBCCINLINE_REQUESTER_H", << Need("EXEC_TYPES_H", "exec_types"),
     Text({"intuition_classes"}) >>)
inc_inline_rexxsyslib_protos ==
  H("_VBCCINLINE_REXXSYSLIB_H", << Need("EXEC_TYPES_H", "exec_types"), Text({"exec_types"}) >>)
inc_inline_scroller_protos ==
  H("_VBCCINLINE_SCROLLER_H", << Need("EXEC_TYPES_H", "exec_types"), Text({"intuition_classes"}) >>)
inc_inline_slider_protos ==
  H("_VBCCINLINE_SLIDER_H", << Need("EXEC_TYPES_H", "exec_types"), Text({"intuition_classes"}) >>)
inc_inline_socket_protos ==
  H("_VBCCINLINE_SOCKET_H", << Need("EXEC_TYPES_H", "exec_types"),
     Text({"exec_types", "sys_types"}) >>)
inc_inline_space_protos ==
  H("_VBCCINLINE_SPACE_H", << Need("EXEC_TYPES_H", "exec_types"), Text({"intuition_classes"}) >>)
inc_inline_speedbar_protos ==
  H("_VBCCINLINE_SPEEDBAR_H", << Need("EXEC_TYPES_H", "exec_types"),
     Text({"exec_types", "intuition_classes", "utility_tagitem"}) >>)
inc_inline_string_protos ==
  H("_VBCCINLINE_STRING_H", << Need("EXEC_TYPES_H", "exec_types"), Text({"intuition_classes"}) >>)
inc_inline_texteditor_protos ==
  H("_VBCCINLINE_TEXTEDITOR_H", << Need("EXEC_TYPES_H", "exec_types"),
     Text({"intuition_classes"}) >>)
inc_inline_timer_protos ==
  H("_VBCCINLINE_TIMER_H", << Need("EXEC_TYPES_H", "exec_types"), Text({"exec_types"}) >>)
inc_inline_translator_protos ==
  H("_VBCCINLINE_TRANSLATOR_H", << Need("EXEC_TYPES_H", "exec_types"), Text({"exec_types"}) >>)
inc_inline_usergroup_protos ==
  H("_VBCCINLINE_USERGROUP_H", << Need("EXEC_TYPES_H", "exec_types"),
     Text({"amitcp_types", "exec_types"}) >>)
inc_inline_utility_protos ==
  H("_VBCCINLINE_UTILITY_H", << Need("EXEC_TYPES_H", "exec_types"),
     Text({"exec_types", "utility_tagitem"}) >>)
inc_inline_warp3d_protos ==
  H("_VBCCINLINE_WARP3D_H", << Need("EXEC_TYPES_H", "exec_types"),
     Text({"exec_types", "utility_tagitem"}) >>)
inc_inline_wb_protos ==
  H("_VBCCINLINE_WB_H", << Need("EXEC_TYPES_H", "exec_types"),
     Text({"exec_types", "utility_tagitem"}) >>)
inc_inline_window_protos ==
  H("_VBCCINLINE_WINDOW_H", << Need("EXEC_TYPES_H", "exec_types"), Text({"intuition_classes"}) >>)
inc_inline_wizard_protos ==
  H("_VBCCINLINE_WIZARD_H", << Need("EXEC_TYPES_H", "exec_types"),
     Text({"exec_types", "utility_tagitem"}) >>)

\* By name.
NdkPragmas ==
  [ pragmas_amigaguide_pragmas |-> ndk_pragmas_amigaguide_pragmas, pragmas_aml_pragmas |->
    ndk_pragmas_aml_pragmas, pragmas_arexx_pragmas |-> ndk_pragmas_arexx_pragmas, pragmas_asl_pragmas
    |-> ndk_pragmas_asl_pragmas, pragmas_battclock_pragmas |-> ndk_pragmas_battclock_pragmas,
    pragmas_battmem_pragmas |-> ndk_pragmas_battmem_pragmas, pragmas_bevel_pragmas |->
    ndk_pragmas_bevel_pragmas, pragmas_bitmap_pragmas |-> ndk_pragmas_bitmap_pragmas,
    pragmas_bullet_pragmas |-> ndk_pragmas_bullet_pragmas, pragmas_button_pragmas |->
    ndk_pragmas_button_pragmas, pragmas_cardres_pragmas |-> ndk_pragmas_cardres_pragmas,
    pragmas_checkbox_pragmas |-> ndk_pragmas_checkbox_pragmas, pragmas_chooser_pragmas |->
    ndk_pragmas_chooser_pragmas, pragmas_cia_pragmas |-> ndk_pragmas_cia_pragmas,
    pragmas_clicktab_pragmas |-> ndk_pragmas_clicktab_pragmas, pragmas_colorwheel_pragmas |->
    ndk_pragmas_colorwheel_pragmas, pragmas_commodities_pragmas |-> ndk_pragmas_commodities_pragmas,
    pragmas_console_pragmas |-> ndk_pragmas_console_pragmas, pragmas_datatypes_pragmas |->
    ndk_pragmas_datatypes_pragmas, pragmas_datebrowser_pragmas |-> ndk_pragmas_datebrowser_pragmas,
    pragmas_disk_pragmas |-> ndk_pragmas_disk_pragmas, pragmas_diskfont_pragmas |->
    ndk_pragmas_diskfont_pragmas, pragmas_dos_pragmas |-> ndk_pragmas_dos_pragmas,
    pragmas_drawlist_pragmas |-> ndk_pragmas_drawlist_pragmas, pragmas_exec_pragmas |->
    ndk_pragmas_exec_pragmas, pragmas_exec_sysbase_pragmas |-> ndk_pragmas_exec_sysbase_pragmas,
    pragmas_expansion_pragmas |-> ndk_pragmas_expansion_pragmas, pragmas_fuelgauge_pragmas |->
    ndk_pragmas_fuelgauge_pragmas, pragmas_gadtools_pragmas |-> ndk_pragmas_gadtools_pragmas,
    pragmas_getfile_pragmas |-> ndk_pragmas_getfile_pragmas, pragmas_getfont_pragmas |->
    ndk_pragmas_getfont_pragmas, pragmas_getscreenmode_pragmas |-> ndk_pragmas_getscreenmode_pragmas,
    pragmas_glyph_pragmas |-> ndk_pragmas_glyph_pragmas, pragmas_graphics_pragmas |->
    ndk_pragmas_graphics_pragmas, pragmas_hdwrench_pragmas |-> ndk_pragmas_hdwrench_pragmas,
    pragmas_icon_pragmas |-> ndk_pragmas_icon_pragmas, pragmas_iffparse_pragmas |->
    ndk_pragmas_iffparse_pragmas, pragmas_input_pragmas |-> ndk_pragmas_input_pragmas,
    pragmas_integer_pragmas |-> ndk_pragmas_integer_pragmas, pragmas_intuition_pragmas |->
    ndk_pragmas_intuition_pragmas, pragmas_keymap_pragmas |-> ndk_pragmas_keymap_pragmas,
    pragmas_label_pragmas |-> ndk_pragmas_label_pragmas, pragmas_layers_pragmas |->
    ndk_pragmas_layers_pragmas, pragmas_layout_pragmas |-> ndk_pragmas_layout_pragmas,
    pragmas_listbrowser_pragmas |-> ndk_pragmas_listbrowser_pragmas, pragmas_locale_pragmas |->
    ndk_pragmas_locale_pragmas, pragmas_lowlevel_pragmas |-> ndk_pragmas_lowlevel_pragmas,
    pragmas_mathffp_pragmas |-> ndk_pragmas_mathffp_pragmas, pragmas_mathieeedoubbas_pragmas |->
    ndk_pragmas_mathieeedoubbas_pragmas, pragmas_mathieeedoubtrans_pragmas |->
    ndk_pragmas_mathieeedoubtrans_pragmas, pragmas_mathieeesingbas_pragmas |->
    ndk_pragmas_mathieeesingbas_pragmas, pragmas_mathieeesingtrans_pragmas |->
    ndk_pragmas_mathieeesingtrans_pragmas, pragmas_mathtrans_pragmas |-> ndk_pragmas_mathtrans_pragmas,
    pragmas_misc_pragmas |-> ndk_pragmas_misc_pragmas, pragmas_nonvolatile_pragmas |->
    ndk_pragmas_nonvolatile_pragmas, pragmas_palette_pragmas |-> ndk_pragmas_palette_pragmas,
    pragmas_penmap_pragmas |-> ndk_pragmas_penmap_pragmas, pragmas_popcycle_pragmas |->
    ndk_pragmas_popcycle_pragmas, pragmas_potgo_pragmas |-> ndk_pragmas_potgo_pragmas,
    pragmas_radiobutton_pragmas |-> ndk_pragmas_radiobutton_pragmas, pragmas_ramdrive_pragmas |->
    ndk_pragmas_ramdrive_pragmas, pragmas_realtime_pragmas |-> ndk_pragmas_realtime_pragmas,
    pragmas_requester_pragmas |-> ndk_pragmas_requester_pragmas, pragmas_resource_pragmas |->
    ndk_pragmas_resource_pragmas, pragmas_rexxsyslib_pragmas |-> ndk_pragmas_rexxsyslib_pragmas,
    pragmas_scroller_pragmas |-> ndk_pragmas_scroller_pragmas, pragmas_slider_pragmas |->
    ndk_pragmas_slider_pragmas, pragmas_space_pragmas |-> ndk_pragmas_space_pragmas,
    pragmas_speedbar_pragmas |-> ndk_pragmas_speedbar_pragmas, pragmas_string_pragmas |->
    ndk_pragmas_string_pragmas, pragmas_texteditor_pragmas |-> ndk_pragmas_texteditor_pragmas,
    pragmas_timer_pragmas |-> ndk_pragmas_timer_pragmas, pragmas_translator_pragmas |->
    ndk_pragmas_translator_pragmas, pragmas_utility_pragmas |-> ndk_pragmas_utility_pragmas,
    pragmas_virtual_pragmas |-> ndk_pragmas_virtual_pragmas, pragmas_wb_pragmas |->
    ndk_pragmas_wb_pragmas, pragmas_window_pragmas |-> ndk_pragmas_window_pragmas ]
VbccStubs ==
  [ inline_ahi_protos |-> inc_inline_ahi_protos, inline_ahi_sub_protos |-> inc_inline_ahi_sub_protos,
    inline_amigaguide_protos |-> inc_inline_amigaguide_protos, inline_aml_protos |->
    inc_inline_aml_protos, inline_arexx_protos |-> inc_inline_arexx_protos, inline_asl_protos |->
    inc_inline_asl_protos, inline_battclock_protos |-> inc_inline_battclock_protos,
    inline_battmem_protos |-> inc_inline_battmem_protos, inline_bevel_protos |->
    inc_inline_bevel_protos, inline_bitmap_protos |-> inc_inline_bitmap_protos, inline_bullet_protos |->
    inc_inline_bullet_protos, inline_button_protos |-> inc_inline_button_protos, inline_cardres_protos
    |-> inc_inline_cardres_protos, inline_cgxdither_protos |-> inc_inline_cgxdither_protos,
    inline_cgxsystem_protos |-> inc_inline_cgxsystem_protos, inline_cgxvideo_protos |->
    inc_inline_cgxvideo_protos, inline_checkbox_protos |-> inc_inline_checkbox_protos,
    inline_chooser_protos |-> inc_inline_chooser_protos, inline_clicktab_protos |->
    inc_inline_clicktab_protos, inline_colorwheel_protos |-> inc_inline_colorwheel_protos,
    inline_commodities_protos |-> inc_inline_commodities_protos, inline_console_protos |->
    inc_inline_console_protos, inline_cybergraphics_protos |-> inc_inline_cybergraphics_protos,
    inline_datatypes_protos |-> inc_inline_datatypes_protos, inline_datebrowser_protos |->
    inc_inline_datebrowser_protos, inline_disk_protos |-> inc_inline_disk_protos, inline_diskfont_protos
    |-> inc_inline_diskfont_protos, inline_dos_protos |-> inc_inline_dos_protos, inline_drawlist_protos
    |-> inc_inline_drawlist_protos, inline_dtclass_protos |-> inc_inline_dtclass_protos,
    inline_exec_protos |-> inc_inline_exec_protos, inline_expansion_protos |->
    inc_inline_expansion_protos, inline_fuelgauge_protos |-> inc_inline_fuelgauge_protos,
    inline_gadtools_protos |-> inc_inline_gadtools_protos, inline_getfile_protos |->
    inc_inline_getfile_protos, inline_getfont_protos |-> inc_inline_getfont_protos,
    inline_getscreenmode_protos |-> inc_inline_getscreenmode_protos, inline_glyph_protos |->
    inc_inline_glyph_protos, inline_graphics_protos |-> inc_inline_graphics_protos, inline_icon_protos
    |-> inc_inline_icon_protos, inline_iffparse_protos |-> inc_inline_iffparse_protos,
    inline_input_protos |-> inc_inline_input_protos, inline_integer_protos |->
    inc_inline_integer_protos, inline_intuition_protos |-> inc_inline_intuition_protos,
    inline_keymap_protos |-> inc_inline_keymap_protos, inline_label_protos |-> inc_inline_label_protos,
    inline_layers_protos |-> inc_inline_layers_protos, inline_layout_protos |->
    inc_inline_layout_protos, inline_listbrowser_protos |-> inc_inline_listbrowser_protos,
    inline_locale_protos |-> inc_inline_locale_protos, inline_lowlevel_protos |->
    inc_inline_lowlevel_protos, inline_mathffp_protos |-> inc_inline_mathffp_protos,
    inline_mathieeedoubbas_protos |-> inc_inline_mathieeedoubbas_protos, inline_mathieeedoubtrans_protos
    |-> inc_inline_mathieeedoubtrans_protos, inline_mathieeesingbas_protos |->
    inc_inline_mathieeesingbas_protos, inline_mathieeesingtrans_protos |->
    inc_inline_mathieeesingtrans_protos, inline_mathtrans_protos |-> inc_inline_mathtrans_protos,
    inline_misc_protos |-> inc_inline_misc_protos, inline_muimaster_protos |->
    inc_inline_muimaster_protos, inline_nonvolatile_protos |-> inc_inline_nonvolatile_protos,
    inline_palette_protos |-> inc_inline_palette_protos, inline_penmap_protos |->
    inc_inline_penmap_protos, inline_picasso96_protos |-> inc_inline_picasso96_protos,
    inline_popcycle_protos |-> inc_inline_popcycle_protos, inline_potgo_protos |->
    inc_inline_potgo_protos, inline_powerpc_protos |-> inc_inline_powerpc_protos,
    inline_radiobutton_protos |-> inc_inline_radiobutton_protos, inline_ramdrive_protos |->
    inc_inline_ramdrive_protos, inline_realtime_protos |-> inc_inline_realtime_protos,
    inline_reqtools_protos |-> inc_inline_reqtools_protos, inline_requester_protos |->
    inc_inline_requester_protos, inline_rexxsyslib_protos |-> inc_inline_rexxsyslib_protos,
    inline_scroller_protos |-> inc_inline_scroller_protos, inline_slider_protos |->
    inc_inline_slider_protos, inline_socket_protos |-> inc_inline_socket_protos, inline_space_protos |->
    inc_inline_space_protos, inline_speedbar_protos |-> inc_inline_speedbar_protos, inline_string_protos
    |-> inc_inline_string_protos, inline_texteditor_protos |-> inc_inline_texteditor_protos,
    inline_timer_protos |-> inc_inline_timer_protos, inline_translator_protos |->
    inc_inline_translator_protos, inline_usergroup_protos |-> inc_inline_usergroup_protos,
    inline_utility_protos |-> inc_inline_utility_protos, inline_warp3d_protos |->
    inc_inline_warp3d_protos, inline_wb_protos |-> inc_inline_wb_protos, inline_window_protos |->
    inc_inline_window_protos, inline_wizard_protos |-> inc_inline_wizard_protos ]
=============================================================================
