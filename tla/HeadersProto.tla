---------------------------- MODULE HeadersProto ----------------------------
(***************************************************************************)
(* The headers of ndk/include_h/proto and of include/proto.                *)
(***************************************************************************)
EXTENDS HeaderItems

ndk_proto_amigaguide ==
  H("PROTO_AMIGAGUIDE_H", << Need("PRAGMAS_AMIGAGUIDE_PRAGMAS_H", "pragmas_amigaguide_pragmas"),
     Need("EXEC_LIBRARIES_H", "exec_libraries"), Text({}) >>)
ndk_proto_aml ==
  H("PROTO_AML_H", << Need("PRAGMAS_AML_PRAGMAS_H", "pragmas_aml_pragmas"),
     Need("EXEC_LIBRARIES_H", "exec_libraries"), Text({}) >>)
ndk_proto_arexx ==
  H("PROTO_AREXX_H", << Need("PRAGMAS_AREXX_PRAGMAS_H", "pragmas_arexx_pragmas"),
     Need("EXEC_LIBRARIES_H", "exec_libraries"), Text({}) >>)
ndk_proto_asl ==
  H("PROTO_ASL_H", << Need("PRAGMAS_ASL_PRAGMAS_H", "pragmas_asl_pragmas"),
     Need("EXEC_LIBRARIES_H", "exec_libraries"), Text({}) >>)
ndk_proto_battclock ==
  H("PROTO_BATTCLOCK_H", << Need("PRAGMAS_BATTCLOCK_PRAGMAS_H", "pragmas_battclock_pragmas"),
     Need("EXEC_LIBRARIES_H", "exec_libraries"), Text({}) >>)
ndk_proto_battmem ==
  H("PROTO_BATTMEM_H", << Need("PRAGMAS_BATTMEM_PRAGMAS_H", "pragmas_battmem_pragmas"),
     Need("EXEC_LIBRARIES_H", "exec_libraries"), Text({}) >>)
ndk_proto_bevel ==
  H("PROTO_BEVEL_H", << Need("PRAGMAS_BEVEL_PRAGMAS_H", "pragmas_bevel_pragmas"),
     Need("EXEC_LIBRARIES_H", "exec_libraries"), Text({}) >>)
ndk_proto_bitmap ==
  H("PROTO_BITMAP_H", << Need("PRAGMAS_BITMAP_PRAGMAS_H", "pragmas_bitmap_pragmas"),
     Need("EXEC_LIBRARIES_H", "exec_libraries"), Text({}) >>)
ndk_proto_bullet ==
  H("PROTO_BULLET_H", << Need("PRAGMAS_BULLET_PRAGMAS_H", "pragmas_bullet_pragmas"),
     Need("EXEC_LIBRARIES_H", "exec_libraries"), Text({}) >>)
ndk_proto_button ==
  H("PROTO_BUTTON_H", << Need("PRAGMAS_BUTTON_PRAGMAS_H", "pragmas_button_pragmas"),
     Need("EXEC_LIBRARIES_H", "exec_libraries"), Text({}) >>)
ndk_proto_cardres ==
  H("PROTO_CARDRES_H", << Need("PRAGMAS_CARDRES_PRAGMAS_H", "pragmas_cardres_pragmas"),
     Need("EXEC_LIBRARIES_H", "exec_libraries"), Text({}) >>)
ndk_proto_checkbox ==
  H("PROTO_CHECKBOX_H", << Need("PRAGMAS_CHECKBOX_PRAGMAS_H", "pragmas_checkbox_pragmas"),
     Need("EXEC_LIBRARIES_H", "exec_libraries"), Text({}) >>)
ndk_proto_chooser ==
  H("PROTO_CHOOSER_H", << Need("PRAGMAS_CHOOSER_PRAGMAS_H", "pragmas_chooser_pragmas"),
     Need("EXEC_LIBRARIES_H", "exec_libraries"), Text({}) >>)
ndk_proto_cia ==
  H("PROTO_CIA_H", << Need("PRAGMAS_CIA_PRAGMAS_H", "pragmas_cia_pragmas"),
     Need("EXEC_LIBRARIES_H", "exec_libraries") >>)
ndk_proto_clicktab ==
  H("PROTO_CLICKTAB_H", << Need("PRAGMAS_CLICKTAB_PRAGMAS_H", "pragmas_clicktab_pragmas"),
     Need("EXEC_LIBRARIES_H", "exec_libraries"), Text({}) >>)
ndk_proto_colorwheel ==
  H("PROTO_COLORWHEEL_H", << Need("PRAGMAS_COLORWHEEL_PRAGMAS_H", "pragmas_colorwheel_pragmas"),
     Need("EXEC_LIBRARIES_H", "exec_libraries"), Text({}) >>)
ndk_proto_commodities ==
  H("PROTO_COMMODITIES_H", << Need("PRAGMAS_COMMODITIES_PRAGMAS_H", "pragmas_commodities_pragmas"),
     Need("EXEC_LIBRARIES_H", "exec_libraries"), Text({}) >>)
ndk_proto_console ==
  H("PROTO_CONSOLE_H", << Need("PRAGMAS_CONSOLE_PRAGMAS_H", "pragmas_console_pragmas"),
     Need("EXEC_DEVICES_H", "exec_devices"), Text({}) >>)
ndk_proto_datatypes ==
  H("PROTO_DATATYPES_H", << Need("PRAGMAS_DATATYPES_PRAGMAS_H", "pragmas_datatypes_pragmas"),
     Need("EXEC_LIBRARIES_H", "exec_libraries"), Text({}) >>)
ndk_proto_datebrowser ==
  H("PROTO_DATEBROWSER_H", << Need("PRAGMAS_DATEBROWSER_PRAGMAS_H", "pragmas_datebrowser_pragmas"),
     Need("EXEC_LIBRARIES_H", "exec_libraries"), Text({}) >>)
ndk_proto_disk ==
  H("PROTO_DISK_H", << Need("PRAGMAS_DISK_PRAGMAS_H", "pragmas_disk_pragmas"),
     Need("EXEC_LIBRARIES_H", "exec_libraries"), Text({}) >>)
ndk_proto_diskfont ==
  H("PROTO_DISKFONT_H", << Need("PRAGMAS_DISKFONT_PRAGMAS_H", "pragmas_diskfont_pragmas"),
     Need("EXEC_LIBRARIES_H", "exec_libraries"), Text({}) >>)
ndk_proto_dos ==
  H("PROTO_DOS_H", << Need("PRAGMAS_DOS_PRAGMAS_H", "pragmas_dos_pragmas"),
     Need("DOS_DOSEXTENS_H", "dos_dosextens"), Text({}) >>)
ndk_proto_drawlist ==
  H("PROTO_DRAWLIST_H", << Need("PRAGMAS_DRAWLIST_PRAGMAS_H", "pragmas_drawlist_pragmas"),
     Need("EXEC_LIBRARIES_H", "exec_libraries"), Text({}) >>)
ndk_proto_exec ==
  H("PROTO_EXEC_H", << Need("EXEC_EXECBASE_H", "exec_execbase"),
     When({<<{"_USEOLDEXEC_"}, {"PRAGMAS_EXEC_PRAGMAS_H"}>>, <<{}, {"PRAGMAS_EXEC_PRAGMAS_H",
       "__USE_SYSBASE"}>>}, <<"pragmas_exec_pragmas">>),
     When({<<{"__USE_SYSBASE"}, {"PRAGMAS_EXEC_SYSBASE_PRAGMAS_H", "_USEOLDEXEC_"}>>},
       <<"pragmas_exec_sysbase_pragmas">>) >>)
ndk_proto_expansion ==
  H("PROTO_EXPANSION_H", << Need("PRAGMAS_EXPANSION_PRAGMAS_H", "pragmas_expansion_pragmas"),
     Need("LIBRARIES_EXPANSIONBASE_H", "libraries_expansionbase"), Text({}) >>)
ndk_proto_fuelgauge ==
  H("PROTO_FUELGAUGE_H", << Need("PRAGMAS_FUELGAUGE_PRAGMAS_H", "pragmas_fuelgauge_pragmas"),
     Need("EXEC_LIBRARIES_H", "exec_libraries"), Text({}) >>)
ndk_proto_gadtools ==
  H("PROTO_GADTOOLS_H", << Need("PRAGMAS_GADTOOLS_PRAGMAS_H", "pragmas_gadtools_pragmas"),
     Need("EXEC_LIBRARIES_H", "exec_libraries"), Text({}) >>)
ndk_proto_getfile ==
  H("PROTO_GETFILE_H", << Need("PRAGMAS_GETFILE_PRAGMAS_H", "pragmas_getfile_pragmas"),
     Need("EXEC_LIBRARIES_H", "exec_libraries"), Text({}) >>)
ndk_proto_getfont ==
  H("PROTO_GETFONT_H", << Need("PRAGMAS_GETFONT_PRAGMAS_H", "pragmas_getfont_pragmas"),
     Need("EXEC_LIBRARIES_H", "exec_libraries"), Text({}) >>)
ndk_proto_getscreenmode ==
  H("PROTO_GETSCREENMODE_H",
     << Need("PRAGMAS_GETSCREENMODE_PRAGMAS_H", "pragmas_getscreenmode_pragmas"),
     Need("EXEC_LIBRARIES_H", "exec_libraries"), Text({}) >>)
ndk_proto_glyph ==
  H("PROTO_GLYPH_H", << Need("PRAGMAS_GLYPH_PRAGMAS_H", "pragmas_glyph_pragmas"),
     Need("EXEC_LIBRARIES_H", "exec_libraries"), Text({}) >>)
ndk_proto_graphics ==
  H("PROTO_GRAPHICS_H", << Need("PRAGMAS_GRAPHICS_PRAGMAS_H", "pragmas_graphics_pragmas"),
     Need("GRAPHICS_GFXBASE_H", "graphics_gfxbase"), Text({}) >>)
ndk_proto_icon ==
  H("PROTO_ICON_H", << Need("PRAGMAS_ICON_PRAGMAS_H", "pragmas_icon_pragmas"),
     Need("EXEC_LIBRARIES_H", "exec_libraries"), Text({}) >>)
ndk_proto_iffparse ==
  H("PROTO_IFFPARSE_H", << Need("PRAGMAS_IFFPARSE_PRAGMAS_H", "pragmas_iffparse_pragmas"),
     Need("EXEC_LIBRARIES_H", "exec_libraries"), Text({}) >>)
ndk_proto_input ==
  H("PROTO_INPUT_H", << Need("PRAGMAS_INPUT_PRAGMAS_H", "pragmas_input_pragmas"),
     Need("EXEC_DEVICES_H", "exec_devices"), Text({}) >>)
ndk_proto_integer ==
  H("PROTO_INTEGER_H", << Need("PRAGMAS_INTEGER_PRAGMAS_H", "pragmas_integer_pragmas"),
     Need("EXEC_LIBRARIES_H", "exec_libraries"), Text({}) >>)
ndk_proto_intuition ==
  H("PROTO_INTUITION_H", << Need("PRAGMAS_INTUITION_PRAGMAS_H", "pragmas_intuition_pragmas"),
     Need("INTUITION_INTUITIONBASE_H", "intuition_intuitionbase"), Text({}) >>)
ndk_proto_keymap ==
  H("PROTO_KEYMAP_H", << Need("PRAGMAS_KEYMAP_PRAGMAS_H", "pragmas_keymap_pragmas"),
     Need("EXEC_LIBRARIES_H", "exec_libraries"), Text({}) >>)
ndk_proto_label ==
  H("PROTO_LABEL_H", << Need("PRAGMAS_LABEL_PRAGMAS_H", "pragmas_label_pragmas"),
     Need("EXEC_LIBRARIES_H", "exec_libraries"), Text({}) >>)
ndk_proto_layers ==
  H("PROTO_LAYERS_H", << Need("PRAGMAS_LAYERS_PRAGMAS_H", "pragmas_layers_pragmas"),
     Need("EXEC_LIBRARIES_H", "exec_libraries"), Text({}) >>)
ndk_proto_layout ==
  H("PROTO_LAYOUT_H", << Need("PRAGMAS_LAYOUT_PRAGMAS_H", "pragmas_layout_pragmas"),
     Need("EXEC_LIBRARIES_H", "exec_libraries"), Text({}) >>)
ndk_proto_listbrowser ==
  H("PROTO_LISTBROWSER_H", << Need("PRAGMAS_LISTBROWSER_PRAGMAS_H", "pragmas_listbrowser_pragmas"),
     Need("EXEC_LIBRARIES_H", "exec_libraries"), Text({}) >>)
ndk_proto_locale ==
  H("PROTO_LOCALE_H", << Need("PRAGMAS_LOCALE_PRAGMAS_H", "pragmas_locale_pragmas"),
     Need("LIBRARIES_LOCALE_H", "libraries_locale"), Text({}) >>)
ndk_proto_lowlevel ==
  H("PROTO_LOWLEVEL_H", << Need("PRAGMAS_LOWLEVEL_PRAGMAS_H", "pragmas_lowlevel_pragmas"),
     Need("EXEC_LIBRARIES_H", "exec_libraries"), Text({}) >>)
ndk_proto_mathffp ==
  H("PROTO_MATHFFP_H", << Need("PRAGMAS_MATHFFP_PRAGMAS_H", "pragmas_mathffp_pragmas"),
     Need("EXEC_LIBRARIES_H", "exec_libraries"), Text({}) >>)
ndk_proto_mathieeedoubbas ==
  H("PROTO_MATHIEEEDOUBBAS_H",
     << Need("PRAGMAS_MATHIEEEDOUBBAS_PRAGMAS_H", "pragmas_mathieeedoubbas_pragmas"),
     Need("EXEC_LIBRARIES_H", "exec_libraries"), Text({}) >>)
ndk_proto_mathieeedoubtrans ==
  H("PROTO_MATHIEEEDOUBTRANS_H",
     << Need("PRAGMAS_MATHIEEEDOUBTRANS_PRAGMAS_H", "pragmas_mathieeedoubtrans_pragmas"),
     Need("EXEC_LIBRARIES_H", "exec_libraries"), Text({}) >>)
ndk_proto_mathieeesingbas ==
  H("PROTO_MATHIEEESINGBAS_H",
     << Need("PRAGMAS_MATHIEEESINGBAS_PRAGMAS_H", "pragmas_mathieeesingbas_pragmas"),
     Need("EXEC_LIBRARIES_H", "exec_libraries"), Text({}) >>)
ndk_proto_mathieeesingtrans ==
  H("PROTO_MATHIEEESINGTRANS_H",
     << Need("PRAGMAS_MATHIEEESINGTRANS_PRAGMAS_H", "pragmas_mathieeesingtrans_pragmas"),
     Need("EXEC_LIBRARIES_H", "exec_libraries"), Text({}) >>)
ndk_proto_mathtrans ==
  H("PROTO_MATHTRANS_H", << Need("PRAGMAS_MATHTRANS_PRAGMAS_H", "pragmas_mathtrans_pragmas"),
     Need("EXEC_LIBRARIES_H", "exec_libraries"), Text({}) >>)
ndk_proto_misc ==
  H("PROTO_MISC_H", << Need("PRAGMAS_MISC_PRAGMAS_H", "pragmas_misc_pragmas"),
     Need("EXEC_LIBRARIES_H", "exec_libraries"), Text({}) >>)
ndk_proto_nonvolatile ==
  H("PROTO_NONVOLATILE_H", << Need("PRAGMAS_NONVOLATILE_PRAGMAS_H", "pragmas_nonvolatile_pragmas"),
     Need("EXEC_LIBRARIES_H", "exec_libraries"), Text({}) >>)
ndk_proto_palette ==
  H("PROTO_PALETTE_H", << Need("PRAGMAS_PALETTE_PRAGMAS_H", "pragmas_palette_pragmas"),
     Need("EXEC_LIBRARIES_H", "exec_libraries"), Text({}) >>)
ndk_proto_penmap ==
  H("PROTO_PENMAP_H", << Need("PRAGMAS_PENMAP_PRAGMAS_H", "pragmas_penmap_pragmas"),
     Need("EXEC_LIBRARIES_H", "exec_libraries"), Text({}) >>)
ndk_proto_popcycle ==
  H("PROTO_POPCYCLE_H", << Need("PRAGMAS_POPCYCLE_PRAGMAS_H", "pragmas_popcycle_pragmas"),
     Need("EXEC_LIBRARIES_H", "exec_libraries"), Text({}) >>)
ndk_proto_potgo ==
  H("PROTO_POTGO_H", << Need("PRAGMAS_POTGO_PRAGMAS_H", "pragmas_potgo_pragmas"),
     Need("EXEC_LIBRARIES_H", "exec_libraries"), Text({}) >>)
ndk_proto_radiobutton ==
  H("PROTO_RADIOBUTTON_H", << Need("PRAGMAS_RADIOBUTTON_PRAGMAS_H", "pragmas_radiobutton_pragmas"),
     Need("EXEC_LIBRARIES_H", "exec_libraries"), Text({}) >>)
ndk_proto_ramdrive ==
  H("PROTO_RAMDRIVE_H", << Need("PRAGMAS_RAMDRIVE_PRAGMAS_H", "pragmas_ramdrive_pragmas"),
     Need("EXEC_DEVICES_H", "exec_devices"), Text({}) >>)
ndk_proto_realtime ==
  H("PROTO_REALTIME_H", << Need("PRAGMAS_REALTIME_PRAGMAS_H", "pragmas_realtime_pragmas"),
     Need("EXEC_LIBRARIES_H", "exec_libraries"), Text({}) >>)
ndk_proto_requester ==
  H("PROTO_REQUESTER_H", << Need("PRAGMAS_REQUESTER_PRAGMAS_H", "pragmas_requester_pragmas"),
     Need("EXEC_LIBRARIES_H", "exec_libraries"), Text({}) >>)
ndk_proto_resource ==
  H("PROTO_RESOURCE_H", << Need("PRAGMAS_RESOURCE_PRAGMAS_H", "pragmas_resource_pragmas"),
     Need("EXEC_LIBRARIES_H", "exec_libraries"), Text({}) >>)
ndk_proto_rexxsyslib ==
  H("PROTO_REXXSYSLIB_H", << Need("PRAGMAS_REXXSYSLIB_PRAGMAS_H", "pragmas_rexxsyslib_pragmas"),
     Need("REXX_RXSLIB_H", "rexx_rxslib"), Text({}) >>)
ndk_proto_scroller ==
  H("PROTO_SCROLLER_H", << Need("PRAGMAS_SCROLLER_PRAGMAS_H", "pragmas_scroller_pragmas"),
     Need("EXEC_LIBRARIES_H", "exec_libraries"), Text({}) >>)
ndk_proto_slider ==
  H("PROTO_SLIDER_H", << Need("PRAGMAS_SLIDER_PRAGMAS_H", "pragmas_slider_pragmas"),
     Need("EXEC_LIBRARIES_H", "exec_libraries"), Text({}) >>)
ndk_proto_space ==
  H("PROTO_SPACE_H", << Need("PRAGMAS_SPACE_PRAGMAS_H", "pragmas_space_pragmas"),
     Need("EXEC_LIBRARIES_H", "exec_libraries"), Text({}) >>)
ndk_proto_speedbar ==
  H("PROTO_SPEEDBAR_H", << Need("PRAGMAS_SPEEDBAR_PRAGMAS_H", "pragmas_speedbar_pragmas"),
     Need("EXEC_LIBRARIES_H", "exec_libraries"), Text({}) >>)
ndk_proto_string ==
  H("PROTO_STRING_H", << Need("PRAGMAS_STRING_PRAGMAS_H", "pragmas_string_pragmas"),
     Need("EXEC_LIBRARIES_H", "exec_libraries"), Text({}) >>)
ndk_proto_texteditor ==
  H("PROTO_TEXTEDITOR_H", << Need("PRAGMAS_TEXTEDITOR_PRAGMAS_H", "pragmas_texteditor_pragmas"),
     Need("EXEC_LIBRARIES_H", "exec_libraries"), Text({}) >>)
ndk_proto_timer ==
  H("PROTO_TIMER_H", << Need("PRAGMAS_TIMER_PRAGMAS_H", "pragmas_timer_pragmas"),
     Need("EXEC_DEVICES_H", "exec_devices"), Text({}) >>)
ndk_proto_translator ==
  H("PROTO_TRANSLATOR_H", << Need("PRAGMAS_TRANSLATOR_PRAGMAS_H", "pragmas_translator_pragmas"),
     Need("EXEC_LIBRARIES_H", "exec_libraries"), Text({}) >>)
ndk_proto_utility ==
  H("PROTO_UTILITY_H", << Need("PRAGMAS_UTILITY_PRAGMAS_H", "pragmas_utility_pragmas"),
     Need("EXEC_LIBRARIES_H", "exec_libraries"), Text({}) >>)
ndk_proto_virtual ==
  H("PROTO_VIRTUAL_H", << Need("PRAGMAS_VIRTUAL_PRAGMAS_H", "pragmas_virtual_pragmas"),
     Need("EXEC_LIBRARIES_H", "exec_libraries"), Text({}) >>)
ndk_proto_wb ==
  H("PROTO_WB_H", << Need("PRAGMAS_WB_PRAGMAS_H", "pragmas_wb_pragmas"),
     Need("EXEC_LIBRARIES_H", "exec_libraries"), Text({}) >>)
ndk_proto_window ==
  H("PROTO_WINDOW_H", << Need("PRAGMAS_WINDOW_PRAGMAS_H", "pragmas_window_pragmas"),
     Need("EXEC_LIBRARIES_H", "exec_libraries"), Text({}) >>)
inc_proto_ahi ==
  Proto("_PROTO_AHI_H", "CLIB_AHI_PROTOS_H", <<Need("EXEC_TYPES_H", "exec_types")>>,
     "clib_ahi_protos", "defines_ahi", "inline_ahi", "inline_ahi_protos", "pragma_ahi_lib")
inc_proto_ahi_sub ==
  Proto("_PROTO_AHI_SUB_H", "CLIB_AHI_SUB_PROTOS_H", <<Need("EXEC_TYPES_H", "exec_types")>>,
     "clib_ahi_sub_protos", "defines_ahi_sub", "inline_ahi_sub", "inline_ahi_sub_protos",
     "pragma_ahi_sub_lib")
inc_proto_amigaguide ==
  Proto("_PROTO_AMIGAGUIDE_H", "CLIB_AMIGAGUIDE_PROTOS_H", <<Need("EXEC_TYPES_H", "exec_types")>>,
     "clib_amigaguide_protos", "defines_amigaguide", "inline_amigaguide",
     "inline_amigaguide_protos", "pragma_amigaguide_lib")
inc_proto_aml ==
  Proto("_PROTO_AML_H", "CLIB_AML_PROTOS_H", <<Need("EXEC_TYPES_H", "exec_types")>>,
     "clib_aml_protos", "defines_aml", "inline_aml", "inline_aml_protos", "pragma_aml_lib")
inc_proto_arexx ==
  Proto("_PROTO_AREXX_H", "CLIB_AREXX_PROTOS_H", <<Need("EXEC_TYPES_H", "exec_types")>>,
     "clib_arexx_protos", "defines_arexx", "inline_arexx", "inline_arexx_protos",
     "pragma_arexx_lib")
inc_proto_asl ==
  Proto("_PROTO_ASL_H", "CLIB_ASL_PROTOS_H", <<Need("EXEC_TYPES_H", "exec_types")>>,
     "clib_asl_protos", "defines_asl", "inline_asl", "inline_asl_protos", "pragma_asl_lib")
inc_proto_battclock ==
  Proto("_PROTO_BATTCLOCK_H", "CLIB_BATTCLOCK_PROTOS_H", <<Need("EXEC_TYPES_H", "exec_types")>>,
     "clib_battclock_protos", "defines_battclock", "inline_battclock", "inline_battclock_protos",
     "pragma_battclock_lib")
inc_proto_battmem ==
  Proto("_PROTO_BATTMEM_H", "CLIB_BATTMEM_PROTOS_H", <<Need("EXEC_TYPES_H", "exec_types")>>,
     "clib_battmem_protos", "defines_battmem", "inline_battmem", "inline_battmem_protos",
     "pragma_battmem_lib")
inc_proto_bevel ==
  Proto("_PROTO_BEVEL_H", "CLIB_BEVEL_PROTOS_H", <<Need("EXEC_TYPES_H", "exec_types")>>,
     "clib_bevel_protos", "defines_bevel", "inline_bevel", "inline_bevel_protos",
     "pragma_bevel_lib")
inc_proto_bitmap ==
  Proto("_PROTO_BITMAP_H", "CLIB_BITMAP_PROTOS_H", <<Need("EXEC_TYPES_H", "exec_types")>>,
     "clib_bitmap_protos", "defines_bitmap", "inline_bitmap", "inline_bitmap_protos",
     "pragma_bitmap_lib")
inc_proto_bullet ==
  Proto("_PROTO_BULLET_H", "CLIB_BULLET_PROTOS_H", <<Need("EXEC_TYPES_H", "exec_types")>>,
     "clib_bullet_protos", "defines_bullet", "inline_bullet", "inline_bullet_protos",
     "pragma_bullet_lib")
inc_proto_button ==
  Proto("_PROTO_BUTTON_H", "CLIB_BUTTON_PROTOS_H", <<Need("EXEC_TYPES_H", "exec_types")>>,
     "clib_button_protos", "defines_button", "inline_button", "inline_button_protos",
     "pragma_button_lib")
inc_proto_cardres ==
  Proto("_PROTO_CARDRES_H", "CLIB_CARDRES_PROTOS_H", <<Need("EXEC_TYPES_H", "exec_types")>>,
     "clib_cardres_protos", "defines_cardres", "inline_cardres", "inline_cardres_protos",
     "pragma_cardres_lib")
inc_proto_cgxdither ==
  Proto("_PROTO_CGXDITHER_H", "CLIB_CGXDITHER_PROTOS_H", <<Need("EXEC_TYPES_H", "exec_types")>>,
     "clib_cgxdither_protos", "defines_cgxdither", "inline_cgxdither", "inline_cgxdither_protos",
     "pragma_cgxdither_lib")
inc_proto_cgxsystem ==
  Proto("_PROTO_CGXSYSTEM_H", "CLIB_CGXSYSTEM_PROTOS_H", <<Need("EXEC_TYPES_H", "exec_types")>>,
     "clib_cgxsystem_protos", "defines_cgxsystem", "inline_cgxsystem", "inline_cgxsystem_protos",
     "pragma_cgxsystem_lib")
inc_proto_cgxvideo ==
  Proto("_PROTO_CGXVIDEO_H", "CLIB_CGXVIDEO_PROTOS_H", <<Need("EXEC_TYPES_H", "exec_types")>>,
     "clib_cgxvideo_protos", "defines_cgxvideo", "inline_cgxvideo", "inline_cgxvideo_protos",
     "pragma_cgxvideo_lib")
inc_proto_checkbox ==
  Proto("_PROTO_CHECKBOX_H", "CLIB_CHECKBOX_PROTOS_H", <<Need("EXEC_TYPES_H", "exec_types")>>,
     "clib_checkbox_protos", "defines_checkbox", "inline_checkbox", "inline_checkbox_protos",
     "pragma_checkbox_lib")
inc_proto_chooser ==
  Proto("_PROTO_CHOOSER_H", "CLIB_CHOOSER_PROTOS_H", <<Need("EXEC_TYPES_H", "exec_types")>>,
     "clib_chooser_protos", "defines_chooser", "inline_chooser", "inline_chooser_protos",
     "pragma_chooser_lib")
inc_proto_chunkyppc ==
  H("_PROTO_CHUNKYPPC_H", << Need("EXEC_TYPES_H", "exec_types"),
     When({<<{}, {"CLIB_CHUNKYPPC_PROTOS_H", "__GNUC__"}>>}, <<"clib_chunkyppc_protos">>), Text({}),
     When({<<{"__GNUC__"}, {}>>}, <<"inline_chunkyppc">>),
     When({<<{"__VBCC__"}, {"__GNUC__"}>>}, <<"inline_chunkyppc_protos">>),
     When({<<{}, {"__GNUC__", "__VBCC__"}>>}, <<"pragma_chunkyppc_lib">>) >>)
inc_proto_clicktab ==
  Proto("_PROTO_CLICKTAB_H", "CLIB_CLICKTAB_PROTOS_H", <<Need("EXEC_TYPES_H", "exec_types")>>,
     "clib_clicktab_protos", "defines_clicktab", "inline_clicktab", "inline_clicktab_protos",
     "pragma_clicktab_lib")
inc_proto_colorwheel ==
  Proto("_PROTO_COLORWHEEL_H", "CLIB_COLORWHEEL_PROTOS_H", <<Need("EXEC_TYPES_H", "exec_types")>>,
     "clib_colorwheel_protos", "defines_colorwheel", "inline_colorwheel",
     "inline_colorwheel_protos", "pragma_colorwheel_lib")
inc_proto_commodities ==
  Proto("_PROTO_COMMODITIES_H", "CLIB_COMMODITIES_PROTOS_H", <<Need("EXEC_TYPES_H", "exec_types")>>,
     "clib_commodities_protos", "defines_commodities", "inline_commodities",
     "inline_commodities_protos", "pragma_commodities_lib")
inc_proto_console ==
  Proto("_PROTO_CONSOLE_H", "CLIB_CONSOLE_PROTOS_H", <<Need("EXEC_TYPES_H", "exec_types")>>,
     "clib_console_protos", "defines_console", "inline_console", "inline_console_protos",
     "pragma_console_lib")
inc_proto_cybergraphics ==
  Proto("_PROTO_CYBERGRAPHICS_H", "CLIB_CYBERGRAPHICS_PROTOS_H",
     <<Need("EXEC_TYPES_H", "exec_types")>>, "clib_cybergraphics_protos", "defines_cybergraphics",
     "inline_cybergraphics", "inline_cybergraphics_protos", "pragma_cybergraphics_lib")
inc_proto_datatypes ==
  Proto("_PROTO_DATATYPES_H", "CLIB_DATATYPES_PROTOS_H", <<Need("EXEC_TYPES_H", "exec_types")>>,
     "clib_datatypes_protos", "defines_datatypes", "inline_datatypes", "inline_datatypes_protos",
     "pragma_datatypes_lib")
inc_proto_datebrowser ==
  Proto("_PROTO_DATEBROWSER_H", "CLIB_DATEBROWSER_PROTOS_H", <<Need("EXEC_TYPES_H", "exec_types")>>,
     "clib_datebrowser_protos", "defines_datebrowser", "inline_datebrowser",
     "inline_datebrowser_protos", "pragma_datebrowser_lib")
inc_proto_disk ==
  Proto("_PROTO_DISK_H", "CLIB_DISK_PROTOS_H", <<Need("EXEC_TYPES_H", "exec_types")>>,
     "clib_disk_protos", "defines_disk", "inline_disk", "inline_disk_protos", "pragma_disk_lib")
inc_proto_diskfont ==
  Proto("_PROTO_DISKFONT_H", "CLIB_DISKFONT_PROTOS_H", <<Need("EXEC_TYPES_H", "exec_types")>>,
     "clib_diskfont_protos", "defines_diskfont", "inline_diskfont", "inline_diskfont_protos",
     "pragma_diskfont_lib")
inc_proto_dos ==
  Proto("_PROTO_DOS_H", "CLIB_DOS_PROTOS_H", <<Need("EXEC_TYPES_H", "exec_types")>>,
     "clib_dos_protos", "defines_dos", "inline_dos", "inline_dos_protos", "pragma_dos_lib")
inc_proto_drawlist ==
  Proto("_PROTO_DRAWLIST_H", "CLIB_DRAWLIST_PROTOS_H", <<Need("EXEC_TYPES_H", "exec_types")>>,
     "clib_drawlist_protos", "defines_drawlist", "inline_drawlist", "inline_drawlist_protos",
     "pragma_drawlist_lib")
inc_proto_dtclass ==
  Proto("_PROTO_DTCLASS_H", "CLIB_DTCLASS_PROTOS_H", <<Need("EXEC_TYPES_H", "exec_types")>>,
     "clib_dtclass_protos", "defines_dtclass", "inline_dtclass", "inline_dtclass_protos",
     "pragma_dtclass_lib")
inc_proto_exec ==
  Proto("_PROTO_EXEC_H", "CLIB_EXEC_PROTOS_H", <<Need("EXEC_TYPES_H", "exec_types")>>,
     "clib_exec_protos", "defines_exec", "inline_exec", "inline_exec_protos", "pragma_exec_lib")
inc_proto_expansion ==
  Proto("_PROTO_EXPANSION_H", "CLIB_EXPANSION_PROTOS_H", <<Need("EXEC_TYPES_H", "exec_types")>>,
     "clib_expansion_protos", "defines_expansion", "inline_expansion", "inline_expansion_protos",
     "pragma_expansion_lib")
inc_proto_fuelgauge ==
  Proto("_PROTO_FUELGAUGE_H", "CLIB_FUELGAUGE_PROTOS_H", <<Need("EXEC_TYPES_H", "exec_types")>>,
     "clib_fuelgauge_protos", "defines_fuelgauge", "inline_fuelgauge", "inline_fuelgauge_protos",
     "pragma_fuelgauge_lib")
inc_proto_gadtools ==
  Proto("_PROTO_GADTOOLS_H", "CLIB_GADTOOLS_PROTOS_H", <<Need("EXEC_TYPES_H", "exec_types")>>,
     "clib_gadtools_protos", "defines_gadtools", "inline_gadtools", "inline_gadtools_protos",
     "pragma_gadtools_lib")
inc_proto_getfile ==
  Proto("_PROTO_GETFILE_H", "CLIB_GETFILE_PROTOS_H", <<Need("EXEC_TYPES_H", "exec_types")>>,
     "clib_getfile_protos", "defines_getfile", "inline_getfile", "inline_getfile_protos",
     "pragma_getfile_lib")
inc_proto_getfont ==
  Proto("_PROTO_GETFONT_H", "CLIB_GETFONT_PROTOS_H", <<Need("EXEC_TYPES_H", "exec_types")>>,
     "clib_getfont_protos", "defines_getfont", "inline_getfont", "inline_getfont_protos",
     "pragma_getfont_lib")
inc_proto_getscreenmode ==
  Proto("_PROTO_GETSCREENMODE_H", "CLIB_GETSCREENMODE_PROTOS_H",
     <<Need("EXEC_TYPES_H", "exec_types")>>, "clib_getscreenmode_protos", "defines_getscreenmode",
     "inline_getscreenmode", "inline_getscreenmode_protos", "pragma_getscreenmode_lib")
inc_proto_glyph ==
  Proto("_PROTO_GLYPH_H", "CLIB_GLYPH_PROTOS_H", <<Need("EXEC_TYPES_H", "exec_types")>>,
     "clib_glyph_protos", "defines_glyph", "inline_glyph", "inline_glyph_protos",
     "pragma_glyph_lib")
inc_proto_graphics ==
  Proto("_PROTO_GRAPHICS_H", "CLIB_GRAPHICS_PROTOS_H", <<Need("EXEC_TYPES_H", "exec_types")>>,
     "clib_graphics_protos", "defines_graphics", "inline_graphics", "inline_graphics_protos",
     "pragma_graphics_lib")
inc_proto_icon ==
  Proto("_PROTO_ICON_H", "CLIB_ICON_PROTOS_H", <<Need("EXEC_TYPES_H", "exec_types")>>,
     "clib_icon_protos", "defines_icon", "inline_icon", "inline_icon_protos", "pragma_icon_lib")
inc_proto_iffparse ==
  Proto("_PROTO_IFFPARSE_H", "CLIB_IFFPARSE_PROTOS_H", <<Need("EXEC_TYPES_H", "exec_types")>>,
     "clib_iffparse_protos", "defines_iffparse", "inline_iffparse", "inline_iffparse_protos",
     "pragma_iffparse_lib")
inc_proto_input ==
  Proto("_PROTO_INPUT_H", "CLIB_INPUT_PROTOS_H", <<Need("EXEC_TYPES_H", "exec_types")>>,
     "clib_input_protos", "defines_input", "inline_input", "inline_input_protos",
     "pragma_input_lib")
inc_proto_integer ==
  Proto("_PROTO_INTEGER_H", "CLIB_INTEGER_PROTOS_H", <<Need("EXEC_TYPES_H", "exec_types")>>,
     "clib_integer_protos", "defines_integer", "inline_integer", "inline_integer_protos",
     "pragma_integer_lib")
inc_proto_intuition ==
  Proto("_PROTO_INTUITION_H", "CLIB_INTUITION_PROTOS_H", <<Need("EXEC_TYPES_H", "exec_types")>>,
     "clib_intuition_protos", "defines_intuition", "inline_intuition", "inline_intuition_protos",
     "pragma_intuition_lib")
inc_proto_keymap ==
  Proto("_PROTO_KEYMAP_H", "CLIB_KEYMAP_PROTOS_H", <<Need("EXEC_TYPES_H", "exec_types")>>,
     "clib_keymap_protos", "defines_keymap", "inline_keymap", "inline_keymap_protos",
     "pragma_keymap_lib")
inc_proto_label ==
  Proto("_PROTO_LABEL_H", "CLIB_LABEL_PROTOS_H", <<Need("EXEC_TYPES_H", "exec_types")>>,
     "clib_label_protos", "defines_label", "inline_label", "inline_label_protos",
     "pragma_label_lib")
inc_proto_layers ==
  Proto("_PROTO_LAYERS_H", "CLIB_LAYERS_PROTOS_H", <<Need("EXEC_TYPES_H", "exec_types")>>,
     "clib_layers_protos", "defines_layers", "inline_layers", "inline_layers_protos",
     "pragma_layers_lib")
inc_proto_layout ==
  Proto("_PROTO_LAYOUT_H", "CLIB_LAYOUT_PROTOS_H", <<Need("EXEC_TYPES_H", "exec_types")>>,
     "clib_layout_protos", "defines_layout", "inline_layout", "inline_layout_protos",
     "pragma_layout_lib")
inc_proto_listbrowser ==
  Proto("_PROTO_LISTBROWSER_H", "CLIB_LISTBROWSER_PROTOS_H", <<Need("EXEC_TYPES_H", "exec_types")>>,
     "clib_listbrowser_protos", "defines_listbrowser", "inline_listbrowser",
     "inline_listbrowser_protos", "pragma_listbrowser_lib")
inc_proto_locale ==
  Proto("_PROTO_LOCALE_H", "CLIB_LOCALE_PROTOS_H", <<Need("EXEC_TYPES_H", "exec_types")>>,
     "clib_locale_protos", "defines_locale", "inline_locale", "inline_locale_protos",
     "pragma_locale_lib")
inc_proto_lowlevel ==
  Proto("_PROTO_LOWLEVEL_H", "CLIB_LOWLEVEL_PROTOS_H", <<Need("EXEC_TYPES_H", "exec_types")>>,
     "clib_lowlevel_protos", "defines_lowlevel", "inline_lowlevel", "inline_lowlevel_protos",
     "pragma_lowlevel_lib")
inc_proto_mathffp ==
  Proto("_PROTO_MATHFFP_H", "CLIB_MATHFFP_PROTOS_H", <<Need("EXEC_TYPES_H", "exec_types")>>,
     "clib_mathffp_protos", "defines_mathffp", "inline_mathffp", "inline_mathffp_protos",
     "pragma_mathffp_lib")
inc_proto_mathieeedoubbas ==
  Proto("_PROTO_MATHIEEEDOUBBAS_H", "CLIB_MATHIEEEDOUBBAS_PROTOS_H",
     <<Need("EXEC_TYPES_H", "exec_types")>>, "clib_mathieeedoubbas_protos",
     "defines_mathieeedoubbas", "inline_mathieeedoubbas", "inline_mathieeedoubbas_protos",
     "pragma_mathieeedoubbas_lib")
inc_proto_mathieeedoubtrans ==
  Proto("_PROTO_MATHIEEEDOUBTRANS_H", "CLIB_MATHIEEEDOUBTRANS_PROTOS_H",
     <<Need("EXEC_TYPES_H", "exec_types")>>, "clib_mathieeedoubtrans_protos",
     "defines_mathieeedoubtrans", "inline_mathieeedoubtrans", "inline_mathieeedoubtrans_protos",
     "pragma_mathieeedoubtrans_lib")
inc_proto_mathieeesingbas ==
  Proto("_PROTO_MATHIEEESINGBAS_H", "CLIB_MATHIEEESINGBAS_PROTOS_H",
     <<Need("EXEC_TYPES_H", "exec_types")>>, "clib_mathieeesingbas_protos",
     "defines_mathieeesingbas", "inline_mathieeesingbas", "inline_mathieeesingbas_protos",
     "pragma_mathieeesingbas_lib")
inc_proto_mathieeesingtrans ==
  Proto("_PROTO_MATHIEEESINGTRANS_H", "CLIB_MATHIEEESINGTRANS_PROTOS_H",
     <<Need("EXEC_TYPES_H", "exec_types")>>, "clib_mathieeesingtrans_protos",
     "defines_mathieeesingtrans", "inline_mathieeesingtrans", "inline_mathieeesingtrans_protos",
     "pragma_mathieeesingtrans_lib")
inc_proto_mathtrans ==
  Proto("_PROTO_MATHTRANS_H", "CLIB_MATHTRANS_PROTOS_H", <<Need("EXEC_TYPES_H", "exec_types")>>,
     "clib_mathtrans_protos", "defines_mathtrans", "inline_mathtrans", "inline_mathtrans_protos",
     "pragma_mathtrans_lib")
inc_proto_misc ==
  Proto("_PROTO_MISC_H", "CLIB_MISC_PROTOS_H", <<Need("EXEC_TYPES_H", "exec_types")>>,
     "clib_misc_protos", "defines_misc", "inline_misc", "inline_misc_protos", "pragma_misc_lib")
inc_proto_muiclass ==
  Proto("_PROTO_MUICLASS_H", "CLIB_MUICLASS_PROTOS_H", <<Need("EXEC_TYPES_H", "exec_types")>>,
     "clib_muiclass_protos", "defines_muiclass", "inline_muiclass", "inline_muiclass_protos",
     "pragma_muiclass_lib")
inc_proto_muimaster ==
  Proto("_PROTO_MUIMASTER_H", "CLIB_MUIMASTER_PROTOS_H", <<Need("EXEC_TYPES_H", "exec_types")>>,
     "clib_muimaster_protos", "defines_muimaster", "inline_muimaster", "inline_muimaster_protos",
     "pragma_muimaster_lib")
inc_proto_nonvolatile ==
  Proto("_PROTO_NONVOLATILE_H", "CLIB_NONVOLATILE_PROTOS_H", <<Need("EXEC_TYPES_H", "exec_types")>>,
     "clib_nonvolatile_protos", "defines_nonvolatile", "inline_nonvolatile",
     "inline_nonvolatile_protos", "pragma_nonvolatile_lib")
inc_proto_palette ==
  Proto("_PROTO_PALETTE_H", "CLIB_PALETTE_PROTOS_H", <<Need("EXEC_TYPES_H", "exec_types")>>,
     "clib_palette_protos", "defines_palette", "inline_palette", "inline_palette_protos",
     "pragma_palette_lib")
inc_proto_penmap ==
  Proto("_PROTO_PENMAP_H", "CLIB_PENMAP_PROTOS_H", <<Need("EXEC_TYPES_H", "exec_types")>>,
     "clib_penmap_protos", "defines_penmap", "inline_penmap", "inline_penmap_protos",
     "pragma_penmap_lib")
inc_proto_picasso96 ==
  Proto("_PROTO_PICASSO96_H", "CLIB_PICASSO96_PROTOS_H", <<Need("EXEC_TYPES_H", "exec_types")>>,
     "clib_picasso96_protos", "defines_picasso96", "inline_picasso96", "inline_picasso96_protos",
     "pragma_picasso96_lib")
inc_proto_popcycle ==
  Proto("_PROTO_POPCYCLE_H", "CLIB_POPCYCLE_PROTOS_H", <<Need("EXEC_TYPES_H", "exec_types")>>,
     "clib_popcycle_protos", "defines_popcycle", "inline_popcycle", "inline_popcycle_protos",
     "pragma_popcycle_lib")
inc_proto_potgo ==
  Proto("_PROTO_POTGO_H", "CLIB_POTGO_PROTOS_H", <<Need("EXEC_TYPES_H", "exec_types")>>,
     "clib_potgo_protos", "defines_potgo", "inline_potgo", "inline_potgo_protos",
     "pragma_potgo_lib")
inc_proto_powerpc ==
  Proto("_PROTO_POWERPC_H", "CLIB_POWERPC_PROTOS_H", <<Need("EXEC_TYPES_H", "exec_types")>>,
     "clib_powerpc_protos", "defines_powerpc", "inline_powerpc", "inline_powerpc_protos",
     "pragma_powerpc_lib")
inc_proto_ppc ==
  Proto("_PROTO_PPC_H", "CLIB_PPC_PROTOS_H", <<Need("EXEC_TYPES_H", "exec_types")>>,
     "clib_ppc_protos", "defines_ppc", "inline_ppc", "inline_ppc_protos", "pragma_ppc_lib")
inc_proto_ppcdiss ==
  Proto("_PROTO_PPCDISS_H", "CLIB_PPCDISS_PROTOS_H", <<Need("EXEC_TYPES_H", "exec_types")>>,
     "clib_ppcdiss_protos", "defines_ppcdiss", "inline_ppcdiss", "inline_ppcdiss_protos",
     "pragma_ppcdiss_lib")
inc_proto_radiobutton ==
  Proto("_PROTO_RADIOBUTTON_H", "CLIB_RADIOBUTTON_PROTOS_H", <<Need("EXEC_TYPES_H", "exec_types")>>,
     "clib_radiobutton_protos", "defines_radiobutton", "inline_radiobutton",
     "inline_radiobutton_protos", "pragma_radiobutton_lib")
inc_proto_ramdrive ==
  Proto("_PROTO_RAMDRIVE_H", "CLIB_RAMDRIVE_PROTOS_H", <<Need("EXEC_TYPES_H", "exec_types")>>,
     "clib_ramdrive_protos", "defines_ramdrive", "inline_ramdrive", "inline_ramdrive_protos",
     "pragma_ramdrive_lib")
inc_proto_realtime ==
  Proto("_PROTO_REALTIME_H", "CLIB_REALTIME_PROTOS_H", <<Need("EXEC_TYPES_H", "exec_types")>>,
     "clib_realtime_protos", "defines_realtime", "inline_realtime", "inline_realtime_protos",
     "pragma_realtime_lib")
inc_proto_reqtools ==
  Proto("_PROTO_REQTOOLS_H", "CLIB_REQTOOLS_PROTOS_H", <<Need("EXEC_TYPES_H", "exec_types")>>,
     "clib_reqtools_protos", "defines_reqtools", "inline_reqtools", "inline_reqtools_protos",
     "pragma_reqtools_lib")
inc_proto_requester ==
  Proto("_PROTO_REQUESTER_H", "CLIB_REQUESTER_PROTOS_H", <<Need("EXEC_TYPES_H", "exec_types")>>,
     "clib_requester_protos", "defines_requester", "inline_requester", "inline_requester_protos",
     "pragma_requester_lib")
inc_proto_rexxsyslib ==
  Proto("_PROTO_REXXSYSLIB_H", "CLIB_REXXSYSLIB_PROTOS_H", <<Need("EXEC_TYPES_H", "exec_types")>>,
     "clib_rexxsyslib_protos", "defines_rexxsyslib", "inline_rexxsyslib",
     "inline_rexxsyslib_protos", "pragma_rexxsyslib_lib")
inc_proto_rtgmaster ==
  H("_PROTO_RTGMASTER_H", << Need("EXEC_TYPES_H", "exec_types"),
     When({<<{}, {"CLIB_RTGMASTER_PROTOS_H", "__GNUC__"}>>}, <<"clib_rtgmaster_protos">>), Text({}),
     When({<<{"__GNUC__"}, {}>>}, <<"inline_rtgmaster">>),
     When({<<{"__VBCC__"}, {"__GNUC__"}>>}, <<"inline_rtgmaster_protos">>),
     When({<<{}, {"__GNUC__", "__VBCC__"}>>}, <<"pragma_rtgmaster_lib">>) >>)
inc_proto_scroller ==
  Proto("_PROTO_SCROLLER_H", "CLIB_SCROLLER_PROTOS_H", <<Need("EXEC_TYPES_H", "exec_types")>>,
     "clib_scroller_protos", "defines_scroller", "inline_scroller", "inline_scroller_protos",
     "pragma_scroller_lib")
inc_proto_slider ==
  Proto("_PROTO_SLIDER_H", "CLIB_SLIDER_PROTOS_H", <<Need("EXEC_TYPES_H", "exec_types")>>,
     "clib_slider_protos", "defines_slider", "inline_slider", "inline_slider_protos",
     "pragma_slider_lib")
inc_proto_socket ==
  Proto("_PROTO_SOCKET_H", "CLIB_SOCKET_PROTOS_H", <<Need("EXEC_TYPES_H", "exec_types")>>,
     "clib_socket_protos", "defines_socket", "inline_socket", "inline_socket_protos",
     "pragma_socket_lib")
inc_proto_space ==
  Proto("_PROTO_SPACE_H", "CLIB_SPACE_PROTOS_H", <<Need("EXEC_TYPES_H", "exec_types")>>,
     "clib_space_protos", "defines_space", "inline_space", "inline_space_protos",
     "pragma_space_lib")
inc_proto_speedbar ==
  Proto("_PROTO_SPEEDBAR_H", "CLIB_SPEEDBAR_PROTOS_H", <<Need("EXEC_TYPES_H", "exec_types")>>,
     "clib_speedbar_protos", "defines_speedbar", "inline_speedbar", "inline_speedbar_protos",
     "pragma_speedbar_lib")
inc_proto_string ==
  Proto("_PROTO_STRING_H", "CLIB_STRING_PROTOS_H", <<Need("EXEC_TYPES_H", "exec_types")>>,
     "clib_string_protos", "defines_string", "inline_string", "inline_string_protos",
     "pragma_string_lib")
inc_proto_texteditor ==
  Proto("_PROTO_TEXTEDITOR_H", "CLIB_TEXTEDITOR_PROTOS_H", <<Need("EXEC_TYPES_H", "exec_types")>>,
     "clib_texteditor_protos", "defines_texteditor", "inline_texteditor",
     "inline_texteditor_protos", "pragma_texteditor_lib")
inc_proto_textfield ==
  H("_PROTO_TEXTFIELD_H", << Need("EXEC_TYPES_H", "exec_types"),
     When({<<{}, {"CLIB_TEXTFIELD_PROTOS_H", "__GNUC__"}>>}, <<"clib_textfield_protos">>), Text({}),
     When({<<{"__GNUC__"}, {}>>}, <<"inline_textfield">>),
     When({<<{"__VBCC__"}, {"__GNUC__"}>>}, <<"inline_textfield_protos">>),
     When({<<{}, {"__GNUC__", "__VBCC__"}>>}, <<"pragma_textfield_lib">>) >>)
inc_proto_timer ==
  Proto("_PROTO_TIMER_H", "CLIB_TIMER_PROTOS_H", <<Need("EXEC_TYPES_H", "exec_types")>>,
     "clib_timer_protos", "defines_timer", "inline_timer", "inline_timer_protos",
     "pragma_timer_lib")
inc_proto_translator ==
  Proto("_PROTO_TRANSLATOR_H", "CLIB_TRANSLATOR_PROTOS_H", <<Need("EXEC_TYPES_H", "exec_types")>>,
     "clib_translator_protos", "defines_translator", "inline_translator",
     "inline_translator_protos", "pragma_translator_lib")
inc_proto_triton ==
  H("_PROTO_TRITON_H", << Need("EXEC_TYPES_H", "exec_types"),
     When({<<{}, {"CLIB_TRITON_PROTOS_H", "__GNUC__"}>>}, <<"clib_triton_protos">>), Text({}),
     When({<<{"__GNUC__"}, {}>>}, <<"inline_triton">>),
     When({<<{"__VBCC__"}, {"__GNUC__"}>>}, <<"inline_triton_protos">>),
     When({<<{}, {"__GNUC__", "__VBCC__"}>>}, <<"pragma_triton_lib">>) >>)
inc_proto_usergroup ==
  Proto("_PROTO_USERGROUP_H", "CLIB_USERGROUP_PROTOS_H", <<Need("EXEC_TYPES_H", "exec_types")>>,
     "clib_usergroup_protos", "defines_usergroup", "inline_usergroup", "inline_usergroup_protos",
     "pragma_usergroup_lib")
inc_proto_utility ==
  Proto("_PROTO_UTILITY_H", "CLIB_UTILITY_PROTOS_H", <<Need("EXEC_TYPES_H", "exec_types")>>,
     "clib_utility_protos", "defines_utility", "inline_utility", "inline_utility_protos",
     "pragma_utility_lib")
inc_proto_warp3d ==
  Proto("_PROTO_WARP3D_H", "CLIB_WARP3D_PROTOS_H", <<Need("EXEC_TYPES_H", "exec_types")>>,
     "clib_warp3d_protos", "defines_warp3d", "inline_warp3d", "inline_warp3d_protos",
     "pragma_warp3d_lib")
inc_proto_wb ==
  Proto("_PROTO_WB_H", "CLIB_WB_PROTOS_H", <<Need("EXEC_TYPES_H", "exec_types")>>, "clib_wb_protos",
     "defines_wb", "inline_wb", "inline_wb_protos", "pragma_wb_lib")
inc_proto_window ==
  Proto("_PROTO_WINDOW_H", "CLIB_WINDOW_PROTOS_H", <<Need("EXEC_TYPES_H", "exec_types")>>,
     "clib_window_protos", "defines_window", "inline_window", "inline_window_protos",
     "pragma_window_lib")
inc_proto_wizard ==
  Proto("_PROTO_WIZARD_H", "CLIB_WIZARD_PROTOS_H", <<Need("EXEC_TYPES_H", "exec_types")>>,
     "clib_wizard_protos", "defines_wizard", "inline_wizard", "inline_wizard_protos",
     "pragma_wizard_lib")

\* By name.
NdkProtos ==
  [ proto_amigaguide |-> ndk_proto_amigaguide, proto_aml |-> ndk_proto_aml, proto_arexx |->
    ndk_proto_arexx, proto_asl |-> ndk_proto_asl, proto_battclock |-> ndk_proto_battclock, proto_battmem
    |-> ndk_proto_battmem, proto_bevel |-> ndk_proto_bevel, proto_bitmap |-> ndk_proto_bitmap,
    proto_bullet |-> ndk_proto_bullet, proto_button |-> ndk_proto_button, proto_cardres |->
    ndk_proto_cardres, proto_checkbox |-> ndk_proto_checkbox, proto_chooser |-> ndk_proto_chooser,
    proto_cia |-> ndk_proto_cia, proto_clicktab |-> ndk_proto_clicktab, proto_colorwheel |->
    ndk_proto_colorwheel, proto_commodities |-> ndk_proto_commodities, proto_console |->
    ndk_proto_console, proto_datatypes |-> ndk_proto_datatypes, proto_datebrowser |->
    ndk_proto_datebrowser, proto_disk |-> ndk_proto_disk, proto_diskfont |-> ndk_proto_diskfont,
    proto_dos |-> ndk_proto_dos, proto_drawlist |-> ndk_proto_drawlist, proto_exec |-> ndk_proto_exec,
    proto_expansion |-> ndk_proto_expansion, proto_fuelgauge |-> ndk_proto_fuelgauge, proto_gadtools |->
    ndk_proto_gadtools, proto_getfile |-> ndk_proto_getfile, proto_getfont |-> ndk_proto_getfont,
    proto_getscreenmode |-> ndk_proto_getscreenmode, proto_glyph |-> ndk_proto_glyph, proto_graphics |->
    ndk_proto_graphics, proto_icon |-> ndk_proto_icon, proto_iffparse |-> ndk_proto_iffparse,
    proto_input |-> ndk_proto_input, proto_integer |-> ndk_proto_integer, proto_intuition |->
    ndk_proto_intuition, proto_keymap |-> ndk_proto_keymap, proto_label |-> ndk_proto_label,
    proto_layers |-> ndk_proto_layers, proto_layout |-> ndk_proto_layout, proto_listbrowser |->
    ndk_proto_listbrowser, proto_locale |-> ndk_proto_locale, proto_lowlevel |-> ndk_proto_lowlevel,
    proto_mathffp |-> ndk_proto_mathffp, proto_mathieeedoubbas |-> ndk_proto_mathieeedoubbas,
    proto_mathieeedoubtrans |-> ndk_proto_mathieeedoubtrans, proto_mathieeesingbas |->
    ndk_proto_mathieeesingbas, proto_mathieeesingtrans |-> ndk_proto_mathieeesingtrans, proto_mathtrans
    |-> ndk_proto_mathtrans, proto_misc |-> ndk_proto_misc, proto_nonvolatile |-> ndk_proto_nonvolatile,
    proto_palette |-> ndk_proto_palette, proto_penmap |-> ndk_proto_penmap, proto_popcycle |->
    ndk_proto_popcycle, proto_potgo |-> ndk_proto_potgo, proto_radiobutton |-> ndk_proto_radiobutton,
    proto_ramdrive |-> ndk_proto_ramdrive, proto_realtime |-> ndk_proto_realtime, proto_requester |->
    ndk_proto_requester, proto_resource |-> ndk_proto_resource, proto_rexxsyslib |->
    ndk_proto_rexxsyslib, proto_scroller |-> ndk_proto_scroller, proto_slider |-> ndk_proto_slider,
    proto_space |-> ndk_proto_space, proto_speedbar |-> ndk_proto_speedbar, proto_string |->
    ndk_proto_string, proto_texteditor |-> ndk_proto_texteditor, proto_timer |-> ndk_proto_timer,
    proto_translator |-> ndk_proto_translator, proto_utility |-> ndk_proto_utility, proto_virtual |->
    ndk_proto_virtual, proto_wb |-> ndk_proto_wb, proto_window |-> ndk_proto_window ]
VbccProtos ==
  [ proto_ahi |-> inc_proto_ahi, proto_ahi_sub |-> inc_proto_ahi_sub, proto_amigaguide |->
    inc_proto_amigaguide, proto_aml |-> inc_proto_aml, proto_arexx |-> inc_proto_arexx, proto_asl |->
    inc_proto_asl, proto_battclock |-> inc_proto_battclock, proto_battmem |-> inc_proto_battmem,
    proto_bevel |-> inc_proto_bevel, proto_bitmap |-> inc_proto_bitmap, proto_bullet |->
    inc_proto_bullet, proto_button |-> inc_proto_button, proto_cardres |-> inc_proto_cardres,
    proto_cgxdither |-> inc_proto_cgxdither, proto_cgxsystem |-> inc_proto_cgxsystem, proto_cgxvideo |->
    inc_proto_cgxvideo, proto_checkbox |-> inc_proto_checkbox, proto_chooser |-> inc_proto_chooser,
    proto_chunkyppc |-> inc_proto_chunkyppc, proto_clicktab |-> inc_proto_clicktab, proto_colorwheel |->
    inc_proto_colorwheel, proto_commodities |-> inc_proto_commodities, proto_console |->
    inc_proto_console, proto_cybergraphics |-> inc_proto_cybergraphics, proto_datatypes |->
    inc_proto_datatypes, proto_datebrowser |-> inc_proto_datebrowser, proto_disk |-> inc_proto_disk,
    proto_diskfont |-> inc_proto_diskfont, proto_dos |-> inc_proto_dos, proto_drawlist |->
    inc_proto_drawlist, proto_dtclass |-> inc_proto_dtclass, proto_exec |-> inc_proto_exec,
    proto_expansion |-> inc_proto_expansion, proto_fuelgauge |-> inc_proto_fuelgauge, proto_gadtools |->
    inc_proto_gadtools, proto_getfile |-> inc_proto_getfile, proto_getfont |-> inc_proto_getfont,
    proto_getscreenmode |-> inc_proto_getscreenmode, proto_glyph |-> inc_proto_glyph, proto_graphics |->
    inc_proto_graphics, proto_icon |-> inc_proto_icon, proto_iffparse |-> inc_proto_iffparse,
    proto_input |-> inc_proto_input, proto_integer |-> inc_proto_integer, proto_intuition |->
    inc_proto_intuition, proto_keymap |-> inc_proto_keymap, proto_label |-> inc_proto_label,
    proto_layers |-> inc_proto_layers, proto_layout |-> inc_proto_layout, proto_listbrowser |->
    inc_proto_listbrowser, proto_locale |-> inc_proto_locale, proto_lowlevel |-> inc_proto_lowlevel,
    proto_mathffp |-> inc_proto_mathffp, proto_mathieeedoubbas |-> inc_proto_mathieeedoubbas,
    proto_mathieeedoubtrans |-> inc_proto_mathieeedoubtrans, proto_mathieeesingbas |->
    inc_proto_mathieeesingbas, proto_mathieeesingtrans |-> inc_proto_mathieeesingtrans, proto_mathtrans
    |-> inc_proto_mathtrans, proto_misc |-> inc_proto_misc, proto_muiclass |-> inc_proto_muiclass,
    proto_muimaster |-> inc_proto_muimaster, proto_nonvolatile |-> inc_proto_nonvolatile, proto_palette
    |-> inc_proto_palette, proto_penmap |-> inc_proto_penmap, proto_picasso96 |-> inc_proto_picasso96,
    proto_popcycle |-> inc_proto_popcycle, proto_potgo |-> inc_proto_potgo, proto_powerpc |->
    inc_proto_powerpc, proto_ppc |-> inc_proto_ppc, proto_ppcdiss |-> inc_proto_ppcdiss,
    proto_radiobutton |-> inc_proto_radiobutton, proto_ramdrive |-> inc_proto_ramdrive, proto_realtime
    |-> inc_proto_realtime, proto_reqtools |-> inc_proto_reqtools, proto_requester |->
    inc_proto_requester, proto_rexxsyslib |-> inc_proto_rexxsyslib, proto_rtgmaster |->
    inc_proto_rtgmaster, proto_scroller |-> inc_proto_scroller, proto_slider |-> inc_proto_slider,
    proto_socket |-> inc_proto_socket, proto_space |-> inc_proto_space, proto_speedbar |->
    inc_proto_speedbar, proto_string |-> inc_proto_string, proto_texteditor |-> inc_proto_texteditor,
    proto_textfield |-> inc_proto_textfield, proto_timer |-> inc_proto_timer, proto_translator |->
    inc_proto_translator, proto_triton |-> inc_proto_triton, proto_usergroup |-> inc_proto_usergroup,
    proto_utility |-> inc_proto_utility, proto_warp3d |-> inc_proto_warp3d, proto_wb |-> inc_proto_wb,
    proto_window |-> inc_proto_window, proto_wizard |-> inc_proto_wizard ]
=============================================================================
