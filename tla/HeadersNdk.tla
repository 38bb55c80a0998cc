----------------------------- MODULE HeadersNdk -----------------------------
(***************************************************************************)
(* The headers of ndk/include_h that declare types and constants.          *)
(***************************************************************************)
EXTENDS HeaderItems

ndk_devices_audio ==
  H("DEVICES_AUDIO_H", << Need("EXEC_IO_H", "exec_io"),
     Text({"exec_io", "exec_ports", "exec_types"}) >>)
ndk_devices_bootblock ==
  H("DEVICES_BOOTBLOCK_H", << Need("EXEC_TYPES_H", "exec_types"), Text({"exec_types"}) >>)
ndk_devices_cd ==
  H("DEVICES_CD_H", << Get(<<"exec_types", "exec_nodes">>), Text({"exec_nodes", "exec_types"}) >>)
ndk_devices_clipboard ==
  H("DEVICES_CLIPBOARD_H", << Need("EXEC_TYPES_H", "exec_types"),
     Need("EXEC_NODES_H", "exec_nodes"), Need("EXEC_LISTS_H", "exec_lists"),
     Need("EXEC_PORTS_H", "exec_ports"), Text({"exec_nodes", "exec_ports", "exec_types"}) >>)
ndk_devices_console ==
  H("DEVICES_CONSOLE_H", << Need("EXEC_TYPES_H", "exec_types"), Need("EXEC_IO_H", "exec_io"),
     Text({}) >>)
ndk_devices_conunit ==
  H("DEVICES_CONUNIT_H", << Need("EXEC_TYPES_H", "exec_types"), Need("EXEC_PORTS_H", "exec_ports"),
     Need("DEVICES_CONSOLE_H", "devices_console"), Need("DEVICES_KEYMAP_H", "devices_keymap"),
     Need("DEVICES_INPUTEVENT_H", "devices_inputevent"),
     Text({"devices_keymap", "exec_ports", "exec_types"}) >>)
ndk_devices_gameport ==
  H("DEVICES_GAMEPORT_H", << Need("EXEC_TYPES_H", "exec_types"), Need("EXEC_IO_H", "exec_io"),
     Text({"exec_types"}) >>)
ndk_devices_hardblocks ==
  H("DEVICES_HARDBLOCKS_H", << Need("EXEC_TYPES_H", "exec_types"), Text({"exec_types"}) >>)
ndk_devices_input == H("DEVICES_INPUT_H", << Need("EXEC_IO_H", "exec_io"), Text({}) >>)
ndk_devices_inputevent ==
  H("DEVICES_INPUTEVENT_H", << Need("DEVICES_TIMER_H", "devices_timer"),
     Need("UTILITY_HOOKS_H", "utility_hooks"), Need("UTILITY_TAGITEM_H", "utility_tagitem"),
     Text({"devices_timer", "exec_types"}) >>)
ndk_devices_keyboard == H("DEVICES_KEYBOARD_H", << Need("EXEC_IO_H", "exec_io"), Text({}) >>)
ndk_devices_keymap ==
  H("DEVICES_KEYMAP_H", << Need("EXEC_NODES_H", "exec_nodes"), Need("EXEC_LISTS_H", "exec_lists"),
     Text({"exec_lists", "exec_nodes", "exec_types"}) >>)
ndk_devices_narrator ==
  H("DEVICES_NARRATOR_H", << Need("EXEC_IO_H", "exec_io"), Text({"exec_io", "exec_types"}) >>)
ndk_devices_parallel ==
  H("DEVICES_PARALLEL_H", << Need("EXEC_IO_H", "exec_io"), Text({"exec_io", "exec_types"}) >>)
ndk_devices_printer ==
  H("DEVICES_PRINTER_H", << Need("EXEC_DEVICES_H", "exec_devices"),
     Need("INTUITION_INTUITION_H", "intuition_intuition"),
     Need("UTILITY_TAGITEM_H", "utility_tagitem"), Text({"exec_ports", "exec_types"}) >>)
ndk_devices_prtbase ==
  H("DEVICES_PRTBASE_H", << Need("UTILITY_TAGITEM_H", "utility_tagitem"),
     Need("EXEC_DEVICES_H", "exec_devices"), Need("DEVICES_PARALLEL_H", "devices_parallel"),
     Need("DEVICES_SERIAL_H", "devices_serial"), Need("DEVICES_TIMER_H", "devices_timer"),
     Need("DOS_DOSEXTENS_H", "dos_dosextens"), Need("INTUITION_INTUITION_H", "intuition_intuition"),
     Text({"devices_parallel", "devices_serial", "devices_timer", "dos_dos", "exec_libraries",
       "exec_ports", "exec_tasks", "exec_types", "intuition_preferences"}) >>)
ndk_devices_prtgfx ==
  H("DEVICES_PRTGFX_H", << Need("GRAPHICS_RASTPORT_H", "graphics_rastport"),
     Text({"exec_types"}) >>)
ndk_devices_scsidisk ==
  H("DEVICES_SCSIDISK_H", << Need("EXEC_TYPES_H", "exec_types"), Text({"exec_types"}) >>)
ndk_devices_serial ==
  H("DEVICES_SERIAL_H", << Need("EXEC_IO_H", "exec_io"), Text({"exec_io", "exec_types"}) >>)
ndk_devices_timer ==
  H("DEVICES_TIMER_H", << Need("EXEC_TYPES_H", "exec_types"), Need("EXEC_IO_H", "exec_io"),
     Text({"exec_io", "exec_types"}) >>)
ndk_devices_trackdisk ==
  H("DEVICES_TRACKDISK_H", << Need("EXEC_IO_H", "exec_io"), Need("EXEC_DEVICES_H", "exec_devices"),
     Text({"exec_devices", "exec_io", "exec_types"}) >>)
ndk_diskfont_diskfont ==
  H("DISKFONT_DISKFONT_H", << Need("EXEC_NODES_H", "exec_nodes"),
     Need("EXEC_LISTS_H", "exec_lists"), Need("GRAPHICS_TEXT_H", "graphics_text"),
     Text({"exec_nodes", "exec_types", "graphics_text"}) >>)
ndk_diskfont_diskfonttag ==
  H("DISKFONT_DISKFONTTAG_H", << Need("EXEC_TYPES_H", "exec_types"),
     Need("UTILITY_TAGITEM_H", "utility_tagitem"), Text({}) >>)
ndk_diskfont_glyph ==
  H("DISKFONT_GLYPH_H", << Need("EXEC_TYPES_H", "exec_types"),
     Need("EXEC_LIBRARIES_H", "exec_libraries"), Need("EXEC_NODES_H", "exec_nodes"),
     Text({"exec_nodes", "exec_types"}) >>)
ndk_diskfont_oterrors == H("DISKFONT_OTERRORS_H", << Text({}) >>)
ndk_dos_datetime ==
  H("DOS_DATETIME_H", << Need("DOS_DOS_H", "dos_dos"), Text({"dos_dos", "exec_types"}) >>)
ndk_dos_dos == H("DOS_DOS_H", << Need("EXEC_TYPES_H", "exec_types"), Text({"exec_types"}) >>)
ndk_dos_dosasl ==
  H("DOS_DOSASL_H", << Need("EXEC_LIBRARIES_H", "exec_libraries"),
     Need("EXEC_LISTS_H", "exec_lists"), Need("DOS_DOS_H", "dos_dos"),
     Text({"dos_dos", "exec_types"}) >>)
ndk_dos_dosextens ==
  H("DOS_DOSEXTENS_H", << Need("EXEC_TASKS_H", "exec_tasks"), Need("EXEC_PORTS_H", "exec_ports"),
     Need("EXEC_LIBRARIES_H", "exec_libraries"), Need("EXEC_SEMAPHORES_H", "exec_semaphores"),
     Need("DEVICES_TIMER_H", "devices_timer"), Need("DOS_DOS_H", "dos_dos"),
     Text({"dos_dos", "exec_libraries", "exec_lists", "exec_nodes", "exec_ports", "exec_semaphores",
       "exec_tasks", "exec_types"}) >>)
ndk_dos_doshunks == H("DOS_DOSHUNKS_H", << Text({}) >>)
ndk_dos_dostags == H("DOS_DOSTAGS_H", << Need("UTILITY_TAGITEM_H", "utility_tagitem"), Text({}) >>)
ndk_dos_exall ==
  H("DOS_EXALL_H", << Need("EXEC_TYPES_H", "exec_types"), Need("UTILITY_HOOKS_H", "utility_hooks"),
     Text({"exec_types"}) >>)
ndk_dos_filehandler ==
  H("DOS_FILEHANDLER_H", << Need("EXEC_PORTS_H", "exec_ports"), Need("DOS_DOS_H", "dos_dos"),
     Text({"dos_dos", "exec_types"}) >>)
ndk_dos_notify ==
  H("DOS_NOTIFY_H", << Need("EXEC_TYPES_H", "exec_types"), Need("EXEC_PORTS_H", "exec_ports"),
     Need("EXEC_TASKS_H", "exec_tasks"), Text({"exec_ports", "exec_types"}) >>)
ndk_dos_rdargs ==
  H("DOS_RDARGS_H", << Need("EXEC_TYPES_H", "exec_types"), Need("EXEC_NODES_H", "exec_nodes"),
     Text({"exec_types"}) >>)
ndk_dos_record ==
  H("DOS_RECORD_H", << Need("DOS_DOS_H", "dos_dos"), Text({"dos_dos", "exec_types"}) >>)
ndk_dos_stdio == H("DOS_STDIO_H", << Text({}) >>)
ndk_dos_var ==
  H("DOS_VAR_H", << Need("EXEC_NODES_H", "exec_nodes"), Text({"exec_nodes", "exec_types"}) >>)
ndk_exec_alerts == H("EXEC_ALERTS_H", << Text({}) >>)
ndk_exec_avl == H("EXEC_AVL_H", << Need("EXEC_TYPES_H", "exec_types"), Text({"exec_types"}) >>)
ndk_exec_devices ==
  H("EXEC_DEVICES_H", << Need("EXEC_LIBRARIES_H", "exec_libraries"),
     Need("EXEC_PORTS_H", "exec_ports"), Text({"exec_libraries", "exec_ports", "exec_types"}) >>)
ndk_exec_errors == H("EXEC_ERRORS_H", << Text({}) >>)
ndk_exec_exec ==
  H("EXEC_EXEC_H",
     << Get(<<"exec_types", "exec_nodes", "exec_lists", "exec_alerts", "exec_errors",
       "exec_initializers", "exec_resident", "exec_memory", "exec_tasks", "exec_ports",
       "exec_interrupts", "exec_semaphores", "exec_libraries", "exec_io", "exec_devices",
       "exec_execbase">>) >>)
ndk_exec_execbase ==
  H("EXEC_EXECBASE_H", << Need("EXEC_LISTS_H", "exec_lists"),
     Need("EXEC_INTERRUPTS_H", "exec_interrupts"), Need("EXEC_LIBRARIES_H", "exec_libraries"),
     Need("EXEC_TASKS_H", "exec_tasks"),
     Text({"exec_interrupts", "exec_libraries", "exec_lists", "exec_types"}) >>)
ndk_exec_initializers == H("EXEC_INITIALIZERS_H", << Text({}) >>)
ndk_exec_interrupts ==
  H("EXEC_INTERRUPTS_H", << Need("EXEC_NODES_H", "exec_nodes"), Need("EXEC_LISTS_H", "exec_lists"),
     Text({"exec_lists", "exec_nodes", "exec_types"}) >>)
ndk_exec_io ==
  H("EXEC_IO_H", << Need("EXEC_PORTS_H", "exec_ports"), Text({"exec_ports", "exec_types"}) >>)
ndk_exec_libraries ==
  H("EXEC_LIBRARIES_H", << Need("EXEC_NODES_H", "exec_nodes"),
     Text({"exec_nodes", "exec_types"}) >>)
ndk_exec_lists == H("EXEC_LISTS_H", << Need("EXEC_NODES_H", "exec_nodes"), Text({"exec_types"}) >>)
ndk_exec_memory ==
  H("EXEC_MEMORY_H", << Need("EXEC_NODES_H", "exec_nodes"), Text({"exec_nodes", "exec_types"}) >>)
ndk_exec_nodes == H("EXEC_NODES_H", << Need("EXEC_TYPES_H", "exec_types"), Text({"exec_types"}) >>)
ndk_exec_ports ==
  H("EXEC_PORTS_H", << Need("EXEC_NODES_H", "exec_nodes"), Need("EXEC_LISTS_H", "exec_lists"),
     Need("EXEC_TASKS_H", "exec_tasks"), Text({"exec_lists", "exec_nodes", "exec_types"}) >>)
ndk_exec_resident ==
  H("EXEC_RESIDENT_H", << Need("EXEC_TYPES_H", "exec_types"), Text({"exec_types"}) >>)
ndk_exec_semaphores ==
  H("EXEC_SEMAPHORES_H", << Need("EXEC_NODES_H", "exec_nodes"), Need("EXEC_LISTS_H", "exec_lists"),
     Need("EXEC_PORTS_H", "exec_ports"), Need("EXEC_TASKS_H", "exec_tasks"),
     Text({"exec_lists", "exec_nodes", "exec_ports", "exec_types"}) >>)
ndk_exec_tasks ==
  H("EXEC_TASKS_H", << Need("EXEC_NODES_H", "exec_nodes"), Need("EXEC_LISTS_H", "exec_lists"),
     Text({"exec_lists", "exec_nodes", "exec_types"}) >>)
ndk_exec_types == H("EXEC_TYPES_H", << Define("NULL"), Text({}) >>)
ndk_graphics_clip ==
  H("GRAPHICS_CLIP_H", << Need("EXEC_TYPES_H", "exec_types"),
     Need("GRAPHICS_GFX_H", "graphics_gfx"), Need("EXEC_SEMAPHORES_H", "exec_semaphores"),
     Need("UTILITY_HOOKS_H", "utility_hooks"),
     Text({"exec_semaphores", "exec_types", "graphics_gfx"}) >>)
ndk_graphics_coerce == H("GRAPHICS_COERCE_H", << Text({}) >>)
ndk_graphics_collide == H("GRAPHICS_COLLIDE_H", << Text({}) >>)
ndk_graphics_copper ==
  H("GRAPHICS_COPPER_H", << Need("EXEC_TYPES_H", "exec_types"), Text({"exec_types"}) >>)
ndk_graphics_display == H("GRAPHICS_DISPLAY_H", << Text({}) >>)
ndk_graphics_displayinfo ==
  H("GRAPHICS_DISPLAYINFO_H", << Need("EXEC_TYPES_H", "exec_types"),
     Need("GRAPHICS_GFX_H", "graphics_gfx"), Need("GRAPHICS_MONITOR_H", "graphics_monitor"),
     Need("GRAPHICS_MODEID_H", "graphics_modeid"), Need("UTILITY_TAGITEM_H", "utility_tagitem"),
     Text({"exec_types", "graphics_gfx"}) >>)
ndk_graphics_gels ==
  H("GRAPHICS_GELS_H", << Need("EXEC_TYPES_H", "exec_types"), Text({"exec_types"}) >>)
ndk_graphics_gfx ==
  H("GRAPHICS_GFX_H", << Need("EXEC_TYPES_H", "exec_types"), Text({"exec_types"}) >>)
ndk_graphics_gfxbase ==
  H("GRAPHICS_GFXBASE_H", << Need("EXEC_LISTS_H", "exec_lists"),
     Need("EXEC_LIBRARIES_H", "exec_libraries"), Need("EXEC_INTERRUPTS_H", "exec_interrupts"),
     Need("GRAPHICS_MONITOR_H", "graphics_monitor"),
     Text({"exec_interrupts", "exec_libraries", "exec_lists", "exec_types", "graphics_monitor"}) >>)
ndk_graphics_gfxmacros ==
  H("GRAPHICS_GFXMACROS_H", << Need("EXEC_TYPES_H", "exec_types"),
     Need("GRAPHICS_RASTPORT_H", "graphics_rastport"),
     Need("GRAPHICS_GFXBASE_H", "graphics_gfxbase"), Need("HARDWARE_CUSTOM_H", "hardware_custom"),
     Need("HARDWARE_DMABITS_H", "hardware_dmabits"), Text({}) >>)
ndk_graphics_gfxnodes ==
  H("GRAPHICS_GFXNODES_H", << Need("EXEC_NODES_H", "exec_nodes"), Text({"exec_types"}) >>)
ndk_graphics_graphint ==
  H("GRAPHICS_GRAPHINT_H", << Need("EXEC_NODES_H", "exec_nodes"),
     Text({"exec_nodes", "exec_types"}) >>)
ndk_graphics_layers ==
  H("GRAPHICS_LAYERS_H", << Need("EXEC_LISTS_H", "exec_lists"),
     Need("EXEC_SEMAPHORES_H", "exec_semaphores"),
     Text({"exec_lists", "exec_semaphores", "exec_types"}) >>)
ndk_graphics_modeid ==
  H("GRAPHICS_MODEID_H", << Need("GRAPHICS_DISPLAYINFO_H", "graphics_displayinfo"), Text({}) >>)
ndk_graphics_monitor ==
  H("GRAPHICS_MONITOR_H", << Need("EXEC_SEMAPHORES_H", "exec_semaphores"),
     Need("GRAPHICS_GFXNODES_H", "graphics_gfxnodes"), Need("GRAPHICS_GFX_H", "graphics_gfx"),
     Text({"exec_lists", "exec_semaphores", "exec_types", "graphics_gfx", "graphics_gfxnodes"}) >>)
ndk_graphics_rastport ==
  H("GRAPHICS_RASTPORT_H", << Need("EXEC_TYPES_H", "exec_types"),
     Need("GRAPHICS_GFX_H", "graphics_gfx"), Text({"exec_types"}) >>)
ndk_graphics_regions ==
  H("GRAPHICS_REGIONS_H", << Need("EXEC_TYPES_H", "exec_types"),
     Need("GRAPHICS_GFX_H", "graphics_gfx"), Text({"graphics_gfx"}) >>)
ndk_graphics_rpattr == H("GRAPHICS_RPATTR_H", << Text({}) >>)
ndk_graphics_scale ==
  H("GRAPHICS_SCALE_H", << Need("EXEC_TYPES_H", "exec_types"), Text({"exec_types"}) >>)
ndk_graphics_sprite ==
  H("GRAPHICS_SPRITE_H", << Need("EXEC_TYPES_H", "exec_types"), Text({"exec_types"}) >>)
ndk_graphics_text ==
  H("GRAPHICS_TEXT_H", << Need("EXEC_PORTS_H", "exec_ports"),
     Need("GRAPHICS_GFX_H", "graphics_gfx"), Need("UTILITY_TAGITEM_H", "utility_tagitem"),
     Text({"exec_ports", "exec_types", "graphics_gfx"}) >>)
ndk_graphics_videocontrol ==
  H("GRAPHICS_VIDEOCONTROL_H", << Need("EXEC_TYPES_H", "exec_types"),
     Need("UTILITY_TAGITEM_H", "utility_tagitem"), Text({}) >>)
ndk_graphics_view ==
  H("GRAPHICS_VIEW_H", << Text({}), Need("EXEC_TYPES_H", "exec_types"),
     Need("EXEC_SEMAPHORES_H", "exec_semaphores"), Need("GRAPHICS_GFX_H", "graphics_gfx"),
     Need("GRAPHICS_COPPER_H", "graphics_copper"), Need("GRAPHICS_GFXNODES_H", "graphics_gfxnodes"),
     Need("GRAPHICS_MONITOR_H", "graphics_monitor"),
     Need("GRAPHICS_DISPLAYINFO_H", "graphics_displayinfo"),
     Need("HARDWARE_CUSTOM_H", "hardware_custom"),
     Text({"exec_ports", "exec_semaphores", "exec_types", "graphics_gfx", "graphics_gfxnodes"}) >>)
ndk_hardware_adkbits == H("HARDWARE_ADKBITS_H", << Text({}) >>)
ndk_hardware_blit == H("HARDWARE_BLIT_H", << Text({}) >>)
ndk_hardware_cia ==
  H("HARDWARE_CIA_H", << Need("EXEC_TYPES_H", "exec_types"), Text({"exec_types"}) >>)
ndk_hardware_custom ==
  H("HARDWARE_CUSTOM_H", << Need("EXEC_TYPES_H", "exec_types"), Text({"exec_types"}) >>)
ndk_hardware_dmabits == H("HARDWARE_DMABITS_H", << Text({}) >>)
ndk_hardware_intbits == H("HARDWARE_INTBITS_H", << Text({}) >>)
ndk_intuition_cghooks ==
  H("INTUITION_CGHOOKS_H", << Need("EXEC_TYPES_H", "exec_types"),
     Need("INTUITION_INTUITION_H", "intuition_intuition"),
     Text({"exec_types", "intuition_intuition"}) >>)
ndk_intuition_classes ==
  H("INTUITION_CLASSES_H", << Need("EXEC_TYPES_H", "exec_types"),
     Need("EXEC_LIBRARIES_H", "exec_libraries"), Need("UTILITY_HOOKS_H", "utility_hooks"),
     Need("INTUITION_CLASSUSR_H", "intuition_classusr"),
     Text({"exec_libraries", "exec_nodes", "exec_types", "intuition_classusr", "utility_hooks"}) >>)
ndk_intuition_classusr ==
  H("INTUITION_CLASSUSR_H", << Need("UTILITY_HOOKS_H", "utility_hooks"), Text({"exec_types"}) >>)
ndk_intuition_gadgetclass ==
  H("INTUITION_GADGETCLASS_H", << Need("INTUITION_INTUITION_H", "intuition_intuition"),
     Need("UTILITY_TAGITEM_H", "utility_tagitem"), Text({"exec_types", "intuition_intuition"}),
     Need("INTUITION_IOBSOLETE_H", "intuition_iobsolete") >>)
ndk_intuition_icclass ==
  H("INTUITION_ICCLASS_H", << Need("UTILITY_TAGITEM_H", "utility_tagitem"), Text({}) >>)
ndk_intuition_imageclass ==
  H("INTUITION_IMAGECLASS_H", << Need("INTUITION_INTUITION_H", "intuition_intuition"),
     Text({"exec_types", "intuition_intuition"}),
     Need("INTUITION_IOBSOLETE_H", "intuition_iobsolete") >>)
ndk_intuition_intuition ==
  H("INTUITION_INTUITION_H", << Need("EXEC_TYPES_H", "exec_types"),
     Need("GRAPHICS_GFX_H", "graphics_gfx"), Need("GRAPHICS_CLIP_H", "graphics_clip"),
     Need("GRAPHICS_VIEW_H", "graphics_view"), Need("GRAPHICS_RASTPORT_H", "graphics_rastport"),
     Need("GRAPHICS_LAYERS_H", "graphics_layers"), Need("GRAPHICS_TEXT_H", "graphics_text"),
     Need("EXEC_PORTS_H", "exec_ports"), Need("DEVICES_INPUTEVENT_H", "devices_inputevent"),
     Need("UTILITY_TAGITEM_H", "utility_tagitem"), Text({"exec_ports", "exec_types"}),
     Need("INTUITION_SCREENS_H", "intuition_screens"),
     Need("INTUITION_PREFERENCES_H", "intuition_preferences"), Text({"exec_types"}),
     Need("INTUITION_IOBSOLETE_H", "intuition_iobsolete") >>)
ndk_intuition_intuitionbase ==
  H("INTUITION_INTUITIONBASE_H", << Need("EXEC_TYPES_H", "exec_types"),
     Need("EXEC_LIBRARIES_H", "exec_libraries"),
     Need("INTUITION_INTUITION_H", "intuition_intuition"),
     Need("EXEC_INTERRUPTS_H", "exec_interrupts"),
     Text({"exec_libraries", "exec_types", "graphics_view"}) >>)
ndk_intuition_iobsolete ==
  H("INTUITION_IOBSOLETE_H", << Need("INTUITION_INTUITION_H", "intuition_intuition"), Text({}) >>)
ndk_intuition_pointerclass ==
  H("INTUITION_POINTERCLASS_H", << Need("EXEC_TYPES_H", "exec_types"),
     Need("INTUITION_INTUITION_H", "intuition_intuition"),
     Need("UTILITY_TAGITEM_H", "utility_tagitem"), Text({}) >>)
ndk_intuition_preferences ==
  H("INTUITION_PREFERENCES_H", << Need("EXEC_TYPES_H", "exec_types"),
     Need("DEVICES_TIMER_H", "devices_timer"), Text({"devices_timer", "exec_types"}) >>)
ndk_intuition_screens ==
  H("INTUITION_SCREENS_H", << Need("EXEC_TYPES_H", "exec_types"),
     Need("GRAPHICS_GFX_H", "graphics_gfx"), Need("GRAPHICS_CLIP_H", "graphics_clip"),
     Need("GRAPHICS_VIEW_H", "graphics_view"), Need("GRAPHICS_RASTPORT_H", "graphics_rastport"),
     Need("GRAPHICS_LAYERS_H", "graphics_layers"), Need("UTILITY_TAGITEM_H", "utility_tagitem"),
     Text({"exec_nodes", "exec_types", "graphics_gfx", "graphics_layers", "graphics_rastport",
       "graphics_view"}), Need("INTUITION_IOBSOLETE_H", "intuition_iobsolete") >>)
ndk_intuition_sghooks ==
  H("INTUITION_SGHOOKS_H", << Need("EXEC_TYPES_H", "exec_types"), Text({"exec_types"}) >>)
ndk_libraries_HDW_CallBackMsgs == H("HDW_CALLBACKMSGS_H", << Text({}) >>)
ndk_libraries_amigaguide ==
  H("LIBRARIES_AMIGAGUIDE_H", << Need("EXEC_TYPES_H", "exec_types"),
     Need("EXEC_LISTS_H", "exec_lists"), Need("EXEC_NODES_H", "exec_nodes"),
     Need("EXEC_SEMAPHORES_H", "exec_semaphores"),
     Need("INTUITION_INTUITION_H", "intuition_intuition"),
     Need("INTUITION_SCREENS_H", "intuition_screens"),
     Need("INTUITION_CLASSUSR_H", "intuition_classusr"), Need("DO_DOS_H", "dos_dos"),
     Need("UTILITY_TAGITEM_H", "utility_tagitem"),
     Text({"dos_dos", "exec_nodes", "exec_ports", "exec_types", "utility_hooks"}) >>)
ndk_libraries_aml ==
  H("LIBRARIES_AML_H", << Need("EXEC_TYPES_H", "exec_types"), Need("EXEC_NODES_H", "exec_nodes"),
     Need("UTILITY_TAGITEM_H", "utility_tagitem"), Text({"exec_types"}) >>)
ndk_libraries_asl ==
  H("LIBRARIES_ASL_H", << Need("EXEC_TYPES_H", "exec_types"), Need("EXEC_NODES_H", "exec_nodes"),
     Need("EXEC_SEMAPHORES_H", "exec_semaphores"), Need("UTILITY_TAGITEM_H", "utility_tagitem"),
     Need("WORKBENCH_STARTUP_H", "workbench_startup"), Need("GRAPHICS_TEXT_H", "graphics_text"),
     Need("GRAPHICS_DISPLAYINFO_H", "graphics_displayinfo"),
     Text({"exec_nodes", "exec_semaphores", "exec_types", "graphics_displayinfo", "graphics_text"}) >>)
ndk_libraries_commodities ==
  H("LIBRARIES_COMMODITIES_H", << Need("EXEC_TYPES_H", "exec_types"),
     Need("EXEC_PORTS_H", "exec_ports"), Text({"exec_types"}) >>)
ndk_libraries_configregs ==
  H("LIBRARIES_CONFIGREGS_H", << Need("EXEC_TYPES_H", "exec_types"), Text({"exec_types"}) >>)
ndk_libraries_configvars ==
  H("LIBRARIES_CONFIGVARS_H", << Need("EXEC_TYPES_H", "exec_types"),
     Need("EXEC_NODES_H", "exec_nodes"), Need("LIBRARIES_CONFIGREGS_H", "libraries_configregs"),
     Text({"exec_nodes", "exec_types", "libraries_configregs"}) >>)
ndk_libraries_diskfont ==
  H("LIBRARIES_DISKFONT_H", << Need("DISKFONT_DISKFONT_H", "diskfont_diskfont") >>)
ndk_libraries_diskfonttag ==
  H("LIBRARIES_DISKFONTTAG_H", << Need("DISKFONT_DISKFONTTAG_H", "diskfont_diskfonttag") >>)
ndk_libraries_dos == H("LIBRARIES_DOS_H", << Need("DOS_DOS_H", "dos_dos") >>)
ndk_libraries_dosextens ==
  H("LIBRARIES_DOSEXTENS_H", << Need("DOS_DOSEXTENS_H", "dos_dosextens") >>)
ndk_libraries_expansion == H("LIBRARIES_EXPANSION_H", << Text({}) >>)
ndk_libraries_expansionbase ==
  H("LIBRARIES_EXPANSIONBASE_H", << Need("EXEC_TYPES_H", "exec_types"),
     Need("EXEC_LIBRARIES_H", "exec_libraries"), Need("EXEC_SEMAPHORES_H", "exec_semaphores"),
     Need("LIBRARIES_CONFIGVARS_H", "libraries_configvars"),
     Text({"exec_libraries", "exec_lists", "exec_nodes", "exec_types", "libraries_configvars"}) >>)
ndk_libraries_filehandler ==
  H("LIBRARIES_FILEHANDLER_H", << Need("DOS_FILEHANDLER_H", "dos_filehandler") >>)
ndk_libraries_gadtools ==
  H("LIBRARIES_GADTOOLS_H", << Need("EXEC_TYPES_H", "exec_types"),
     Need("UTILITY_TAGITEM_H", "utility_tagitem"),
     Need("INTUITION_INTUITION_H", "intuition_intuition"),
     Need("INTUITION_GADGETCLASS_H", "intuition_gadgetclass"),
     Text({"exec_types", "graphics_gfx"}) >>)
ndk_libraries_hdwrench ==
  H("HDWRENCH_H", << Text({"devices_hardblocks", "exec_libraries", "exec_nodes", "exec_types"}) >>)
ndk_libraries_iffparse ==
  H("IFF_IFFPARSE_H", << Need("EXEC_TYPES_H", "exec_types"), Need("EXEC_LISTS_H", "exec_lists"),
     Need("EXEC_PORTS_H", "exec_ports"), Need("DEVICES_CLIPBOARD_H", "devices_clipboard"),
     Text({"devices_clipboard", "exec_nodes", "exec_ports", "exec_types"}) >>)
ndk_libraries_locale ==
  H("LIBRARIES_LOCALE_H", << Need("EXEC_TYPES_H", "exec_types"), Need("EXEC_NODES_H", "exec_nodes"),
     Need("EXEC_LISTS_H", "exec_lists"), Need("EXEC_LIBRARIES_H", "exec_libraries"),
     Need("UTILITY_TAGITEM_H", "utility_tagitem"),
     Text({"exec_libraries", "exec_nodes", "exec_types"}) >>)
ndk_libraries_lowlevel ==
  H("LIBRARIES_LOWLEVEL_H", << Need("EXEC_TYPES_H", "exec_types"),
     Need("UTILITY_TAGITEM_H", "utility_tagitem"), Text({"exec_types"}) >>)
ndk_libraries_mathffp == H("LIBRARIES_MATHFFP_H", << Text({}) >>)
ndk_libraries_mathieeedp == H("LIBRARIES_MATHIEEEDP_H", << Text({}) >>)
ndk_libraries_mathieeesp == H("LIBRARIES_MATHIEEESP_H", << Text({}) >>)
ndk_libraries_mathlibrary ==
  H("LIBRARIES_MATHLIBRARY_H", << Need("EXEC_LIBRARIES_H", "exec_libraries"),
     Text({"exec_libraries"}) >>)
ndk_libraries_mathresource ==
  H("RESOURCES_MATHRESOURCE_H", << Need("EXEC_NODES_H", "exec_nodes"), Text({"exec_nodes"}) >>)
ndk_libraries_nonvolatile ==
  H("LIBRARIES_NONVOLATILE_H", << Need("EXEC_TYPES_H", "exec_types"),
     Need("EXEC_NODES_H", "exec_nodes"), Text({"exec_nodes", "exec_types"}) >>)
ndk_libraries_realtime ==
  H("LIBRARIES_REALTIME_H", << Need("EXEC_TYPES_H", "exec_types"),
     Need("EXEC_LISTS_H", "exec_lists"), Need("EXEC_LIBRARIES_H", "exec_libraries"),
     Need("UTILITY_TAGITEM_H", "utility_tagitem"), Need("UTILITY_HOOKS_H", "utility_hooks"),
     Text({"exec_libraries", "exec_lists", "exec_nodes", "exec_types"}) >>)
ndk_libraries_resource ==
  H("LIBRARIES_RESOURCE_H", << Need("EXEC_TYPES_H", "exec_types"), Text({"exec_types"}) >>)
ndk_libraries_translator == H("LIBRARIES_TRANSLATOR_H", << Text({}) >>)
ndk_prefs_asl ==
  H("PREFS_ASL_H", << Need("LIBRARIES_IFFPARSE_H", "libraries_iffparse"),
     Need("LIBRARIES_ASL_H", "libraries_asl"), Text({"exec_types"}) >>)
ndk_prefs_font ==
  H("PREFS_FONT_H", << Need("EXEC_TYPES_H", "exec_types"),
     Need("LIBRARIES_IFFPARSE_H", "libraries_iffparse"), Need("GRAPHICS_TEXT_H", "graphics_text"),
     Text({"exec_types", "graphics_text"}) >>)
ndk_prefs_icontrol ==
  H("PREFS_ICONTROL_H", << Need("EXEC_TYPES_H", "exec_types"),
     Need("LIBRARIES_IFFPARSE_H", "libraries_iffparse"), Text({"exec_types"}) >>)
ndk_prefs_input ==
  H("PREFS_INPUT_H", << Need("EXEC_TYPES_H", "exec_types"),
     Need("LIBRARIES_IFFPARSE_H", "libraries_iffparse"), Need("DEVICES_TIMER_H", "devices_timer"),
     Text({"devices_timer", "exec_types"}) >>)
ndk_prefs_locale ==
  H("PREFS_LOCALE_H", << Need("EXEC_TYPES_H", "exec_types"),
     Need("LIBRARIES_IFFPARSE_H", "libraries_iffparse"), Text({"exec_types"}) >>)
ndk_prefs_overscan ==
  H("PREFS_OVERSCAN_H", << Need("EXEC_TYPES_H", "exec_types"),
     Need("LIBRARIES_IFFPARSE_H", "libraries_iffparse"), Need("GRAPHICS_GFX_H", "graphics_gfx"),
     Text({"exec_types", "graphics_gfx"}) >>)
ndk_prefs_palette ==
  H("PREFS_PALETTE_H", << Need("EXEC_TYPES_H", "exec_types"),
     Need("LIBRARIES_IFFPARSE_H", "libraries_iffparse"),
     Need("INTUITION_INTUITION_H", "intuition_intuition"),
     Text({"exec_types", "intuition_intuition"}) >>)
ndk_prefs_pointer ==
  H("PREFS_POINTER_H", << Need("EXEC_TYPES_H", "exec_types"),
     Need("LIBRARIES_IFFPARSE_H", "libraries_iffparse"), Text({"exec_types"}) >>)
ndk_prefs_prefhdr ==
  H("PREFS_PREFHDR_H", << Need("EXEC_TYPES_H", "exec_types"),
     Need("LIBRARIES_IFFPARSE_H", "libraries_iffparse"), Text({"exec_types"}) >>)
ndk_prefs_printergfx ==
  H("PREFS_PRINTERGFX_H", << Need("EXEC_TYPES_H", "exec_types"),
     Need("LIBRARIES_IFFPARSE_H", "libraries_iffparse"), Text({"exec_types"}) >>)
ndk_prefs_printerps ==
  H("PREFS_PRINTERPS_H", << Need("EXEC_TYPES_H", "exec_types"),
     Need("LIBRARIES_IFFPARSE_H", "libraries_iffparse"), Text({"exec_types"}) >>)
ndk_prefs_printertxt ==
  H("PREFS_PRINTERTXT_H", << Need("LIBRARIES_IFFPARSE_H", "libraries_iffparse"),
     Text({"exec_types"}) >>)
ndk_prefs_reaction ==
  H("PREFS_REACTION_H", << Need("LIBRARIES_IFFPARSE_H", "libraries_iffparse"),
     Need("GRAPHICS_TEXT_H", "graphics_text"), Text({"exec_types", "graphics_text"}) >>)
ndk_prefs_screenmode ==
  H("PREFS_SCREENMODE_H", << Need("EXEC_TYPES_H", "exec_types"),
     Need("LIBRARIES_IFFPARSE_H", "libraries_iffparse"), Text({"exec_types"}) >>)
ndk_prefs_serial ==
  H("PREFS_SERIAL_H", << Need("EXEC_TYPES_H", "exec_types"),
     Need("LIBRARIES_IFFPARSE_H", "libraries_iffparse"), Text({"exec_types"}) >>)
ndk_prefs_sound ==
  H("PREFS_SOUND_H", << Need("EXEC_TYPES_H", "exec_types"),
     Need("LIBRARIES_IFFPARSE_H", "libraries_iffparse"), Text({"exec_types"}) >>)
ndk_prefs_wbpattern ==
  H("PREFS_WBPATTERN_H", << Need("LIBRARIES_IFFPARSE_H", "libraries_iffparse"),
     Text({"exec_types"}) >>)
ndk_prefs_workbench ==
  H("PREFS_WORKBENCH_H", << Need("LIBRARIES_IFFPARSE_H", "libraries_iffparse"),
     Need("GRAPHICS_GFX_H", "graphics_gfx"), Text({"exec_types", "graphics_gfx"}) >>)
ndk_resources_battclock == H("RESOURCES_BATTCLOCK_H", << Text({}) >>)
ndk_resources_battmem == H("RESOURCES_BATTMEM_H", << Text({}) >>)
ndk_resources_battmembitsamiga == H("RESOURCES_BATTMEMBITSAMIGA_H", << Text({}) >>)
ndk_resources_battmembitsamix == H("RESOURCES_BATTMEMBITSAMIX_H", <<>>)
ndk_resources_battmembitsshared == H("RESOURCES_BATTMEMBITSSHARED_H", << Text({}) >>)
ndk_resources_card ==
  H("RESOURCES_CARD_H", << Need("EXEC_TYPES_H", "exec_types"), Need("EXEC_NODES_H", "exec_nodes"),
     Need("EXEC_INTERRUPTS_H", "exec_interrupts"), Text({"exec_nodes", "exec_types"}) >>)
ndk_resources_cia == H("DEVICES_CIA_H", << Text({}) >>)
ndk_resources_ciabase == H("RESOURCES_CIA_H", <<>>)
ndk_resources_disk ==
  H("RESOURCES_DISK_H", << Need("EXEC_TYPES_H", "exec_types"), Need("EXEC_LISTS_H", "exec_lists"),
     Need("EXEC_PORTS_H", "exec_ports"), Need("EXEC_INTERRUPTS_H", "exec_interrupts"),
     Need("EXEC_LIBRARIES_H", "exec_libraries"),
     Text({"exec_interrupts", "exec_libraries", "exec_lists", "exec_ports", "exec_types"}) >>)
ndk_resources_filesysres ==
  H("RESOURCES_FILESYSRES_H", << Need("EXEC_NODES_H", "exec_nodes"),
     Need("EXEC_LISTS_H", "exec_lists"), Need("DOS_DOS_H", "dos_dos"),
     Text({"dos_dos", "exec_lists", "exec_nodes", "exec_types"}) >>)
ndk_resources_mathresource ==
  H("RESOURCES_MATHRESOURCE_H", << Need("EXEC_NODES_H", "exec_nodes"), Text({"exec_nodes"}) >>)
ndk_resources_misc ==
  H("RESOURCES_MISC_H", << Need("EXEC_TYPES_H", "exec_types"),
     Need("EXEC_LIBRARIES_H", "exec_libraries"), Text({}) >>)
ndk_resources_potgo == H("RESOURCES_POTGO_H", << Text({}) >>)
ndk_rexx_errors == H("REXX_ERRORS_H", << Text({}) >>)
ndk_rexx_rexxio ==
  H("REXX_REXXIO_H", << Need("REXX_STORAGE_H", "rexx_storage"),
     Text({"exec_lists", "exec_ports", "exec_types", "rexx_storage"}) >>)
ndk_rexx_rxslib ==
  H("REXX_RXSLIB_H", << Need("REXX_STORAGE_H", "rexx_storage"),
     Text({"exec_libraries", "exec_lists", "exec_ports", "exec_types"}) >>)
ndk_rexx_storage ==
  H("REXX_STORAGE_H", << Need("EXEC_TYPES_H", "exec_types"), Need("EXEC_NODES_H", "exec_nodes"),
     Need("EXEC_LISTS_H", "exec_lists"), Need("EXEC_PORTS_H", "exec_ports"),
     Need("EXEC_LIBRARIES_H", "exec_libraries"),
     Text({"exec_lists", "exec_nodes", "exec_ports", "exec_types"}) >>)
ndk_utility_date ==
  H("UTILITY_DATE_H", << Need("EXEC_TYPES_H", "exec_types"), Text({"exec_types"}) >>)
ndk_utility_hooks ==
  H("UTILITY_HOOKS_H", << Need("EXEC_TYPES_H", "exec_types"), Need("EXEC_NODES_H", "exec_nodes"),
     Text({"exec_nodes", "exec_types"}) >>)
ndk_utility_name ==
  H("UTILITY_NAME_H", << Need("EXEC_TYPES_H", "exec_types"), Text({"exec_types"}) >>)
ndk_utility_pack ==
  H("UTILITY_PACK_H", << Need("EXEC_TYPES_H", "exec_types"),
     Need("UTILITY_TAGITEM_H", "utility_tagitem"), Text({}) >>)
ndk_utility_tagitem ==
  H("UTILITY_TAGITEM_H", << Need("EXEC_TYPES_H", "exec_types"), Text({"exec_types"}) >>)
ndk_utility_utility ==
  H("UTILITY_UTILITY_H", << Need("EXEC_TYPES_H", "exec_types"),
     Need("EXEC_LIBRARIES_H", "exec_libraries"), Text({"exec_libraries", "exec_types"}) >>)
ndk_workbench_icon ==
  H("WORKBENCH_ICON_H", << Need("GRAPHICS_VIEW_H", "graphics_view"),
     Need("INTUITION_IMAGECLASS_H", "intuition_imageclass"),
     Need("UTILITY_TAGITEM_H", "utility_tagitem"),
     Need("DATATYPES_PICTURECLASS_H", "datatypes_pictureclass"), Need("DOS_DOS_H", "dos_dos"),
     Text({"dos_dos"}) >>)
ndk_workbench_startup ==
  H("WORKBENCH_STARTUP_H", << Need("EXEC_TYPES_H", "exec_types"),
     Need("EXEC_PORTS_H", "exec_ports"), Need("DOS_DOS_H", "dos_dos"),
     Text({"dos_dos", "exec_ports", "exec_types"}) >>)
ndk_workbench_workbench ==
  H("WORKBENCH_WORKBENCH_H", << Need("EXEC_TASKS_H", "exec_tasks"), Need("DOS_DOS_H", "dos_dos"),
     Need("INTUITION_INTUITION_H", "intuition_intuition"),
     Text({"dos_dos", "exec_lists", "exec_ports", "exec_types", "intuition_intuition"}) >>)

\* By name.
NdkTypes ==
  [ devices_audio |-> ndk_devices_audio, devices_bootblock |-> ndk_devices_bootblock, devices_cd |->
    ndk_devices_cd, devices_clipboard |-> ndk_devices_clipboard, devices_console |->
    ndk_devices_console, devices_conunit |-> ndk_devices_conunit, devices_gameport |->
    ndk_devices_gameport, devices_hardblocks |-> ndk_devices_hardblocks, devices_input |->
    ndk_devices_input, devices_inputevent |-> ndk_devices_inputevent, devices_keyboard |->
    ndk_devices_keyboard, devices_keymap |-> ndk_devices_keymap, devices_narrator |->
    ndk_devices_narrator, devices_parallel |-> ndk_devices_parallel, devices_printer |->
    ndk_devices_printer, devices_prtbase |-> ndk_devices_prtbase, devices_prtgfx |-> ndk_devices_prtgfx,
    devices_scsidisk |-> ndk_devices_scsidisk, devices_serial |-> ndk_devices_serial, devices_timer |->
    ndk_devices_timer, devices_trackdisk |-> ndk_devices_trackdisk, diskfont_diskfont |->
    ndk_diskfont_diskfont, diskfont_diskfonttag |-> ndk_diskfont_diskfonttag, diskfont_glyph |->
    ndk_diskfont_glyph, diskfont_oterrors |-> ndk_diskfont_oterrors, dos_datetime |-> ndk_dos_datetime,
    dos_dos |-> ndk_dos_dos, dos_dosasl |-> ndk_dos_dosasl, dos_dosextens |-> ndk_dos_dosextens,
    dos_doshunks |-> ndk_dos_doshunks, dos_dostags |-> ndk_dos_dostags, dos_exall |-> ndk_dos_exall,
    dos_filehandler |-> ndk_dos_filehandler, dos_notify |-> ndk_dos_notify, dos_rdargs |->
    ndk_dos_rdargs, dos_record |-> ndk_dos_record, dos_stdio |-> ndk_dos_stdio, dos_var |-> ndk_dos_var,
    exec_alerts |-> ndk_exec_alerts, exec_avl |-> ndk_exec_avl, exec_devices |-> ndk_exec_devices,
    exec_errors |-> ndk_exec_errors, exec_exec |-> ndk_exec_exec, exec_execbase |-> ndk_exec_execbase,
    exec_initializers |-> ndk_exec_initializers, exec_interrupts |-> ndk_exec_interrupts, exec_io |->
    ndk_exec_io, exec_libraries |-> ndk_exec_libraries, exec_lists |-> ndk_exec_lists, exec_memory |->
    ndk_exec_memory, exec_nodes |-> ndk_exec_nodes, exec_ports |-> ndk_exec_ports, exec_resident |->
    ndk_exec_resident, exec_semaphores |-> ndk_exec_semaphores, exec_tasks |-> ndk_exec_tasks,
    exec_types |-> ndk_exec_types, graphics_clip |-> ndk_graphics_clip, graphics_coerce |->
    ndk_graphics_coerce, graphics_collide |-> ndk_graphics_collide, graphics_copper |->
    ndk_graphics_copper, graphics_display |-> ndk_graphics_display, graphics_displayinfo |->
    ndk_graphics_displayinfo, graphics_gels |-> ndk_graphics_gels, graphics_gfx |-> ndk_graphics_gfx,
    graphics_gfxbase |-> ndk_graphics_gfxbase, graphics_gfxmacros |-> ndk_graphics_gfxmacros,
    graphics_gfxnodes |-> ndk_graphics_gfxnodes, graphics_graphint |-> ndk_graphics_graphint,
    graphics_layers |-> ndk_graphics_layers, graphics_modeid |-> ndk_graphics_modeid, graphics_monitor
    |-> ndk_graphics_monitor, graphics_rastport |-> ndk_graphics_rastport, graphics_regions |->
    ndk_graphics_regions, graphics_rpattr |-> ndk_graphics_rpattr, graphics_scale |->
    ndk_graphics_scale, graphics_sprite |-> ndk_graphics_sprite, graphics_text |-> ndk_graphics_text,
    graphics_videocontrol |-> ndk_graphics_videocontrol, graphics_view |-> ndk_graphics_view,
    hardware_adkbits |-> ndk_hardware_adkbits, hardware_blit |-> ndk_hardware_blit, hardware_cia |->
    ndk_hardware_cia, hardware_custom |-> ndk_hardware_custom, hardware_dmabits |->
    ndk_hardware_dmabits, hardware_intbits |-> ndk_hardware_intbits, intuition_cghooks |->
    ndk_intuition_cghooks, intuition_classes |-> ndk_intuition_classes, intuition_classusr |->
    ndk_intuition_classusr, intuition_gadgetclass |-> ndk_intuition_gadgetclass, intuition_icclass |->
    ndk_intuition_icclass, intuition_imageclass |-> ndk_intuition_imageclass, intuition_intuition |->
    ndk_intuition_intuition, intuition_intuitionbase |-> ndk_intuition_intuitionbase,
    intuition_iobsolete |-> ndk_intuition_iobsolete, intuition_pointerclass |->
    ndk_intuition_pointerclass, intuition_preferences |-> ndk_intuition_preferences, intuition_screens
    |-> ndk_intuition_screens, intuition_sghooks |-> ndk_intuition_sghooks, libraries_HDW_CallBackMsgs
    |-> ndk_libraries_HDW_CallBackMsgs, libraries_amigaguide |-> ndk_libraries_amigaguide, libraries_aml
    |-> ndk_libraries_aml, libraries_asl |-> ndk_libraries_asl, libraries_commodities |->
    ndk_libraries_commodities, libraries_configregs |-> ndk_libraries_configregs, libraries_configvars
    |-> ndk_libraries_configvars, libraries_diskfont |-> ndk_libraries_diskfont, libraries_diskfonttag
    |-> ndk_libraries_diskfonttag, libraries_dos |-> ndk_libraries_dos, libraries_dosextens |->
    ndk_libraries_dosextens, libraries_expansion |-> ndk_libraries_expansion, libraries_expansionbase
    |-> ndk_libraries_expansionbase, libraries_filehandler |-> ndk_libraries_filehandler,
    libraries_gadtools |-> ndk_libraries_gadtools, libraries_hdwrench |-> ndk_libraries_hdwrench,
    libraries_iffparse |-> ndk_libraries_iffparse, libraries_locale |-> ndk_libraries_locale,
    libraries_lowlevel |-> ndk_libraries_lowlevel, libraries_mathffp |-> ndk_libraries_mathffp,
    libraries_mathieeedp |-> ndk_libraries_mathieeedp, libraries_mathieeesp |->
    ndk_libraries_mathieeesp, libraries_mathlibrary |-> ndk_libraries_mathlibrary,
    libraries_mathresource |-> ndk_libraries_mathresource, libraries_nonvolatile |->
    ndk_libraries_nonvolatile, libraries_realtime |-> ndk_libraries_realtime, libraries_resource |->
    ndk_libraries_resource, libraries_translator |-> ndk_libraries_translator, prefs_asl |->
    ndk_prefs_asl, prefs_font |-> ndk_prefs_font, prefs_icontrol |-> ndk_prefs_icontrol, prefs_input |->
    ndk_prefs_input, prefs_locale |-> ndk_prefs_locale, prefs_overscan |-> ndk_prefs_overscan,
    prefs_palette |-> ndk_prefs_palette, prefs_pointer |-> ndk_prefs_pointer, prefs_prefhdr |->
    ndk_prefs_prefhdr, prefs_printergfx |-> ndk_prefs_printergfx, prefs_printerps |->
    ndk_prefs_printerps, prefs_printertxt |-> ndk_prefs_printertxt, prefs_reaction |->
    ndk_prefs_reaction, prefs_screenmode |-> ndk_prefs_screenmode, prefs_serial |-> ndk_prefs_serial,
    prefs_sound |-> ndk_prefs_sound, prefs_wbpattern |-> ndk_prefs_wbpattern, prefs_workbench |->
    ndk_prefs_workbench, resources_battclock |-> ndk_resources_battclock, resources_battmem |->
    ndk_resources_battmem, resources_battmembitsamiga |-> ndk_resources_battmembitsamiga,
    resources_battmembitsamix |-> ndk_resources_battmembitsamix, resources_battmembitsshared |->
    ndk_resources_battmembitsshared, resources_card |-> ndk_resources_card, resources_cia |->
    ndk_resources_cia, resources_ciabase |-> ndk_resources_ciabase, resources_disk |->
    ndk_resources_disk, resources_filesysres |-> ndk_resources_filesysres, resources_mathresource |->
    ndk_resources_mathresource, resources_misc |-> ndk_resources_misc, resources_potgo |->
    ndk_resources_potgo, rexx_errors |-> ndk_rexx_errors, rexx_rexxio |-> ndk_rexx_rexxio, rexx_rxslib
    |-> ndk_rexx_rxslib, rexx_storage |-> ndk_rexx_storage, utility_date |-> ndk_utility_date,
    utility_hooks |-> ndk_utility_hooks, utility_name |-> ndk_utility_name, utility_pack |->
    ndk_utility_pack, utility_tagitem |-> ndk_utility_tagitem, utility_utility |-> ndk_utility_utility,
    workbench_icon |-> ndk_workbench_icon, workbench_startup |-> ndk_workbench_startup,
    workbench_workbench |-> ndk_workbench_workbench ]
=============================================================================
