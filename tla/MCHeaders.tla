----------------------------- MODULE MCHeaders -----------------------------
EXTENDS Headers, HeadersNdk, HeadersCall, HeadersProto, HeadersStubs, HeadersLibrary

\* The path of aos68k and kick13 in config, and that of a program that names include
\* first itself.  The path of vc.cfg is the first without the network's headers.
Ndk       == NdkTypes @@ NdkClasses @@ NdkCalls @@ NdkProtos @@ NdkPragmas
Vbcc      == CLibrary @@ VbccProtos @@ VbccStubs
Shipped   == Ndk @@ Vbcc @@ Net
VbccFirst == Vbcc @@ Ndk @@ Net
MCPaths == [shipped |-> Shipped, vbcc |-> VbccFirst]
MCPredefined == {"__VBCC__"}

\* What the stubs of include/inline leave to their header in include/proto, the BSD
\* headers to their programs, and hdwrench.h, lineread.h and inetd.h by mistake.
MCFirst ==
    [h \in {"inline_arexx_protos", "inline_bevel_protos", "inline_bitmap_protos",
       "inline_button_protos", "inline_checkbox_protos", "inline_datebrowser_protos",
       "inline_drawlist_protos", "inline_dtclass_protos", "inline_fuelgauge_protos",
       "inline_getfile_protos", "inline_getfont_protos", "inline_getscreenmode_protos",
       "inline_glyph_protos", "inline_integer_protos", "inline_label_protos",
       "inline_palette_protos", "inline_penmap_protos", "inline_requester_protos",
       "inline_scroller_protos", "inline_slider_protos", "inline_space_protos",
       "inline_string_protos", "inline_texteditor_protos", "inline_window_protos"} |->
       <<"intuition_classes">>] @@
    [h \in {"inline_ahi_protos", "inline_amigaguide_protos", "inline_aml_protos",
       "inline_asl_protos", "inline_bullet_protos", "inline_cgxvideo_protos",
       "inline_cybergraphics_protos", "inline_diskfont_protos", "inline_gadtools_protos",
       "inline_locale_protos", "inline_lowlevel_protos", "inline_powerpc_protos",
       "inline_realtime_protos", "inline_reqtools_protos", "inline_utility_protos",
       "inline_warp3d_protos", "inline_wb_protos", "inline_wizard_protos"} |->
       <<"utility_tagitem">>] @@
    [h \in {"arpa_nameser", "netinet_in", "netinet_in_systm", "netinet_tcp",
       "netinet_udp", "protocols_dumprestore", "rpc_pmap_rmt", "arpa_inet",
       "inline_socket_protos", "rpc_xdr"} |->
       <<"sys_types">>] @@
    [h \in {"inline_chooser_protos", "inline_clicktab_protos", "inline_popcycle_protos",
       "inline_radiobutton_protos", "inline_speedbar_protos"} |->
       <<"intuition_classes", "utility_tagitem">>] @@
    [h \in {"net_if", "net_if_arp", "net_route", "protocols_routed", "protocols_talkd"} |->
       <<"sys_socket", "sys_types">>] @@
    [h \in {"utmp", "inline_usergroup_protos"} |->
       <<"amitcp_types">>] @@
    [h \in {"rpc_auth_unix", "rpc_rpc_msg"} |->
       <<"amitcp_types", "sys_types", "rpc_auth">>] @@
    [h \in {"protocols_timed", "rpc_clnt"} |->
       <<"devices_timer", "sys_types">>] @@
    [h \in {"inline_datatypes_protos", "inline_muimaster_protos"} |->
       <<"intuition_classusr", "utility_tagitem">>] @@
    [h \in {"clib_socket_inlines", "netinet_ip_var"} |->
       <<"sys_types", "netinet_in">>] @@
    [h \in {"rpc_auth"} |->
       <<"amitcp_types", "sys_types">>] @@
    [h \in {"libraries_hdwrench"} |->
       <<"devices_hardblocks", "exec_libraries", "exec_nodes", "exec_types">>] @@
    [h \in {"inline_dos_protos"} |->
       <<"dos_dos">>] @@
    [h \in {"inline_exec_protos"} |->
       <<"exec_avl">>] @@
    [h \in {"inetd"} |->
       <<"exec_ports", "exec_types">>] @@
    [h \in {"inline_graphics_protos"} |->
       <<"graphics_displayinfo", "graphics_gfx">>] @@
    [h \in {"inline_layout_protos"} |->
       <<"intuition_classes", "intuition_classusr">>] @@
    [h \in {"inline_intuition_protos"} |->
       <<"intuition_classusr">>] @@
    [h \in {"inline_commodities_protos"} |->
       <<"libraries_commodities">>] @@
    [h \in {"lineread"} |->
       <<"stdbool">>] @@
    [h \in {"net_if_dl"} |->
       <<"sys_socket", "sys_types", "net_if">>] @@
    [h \in {"rpc_pmap_clnt"} |->
       <<"sys_time", "sys_types">>] @@
    [h \in {"rpc_svc"} |->
       <<"sys_types", "netinet_in", "amitcp_types", "rpc_auth">>] @@
    [h \in {"netinet_ip"} |->
       <<"sys_types", "netinet_in", "netinet_in_systm">>] @@
    [h \in {"netinet_ip_icmp"} |->
       <<"sys_types", "netinet_in", "netinet_in_systm", "netinet_ip">>]

\* Every header alone, after what it must follow; and every pair of some that test
\* the same macros.
One(path) ==
  {[path |-> path, asked |-> IF n \in DOMAIN MCFirst THEN Append(MCFirst[n], n) ELSE <<n>>] : n \in DOMAIN MCPaths[path]}
Tested == {"exec_types", "exec_lists", "dos_dos", "stdio", "intuition_gadgetclass", "intuition_imageclass",
  "images_label", "images_bevel", "reaction_reaction", "libraries_mathresource",
  "resources_mathresource", "libraries_iffparse", "prefs_font", "datatypes_soundclass", "libraries_amigaguide",
  "proto_exec", "pragma_exec_lib", "clib_exec_protos", "bsdsocket", "clib_socket_protos",
  "clib_usergroup_protos", "proto_socket", "proto_usergroup", "netdb", "sys_socket", "arpa_inet",
  "sys_types", "sys_time", "libraries_usergroup", "devices_sana2", "devices_sana2specialstats"}
Two(path) == {[path |-> path, asked |-> <<a, b>>] : a \in Tested, b \in Tested}
MCUnits == UNION {One(path) \cup Two(path) : path \in DOMAIN MCPaths}

\* They lead to headers of other packages (Ahi, CyberGraphX, MUI, ReqTools, ...), of
\* SAS/C, or to some that are not in the package.
MCMissing == {"devices_sana2specialstats", "fcntl", "sys_file", "inline_socket", "inline_socket_context",
  "inline_usergroup", "inline_usergroup_context", "ios1", "proto_ahi", "proto_ahi_sub", "proto_cgxdither",
  "proto_cgxsystem", "proto_cgxvideo", "proto_chunkyppc", "proto_cybergraphics", "proto_dtclass", "proto_muiclass",
  "proto_muimaster", "proto_picasso96", "proto_powerpc", "proto_ppc", "proto_ppcdiss", "proto_reqtools",
  "proto_rtgmaster", "proto_textfield", "proto_triton", "proto_warp3d", "proto_wizard"}

\* The first three test the guard of another header, or have the guard of another;
\* the last two are one header under two names.
MCHides == {<<"clib_socket_protos", "bsdsocket">>, <<"intuition_gadgetclass", "intuition_imageclass">>,
  <<"pragmas_exec_pragmas", "pragmas_exec_sysbase_pragmas">>, <<"resources_mathresource", "libraries_mathresource">>,
  <<"libraries_mathresource", "resources_mathresource">>, <<"devices_sana2", "sana2_sana2device">>}

\* The least sets that Reach and Sure can be: five times two steps in one go the whole
\* way.  (With @@ a table is made once.)
TwoSteps(steps) ==
  [a \in DOMAIN steps |-> UNION {IF b \in DOMAIN steps THEN steps[b] ELSE {b} : b \in steps[a]}] @@ <<>>
Grown(steps) == TwoSteps(TwoSteps(TwoSteps(TwoSteps(TwoSteps(steps)))))
Names(items) == UNION {ToSet(i.names) : i \in items}
ReachOn(p) ==
  LET macros == Macros[p]
  IN  Grown([a \in DOMAIN MCPaths[p] |->
               {a} \cup (Names({i \in ToSet(MCPaths[p][a].items) : Possible(macros, i)}) \cap DOMAIN MCPaths[p])] @@ <<>>)
Reached == [p \in DOMAIN MCPaths |-> ReachOn(p)]
MCReach == Reached
Surely ==
  [p \in DOMAIN MCPaths |->
     LET reach  == ReachOn(p)
         due(a) == Names({i \in ToSet(MCPaths[p][a].items) : Due(i)})
         grown  == Grown([a \in DOMAIN MCPaths[p] |-> {a} \cup {b \in due(a) : Reads(reach, a, b)}] @@ <<>>)
     IN  [a \in DOMAIN MCPaths[p] |-> grown[a] \ {a}]]
MCSure == Surely
=============================================================================
