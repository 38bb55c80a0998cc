--------------------------- MODULE HeadersLibrary ---------------------------
(***************************************************************************)
(* The headers of the C library, include, and those of netinclude.         *)
(***************************************************************************)
EXTENDS HeaderItems

inc_assert == H("__ASSERT_H", << Text({}) >>)
inc_ctype == H("__CTYPE_H", << Text({}) >>)
inc_errno == H("__ERRNO_H", << Text({}) >>)
inc_fenv == H("__FENV_H", << Text({}) >>)
inc_float == H("__FLOAT_H", << Text({}) >>)
inc_inttypes == H("__INTTYPES_H", << Get(<<"stdint">>), Text({"stdint"}) >>)
inc_limits == H("__LIMITS_H", << Text({}) >>)
inc_locale == H("__LOCALE_H", << Define("NULL"), Text({}) >>)
inc_math ==
  H("__MATH_H", << Get(<<"float", "limits">>), Text({}),
     When({<<{"__M68060", "__M68881"}, {}>>, <<{"__M68060", "__M68882"}, {}>>}, <<"math_060">>),
     When({<<{"__M68040", "__M68881"}, {"__M68060"}>>, <<{"__M68040", "__M68882"}, {"__M68060"}>>},
       <<"math_040">>),
     When({<<{"__M68881"}, {"__M68040", "__M68060"}>>, <<{"__M68882"}, {"__M68040", "__M68060"}>>},
       <<"math_881">>), Text({}) >>)
inc_math_040 == Unguarded(<< Text({}) >>)
inc_math_060 == Unguarded(<< Text({}) >>)
inc_math_881 == Unguarded(<< Text({}) >>)
inc_setjmp == H("__SETJMP_H", << Text({}) >>)
inc_signal == H("__SIGNAL_H", << Text({}) >>)
inc_stdarg == H("__STDARG_H", << Text({}) >>)
inc_stdbool == H("__STDBOOL_H", << Text({}) >>)
inc_stddef == H("__STDDEF_H", << Define("NULL"), Text({}) >>)
inc_stdint == H("__STDINT_H", << Get(<<"limits">>), Text({}) >>)
inc_stdio ==
  H("__STDIO_H", << Text({}), Need("__STDARG_H", "stdarg"), Define("NULL"), Text({"stdarg"}),
     When({<<{"__BUILD_LIB"}, {}>>}, <<"proto_dos">>) >>)
inc_stdlib == H("__STDLIB_H", << Define("NULL"), Text({}) >>)
inc_string == H("__STRING_H", << Define("NULL"), Text({}) >>)
inc_time == H("__TIME_H", << Define("NULL"), Text({}) >>)
net_amitcp_bignames == H("AMITCP_BIGNAMES_H", << Text({}) >>)
net_amitcp_socketbasetags ==
  H("AMITCP_SOCKETBASETAGS_H", << Need("UTILITY_TAGITEM_H", "utility_tagitem"), Text({}) >>)
net_amitcp_types ==
  H("AMITCP_TYPES_H", << Text({}), When({<<{"__SASC"}, {"NULL"}>>}, <<"sys_commnull">>),
     DefineIf({<<{}, {"NULL", "__SASC"}>>}, "NULL") >>)
net_arpa_ftp == H("ARPA_FTP_H", << Text({}) >>)
net_arpa_inet ==
  H("ARPA_INET_H", << When({<<{}, {"KERNEL", "NETINET_IN_H"}>>}, <<"netinet_in">>),
     When({<<{}, {"BSDSOCKET_H", "CLIB_SOCKET_PROTOS_H", "KERNEL"}>>}, <<"bsdsocket">>) >>)
net_arpa_nameser == H("ARPA_NAMESER_H", << Text({"sys_types"}) >>)
net_arpa_telnet == H("ARPA_TELNET_H", << Text({}) >>)
net_arpa_tftp == H("ARPA_TFTP_H", << Text({}) >>)
net_bsdsocket ==
  H("BSDSOCKET_H", << Need("UNISTD_H", "unistd"),
     Need("CLIB_NETLIB_PROTOS_H", "clib_netlib_protos"),
     When({<<{"__SASC"}, {"CLIB_SOCKET_PROTOS_H"}>>, <<{"__GNUC__"}, {"CLIB_SOCKET_PROTOS_H"}>>},
       <<"proto_socket">>),
     When({<<{}, {"CLIB_SOCKET_PROTOS_H", "__GNUC__", "__SASC"}>>}, <<"clib_socket_protos">>),
     When({<<{"__SASC"}, {"CLIB_USERGROUP_PROTOS_H"}>>, <<{"__GNUC__"},
       {"CLIB_USERGROUP_PROTOS_H"}>>}, <<"proto_usergroup">>),
     When({<<{}, {"CLIB_USERGROUP_PROTOS_H", "__GNUC__", "__SASC"}>>}, <<"clib_usergroup_protos">>) >>)
net_charread == H("CHARREAD_H", << Text({}) >>)
net_clib_ifconfig_protos ==
  H("CLIB_IFCONFIG_PROTOS_H", << Need("LIBRARIES_IFCONFIG_H", "libraries_ifconfig"),
     Text({"exec_types"}) >>)
net_clib_netlib_protos ==
  H("CLIB_NETLIB_PROTOS_H", << Need("EXEC_TYPES_H", "exec_types"), Need("SYS_TYPES_H", "sys_types"),
     Need("SYS_CDEFS_H", "sys_cdefs"), Text({}), Need("SYS_TIME_H", "sys_time"),
     Need("SYS_SOCKET_H", "sys_socket"), Text({}), Need("NETINET_IN_H", "netinet_in"),
     Need("DOS_DOS_H", "dos_dos"), Need("DOS_RDARGS_H", "dos_rdargs"),
     Need("SYS_STAT_H", "sys_stat"), Need("_STDARG_H", "stdarg"),
     Text({"amitcp_types", "dos_dos", "exec_types", "netinet_in", "stdarg", "sys_types"}) >>)
net_clib_serscript_protos ==
  H("CLIB_SERSCRIPT_PROTOS_H", << Need("LIBRARIES_SERSCRIPT_H", "libraries_serscript"),
     Text({"exec_types"}) >>)
net_clib_socket_inlines == H("CLIB_SOCKET_INLINES_H", << Text({"netinet_in", "sys_types"}) >>)
net_clib_socket_protos ==
  H("CLIB_SOCKET_PROTOS_H", << Need("EXEC_TYPES_H", "exec_types"), Need("SYS_TYPES_H", "sys_types"),
     Need("SYS_TIME_H", "sys_time"), Need("SYS_SOCKET_H", "sys_socket"),
     Need("NETINET_IN_H", "netinet_in"), Text({"exec_types", "sys_types"}) >>)
net_clib_usergroup_protos ==
  H("CLIB_USERGROUP_PROTOS_H", << Need("LIBRARIES_USERGROUP_H", "libraries_usergroup"),
     Need("PWD_H", "pwd"), Need("GRP_H", "grp"), Text({"amitcp_types", "exec_types"}) >>)
net_devices_netinfo ==
  H("DEVICES_NETINFO_H", << Need("EXEC_TYPES_H", "exec_types"), Need("EXEC_IO_H", "exec_io"),
     Text({"exec_ports", "exec_types"}) >>)
net_devices_sana2 ==
  H("SANA2_SANA2DEVICE_H", << Need("EXEC_TYPES_H", "exec_types"),
     Need("EXEC_PORTS_H", "exec_ports"), Need("EXEC_IO_H", "exec_io"),
     Need("EXEC_ERRORS_H", "exec_errors"), Need("DEVICES_TIMER_H", "devices_timer"),
     Need("UTILITY_TAGITEM_H", "utility_tagitem"),
     Text({"devices_timer", "exec_io", "exec_types"}) >>)
net_devices_sana2specialstats ==
  H("SANA2_SANA2SPECIALSTATS_H", << Need("SANA2_SANA2DEVICE_H", "sana2_sana2device"), Text({}) >>)
net_errno == H("ERRNO_H", << Get(<<"sys_errno">>), Text({}) >>)
net_fcntl ==
  H("FCNTL_H", << Need("USE_DOSIO", "include_fcntl"),
     When({<<{"USE_DOSIO", "__SASC"}, {"PROTO_DOS_H"}>>, <<{"USE_DOSIO", "__GNUC__"},
       {"PROTO_DOS_H"}>>}, <<"proto_dos">>),
     When({<<{"USE_DOSIO"}, {"CLIB_DOS_PROTOS_H", "__GNUC__", "__SASC"}>>}, <<"clib_dos_protos">>),
     When({<<{"USE_DOSIO"}, {"DOS_DOS_H"}>>}, <<"dos_dos">>),
     When({<<{"USE_DOSIO"}, {"_COMMIFMT_H"}>>}, <<"sys_commifmt">>),
     When({<<{"USE_DOSIO"}, {"_COMMNULL_H"}>>}, <<"sys_commnull">>) >>)
net_getopt == H("GETOPT_H", << Text({}) >>)
net_grp == H("GRP_H", << Need("SYS_TYPES_H", "sys_types"), Text({"amitcp_types"}) >>)
net_inetd == H("INETD_H", << Text({"exec_ports", "exec_types"}) >>)
net_inline_socket ==
  H("_INLINE_SOCKET_H", << Need("_CDEFS_H_", "sys_cdefs"), Need("_INLINE_STUBS_H_", "inline_stubs"),
     Text({"exec_types", "sys_types"}), Need("NETINET_IN_H", "netinet_in"), Text({"netinet_in"}) >>)
net_inline_socket_context ==
  H("_INLINE_SOCKET_CONTEXT_H", << Text({}), Get(<<"inline_socket">>), Text({}) >>)
net_inline_usergroup ==
  H("_INLINE_USERGROUP_H", << Need("_CDEFS_H_", "sys_cdefs"),
     Need("_INLINE_STUBS_H_", "inline_stubs"), Text({"amitcp_types", "exec_types"}) >>)
net_inline_usergroup_context ==
  H("_INLINE_USERGROUP_CONTEXT_H", << Text({}), Get(<<"inline_usergroup">>), Text({}) >>)
net_ios1 == H("IOS1_H", << Need("_IOS1_H", "include_ios1"), Text({}) >>)
net_libraries_ifconfig ==
  H("LIBRARIES_IFCONFIG_H", << Need("EXEC_TYPES_H", "exec_types"),
     Need("DOS_RDARGS_H", "dos_rdargs"), Need("UTILITY_TAGITEM_H", "utility_tagitem"),
     Text({"exec_nodes", "exec_types", "utility_tagitem"}) >>)
net_libraries_serscript ==
  H("LIBRARIES_SERSCRIPT_H", << Need("EXEC_TYPES_H", "exec_types"),
     Need("DEVICES_SERIAL_H", "devices_serial"), Need("SYS_CDEFS_H", "sys_cdefs"),
     Text({"exec_types"}) >>)
net_libraries_usergroup ==
  H("LIBRARIES_USERGROUP_H", << Need("EXEC_TYPES_H", "exec_types"), Need("PWD_H", "pwd"),
     Need("GRP_H", "grp"), Need("UTMP_H", "utmp"), Text({"amitcp_types"}) >>)
net_lineread == H("LINEREAD_H", << Text({"stdbool"}) >>)
net_net_if ==
  H("NET_IF_H", << Text({"sys_socket", "sys_types"}), Need("NET_IF_ARP_H", "net_if_arp") >>)
net_net_if_arp == H("NET_IF_ARP_H", << Text({"sys_socket", "sys_types"}) >>)
net_net_if_dl ==
  H("NET_IF_DL_H", << Text({"net_if", "sys_types"}), Need("KERNEL", "sys_cdefs"), Text({}) >>)
net_net_if_types == H("NET_IF_TYPES_H", << Text({}) >>)
net_net_route == H("NET_ROUTE_H", << Text({"sys_socket", "sys_types"}) >>)
net_net_sana2errno == H("NET_SANA2ERRNO_H", << Text({}) >>)
net_net_sana2tags == H("NET_SANA2TAGS_H", << Text({}) >>)
net_netdb ==
  H("NETDB_H", << Text({}),
     When({<<{}, {"BSDSOCKET_H", "CLIB_SOCKET_PROTOS_H", "KERNEL"}>>}, <<"bsdsocket">>),
     Text({}) >>)
net_netinet_in == H("NET_IN_H", << Text({"sys_types"}) >>)
net_netinet_in_systm == H("NETINET_IN_SYSTM_H", << Text({"sys_types"}) >>)
net_netinet_ip == H("NETINET_IP_H", << Text({"netinet_in", "netinet_in_systm", "sys_types"}) >>)
net_netinet_ip_icmp ==
  H("NETINET_IP_ICMP_H", << Text({"netinet_in", "netinet_in_systm", "netinet_ip", "sys_types"}) >>)
net_netinet_ip_var == H("NETINET_IP_VAR_H", << Text({"netinet_in", "sys_types"}) >>)
net_netinet_tcp == H("NETINET_TCP_H", << Text({"sys_types"}) >>)
net_netinet_udp == H("NETINET_UDP_H", << Text({"sys_types"}) >>)
net_pkts == H("PKTS_H", << Text({}) >>)
net_pragmas_ifconfig_pragmas == Unguarded(<< Text({}) >>)
net_pragmas_serscript_pragmas == Unguarded(<< Text({}) >>)
net_pragmas_socket_pragmas == H("PRAGMAS_SOCKET_PRAGMAS_H", << Text({}) >>)
net_pragmas_usergroup_pragmas == Unguarded(<< Text({}) >>)
net_proto_ifconfig ==
  H("PROTO_IFCONFIG_H", << Need("EXEC_TYPES_H", "exec_types"), Text({}),
     Get(<<"libraries_ifconfig", "clib_ifconfig_protos">>),
     When({<<{"__SASC"}, {}>>}, <<"pragmas_ifconfig_pragmas">>),
     When({<<{"__GNUC__"}, {"__SASC"}>>}, <<"inline_ifconfig">>) >>)
net_proto_serscript ==
  H("PROTO_SERSCRIPT_H", << Need("EXEC_TYPES_H", "exec_types"), Text({}),
     Get(<<"libraries_serscript", "clib_serscript_protos">>),
     When({<<{"__SASC"}, {}>>}, <<"pragmas_serscript_pragmas">>),
     When({<<{"__GNUC__"}, {"__SASC"}>>}, <<"inline_serscript">>) >>)
net_proto_socket ==
  H("PROTO_SOCKET_H", << Need("EXEC_TYPES_H", "exec_types"), Need("SYS_TYPES_H", "sys_types"),
     Text({}), Get(<<"clib_socket_protos">>),
     When({<<{"__SASC"}, {}>>}, <<"pragmas_socket_pragmas">>),
     When({<<{"__GNUC__"}, {"__SASC"}>>}, <<"inline_socket">>),
     When({<<{"_OPTINLINE"}, {}>>}, <<"clib_socket_inlines">>) >>)
net_proto_usergroup ==
  H("PROTO_USERGROUP_H", << Need("EXEC_TYPES_H", "exec_types"), Text({}),
     Get(<<"libraries_usergroup", "clib_usergroup_protos">>),
     When({<<{"__SASC"}, {}>>}, <<"pragmas_usergroup_pragmas">>),
     When({<<{"__GNUC__"}, {"__SASC"}>>}, <<"inline_usergroup">>) >>)
net_protocols_dumprestore == H("PROTOCOLS_DUMPRESTORE_H", << Text({"sys_types"}) >>)
net_protocols_routed == H("PROTOCOLS_ROUTED_H", << Text({"sys_socket", "sys_types"}) >>)
net_protocols_rwhod == H("PROTOCOLS_RWHOD_H", << Text({}) >>)
net_protocols_talkd == H("PROTOCOLS_TALKD_H", << Text({"sys_socket", "sys_types"}) >>)
net_protocols_timed == H("PROTOCOLS_TIMED_H", << Text({"devices_timer", "sys_types"}) >>)
net_pwd == H("PWD_H", << Need("SYS_TYPES_H", "sys_types"), Text({"amitcp_types"}) >>)
net_rpc_auth == H("RPC_AUTH_H", << Text({"amitcp_types", "sys_types"}) >>)
net_rpc_auth_unix == H("RPC_AUTH_UNIX_H", << Text({"amitcp_types", "rpc_auth", "sys_types"}) >>)
net_rpc_clnt == H("RPC_CLNT_H", << Text({"devices_timer", "sys_types"}) >>)
net_rpc_gst ==
  Unguarded(<< Text({}),
     Get(<<"sys_param", "sys_types", "sys_errno", "sys_ioctl", "sys_time", "errno",
       "proto_usergroup", "pragmas_socket_pragmas", "rpc_rpc", "rpc_pmap_prot", "rpc_pmap_clnt",
       "rpc_pmap_rmt", "stddef", "stdio", "stdlib", "limits", "unistd">>) >>)
net_rpc_pmap_clnt == H("RPC_PMAP_CLNT_H", << Text({"sys_time", "sys_types"}) >>)
net_rpc_pmap_prot == H("RPC_PMAP_PROT_H", << Text({}) >>)
net_rpc_pmap_rmt == H("RPC_PMAP_RMT_H", << Text({"sys_types"}) >>)
net_rpc_rpc ==
  H("RPC_RPC_H",
     << Get(<<"rpc_types", "netinet_in", "rpc_xdr", "rpc_auth", "rpc_clnt", "rpc_rpc_msg",
       "rpc_auth_unix", "rpc_svc", "rpc_svc_auth">>), Text({}) >>)
net_rpc_rpc_msg == H("RPC_RPC_MSG_H", << Text({"rpc_auth", "sys_types"}) >>)
net_rpc_svc == H("RPC_SVC_H", << Text({"netinet_in", "rpc_auth", "sys_types"}) >>)
net_rpc_svc_auth == H("RPC_SVC_AUTH_H", << Text({}) >>)
net_rpc_types ==
  H("RPC_TYPES_H", << Need("SYS_TYPES_H", "sys_types"), Need("SYS_TIME_H", "sys_time"),
     Get(<<"stddef">>), Need("UNISTD_H", "unistd"), Define("NULL"), Text({}) >>)
net_rpc_xdr == H("RPC_XDR_H", << Get(<<"stdio">>), Text({"stdio", "sys_types"}) >>)
net_stat == H("STAT_H", << Need("SYS_STAT_H", "sys_stat") >>)
net_stdio ==
  H("STDIO_H", << Need("USE_DOSIO", "include_stdio"),
     When({<<{"USE_DOSIO", "__SASC"}, {"PROTO_DOS_H"}>>, <<{"USE_DOSIO", "__GNUC__"},
       {"PROTO_DOS_H"}>>}, <<"proto_dos">>),
     When({<<{"USE_DOSIO"}, {"CLIB_DOS_PROTOS_H", "__GNUC__", "__SASC"}>>}, <<"clib_dos_protos">>),
     When({<<{"USE_DOSIO"}, {"DOS_DOS_H"}>>}, <<"dos_dos">>),
     When({<<{"USE_DOSIO"}, {"DOS_STDIO_H"}>>}, <<"dos_stdio">>),
     When({<<{"USE_DOSIO"}, {"_COMMSIZE_H"}>>}, <<"sys_commsize">>),
     When({<<{"USE_DOSIO"}, {"_COMMLIST_H"}>>}, <<"sys_commlist">>),
     When({<<{"USE_DOSIO"}, {"_COMMNULL_H"}>>}, <<"sys_commnull">>),
     When({<<{"USE_DOSIO"}, {"DOS_RDARGS_H"}>>}, <<"dos_rdargs">>) >>)
net_sys_cdefs == H("SYS_CDEFS_H", << Text({}) >>)
net_sys_errno == H("SYS_ERRNO_H", << Text({}) >>)
net_sys_file == H("SYS_FILE_H", << Need("UNISTD_H", "unistd"), Get(<<"fcntl">>) >>)
net_sys_ioctl == H("SYS_IOCTL_H", << Text({}) >>)
net_sys_param ==
  H("SYS_PARAM_H", << Text({}), Need("SYS_TYPES_H", "sys_types"), Text({}),
     When({<<{"__SASC"}, {"_LIMITS_H"}>>}, <<"limits">>),
     When({<<{"__GNUC__"}, {"_MACHINE_LIMITS_H", "__SASC"}>>}, <<"machine_limits">>), Text({}),
     When({<<{"__SASC"}, {"KERNEL", "_STRING_H"}>>}, <<"string">>), Text({}) >>)
net_sys_socket ==
  H("SYS_SOCKET_H", << Need("SYS_TYPES_H", "sys_types"), Text({"sys_types"}),
     When({<<{}, {"BSDSOCKET_H", "CLIB_SOCKET_PROTOS_H", "KERNEL"}>>}, <<"bsdsocket">>) >>)
net_sys_stat ==
  H("SYS_STAT_H", << Need("SYS_TYPES_H", "sys_types"), Text({"amitcp_types", "sys_types"}) >>)
net_sys_syslog ==
  H("SYS_SYSLOG_H", << Text({}),
     When({<<{}, {"BSDSOCKET_H", "CLIB_SOCKET_PROTOS_H", "KERNEL"}>>}, <<"bsdsocket">>) >>)
net_sys_time ==
  H("SYS_TIME_H", << Need("DEVICES_TIMER_H", "devices_timer"),
     Text({"devices_timer", "exec_io", "exec_types"}),
     When({<<{"__SASC"}, {"PROTO_TIMER_H"}>>}, <<"proto_timer">>),
     When({<<{"__GNUC__"}, {"INLINE_TIMER_H", "__SASC"}>>}, <<"inline_timer">>),
     When({<<{}, {"__GNUC__", "__SASC"}>>}, <<"clib_timer_protos">>),
     When({<<{"__SASC"}, {"KERNEL"}>>}, <<"time">>), Text({}) >>)
net_sys_types == H("SYS_TYPES_H", << Text({}), Need("AMITCP_TYPES_H", "amitcp_types"), Text({}) >>)
net_syslog == H("SYSLOG_H", << Get(<<"sys_syslog">>) >>)
net_unistd ==
  H("UNISTD_H", << Need("SYS_TYPES_H", "sys_types"), Need("SYS_TIME_H", "sys_time"),
     Text({"amitcp_types", "sys_types"}) >>)
net_utime == H("UTIME_H", << Text({}) >>)
net_utmp == H("UTMP_H", << Text({"amitcp_types"}) >>)

\* By name.
CLibrary ==
  [ assert |-> inc_assert, ctype |-> inc_ctype, errno |-> inc_errno, fenv |-> inc_fenv, float |->
    inc_float, inttypes |-> inc_inttypes, limits |-> inc_limits, locale |-> inc_locale, math |->
    inc_math, math_040 |-> inc_math_040, math_060 |-> inc_math_060, math_881 |-> inc_math_881, setjmp
    |-> inc_setjmp, signal |-> inc_signal, stdarg |-> inc_stdarg, stdbool |-> inc_stdbool, stddef |->
    inc_stddef, stdint |-> inc_stdint, stdio |-> inc_stdio, stdlib |-> inc_stdlib, string |->
    inc_string, time |-> inc_time ]
Net ==
  [ amitcp_bignames |-> net_amitcp_bignames, amitcp_socketbasetags |-> net_amitcp_socketbasetags,
    amitcp_types |-> net_amitcp_types, arpa_ftp |-> net_arpa_ftp, arpa_inet |-> net_arpa_inet,
    arpa_nameser |-> net_arpa_nameser, arpa_telnet |-> net_arpa_telnet, arpa_tftp |-> net_arpa_tftp,
    bsdsocket |-> net_bsdsocket, charread |-> net_charread, clib_ifconfig_protos |->
    net_clib_ifconfig_protos, clib_netlib_protos |-> net_clib_netlib_protos, clib_serscript_protos |->
    net_clib_serscript_protos, clib_socket_inlines |-> net_clib_socket_inlines, clib_socket_protos |->
    net_clib_socket_protos, clib_usergroup_protos |-> net_clib_usergroup_protos, devices_netinfo |->
    net_devices_netinfo, devices_sana2 |-> net_devices_sana2, devices_sana2specialstats |->
    net_devices_sana2specialstats, errno |-> net_errno, fcntl |-> net_fcntl, getopt |-> net_getopt, grp
    |-> net_grp, inetd |-> net_inetd, inline_socket |-> net_inline_socket, inline_socket_context |->
    net_inline_socket_context, inline_usergroup |-> net_inline_usergroup, inline_usergroup_context |->
    net_inline_usergroup_context, ios1 |-> net_ios1, libraries_ifconfig |-> net_libraries_ifconfig,
    libraries_serscript |-> net_libraries_serscript, libraries_usergroup |-> net_libraries_usergroup,
    lineread |-> net_lineread, net_if |-> net_net_if, net_if_arp |-> net_net_if_arp, net_if_dl |->
    net_net_if_dl, net_if_types |-> net_net_if_types, net_route |-> net_net_route, net_sana2errno |->
    net_net_sana2errno, net_sana2tags |-> net_net_sana2tags, netdb |-> net_netdb, netinet_in |->
    net_netinet_in, netinet_in_systm |-> net_netinet_in_systm, netinet_ip |-> net_netinet_ip,
    netinet_ip_icmp |-> net_netinet_ip_icmp, netinet_ip_var |-> net_netinet_ip_var, netinet_tcp |->
    net_netinet_tcp, netinet_udp |-> net_netinet_udp, pkts |-> net_pkts, pragmas_ifconfig_pragmas |->
    net_pragmas_ifconfig_pragmas, pragmas_serscript_pragmas |-> net_pragmas_serscript_pragmas,
    pragmas_socket_pragmas |-> net_pragmas_socket_pragmas, pragmas_usergroup_pragmas |->
    net_pragmas_usergroup_pragmas, proto_ifconfig |-> net_proto_ifconfig, proto_serscript |->
    net_proto_serscript, proto_socket |-> net_proto_socket, proto_usergroup |-> net_proto_usergroup,
    protocols_dumprestore |-> net_protocols_dumprestore, protocols_routed |-> net_protocols_routed,
    protocols_rwhod |-> net_protocols_rwhod, protocols_talkd |-> net_protocols_talkd, protocols_timed
    |-> net_protocols_timed, pwd |-> net_pwd, rpc_auth |-> net_rpc_auth, rpc_auth_unix |->
    net_rpc_auth_unix, rpc_clnt |-> net_rpc_clnt, rpc_gst |-> net_rpc_gst, rpc_pmap_clnt |->
    net_rpc_pmap_clnt, rpc_pmap_prot |-> net_rpc_pmap_prot, rpc_pmap_rmt |-> net_rpc_pmap_rmt, rpc_rpc
    |-> net_rpc_rpc, rpc_rpc_msg |-> net_rpc_rpc_msg, rpc_svc |-> net_rpc_svc, rpc_svc_auth |->
    net_rpc_svc_auth, rpc_types |-> net_rpc_types, rpc_xdr |-> net_rpc_xdr, stat |-> net_stat, stdio |->
    net_stdio, sys_cdefs |-> net_sys_cdefs, sys_errno |-> net_sys_errno, sys_file |-> net_sys_file,
    sys_ioctl |-> net_sys_ioctl, sys_param |-> net_sys_param, sys_socket |-> net_sys_socket, sys_stat
    |-> net_sys_stat, sys_syslog |-> net_sys_syslog, sys_time |-> net_sys_time, sys_types |->
    net_sys_types, syslog |-> net_syslog, unistd |-> net_unistd, utime |-> net_utime, utmp |-> net_utmp ]

(***************************************************************************)
(* The headers of ndk/include_h that belong to classes of objects.         *)
(***************************************************************************)

ndk_classes_arexx ==
  H("CLASSES_AREXX_H", << Need("EXEC_MEMORY_H", "exec_memory"), Need("DOS_DOS_H", "dos_dos"),
     Need("DOS_RDARGS_H", "dos_rdargs"), Need("REXX_STORAGE_H", "rexx_storage"),
     Need("REXX_RXSLIB_H", "rexx_rxslib"), Need("REXX_ERRORS_H", "rexx_errors"),
     Need("INTUITION_CLASSES_H", "intuition_classes"),
     Need("INTUITION_CLASSUSR_H", "intuition_classusr"), Need("UTILITY_HOOKS_H", "utility_hooks"),
     Need("REACTION_REACTION_H", "reaction_reaction"), Text({"dos_dos", "exec_types"}) >>)
ndk_classes_requester ==
  H("CLASSES_REQUESTER_H", << Need("REACTION_REACTION_H", "reaction_reaction"),
     Text({"exec_types"}) >>)
ndk_classes_window ==
  H("CLASSES_WINDOW_H", << Need("REACTION_REACTION_H", "reaction_reaction"),
     Text({"exec_types"}) >>)
ndk_datatypes_animationclass ==
  H("DATATYPES_ANIMATIONCLASS_H", << Need("UTILITY_TAGITEM_H", "utility_tagitem"),
     Need("DATATYPES_DATATYPESCLASS_H", "datatypes_datatypesclass"),
     Need("DATATYPES_PICTURECLASS_H", "datatypes_pictureclass"),
     Need("DATATYPES_SOUNDCLASS_H", "datatypes_soundclass"),
     Need("LIBRARIES_IFFPARSE_H", "libraries_iffparse"), Text({"exec_types"}) >>)
ndk_datatypes_datatypes ==
  H("DATATYPES_DATATYPES_H", << Need("EXEC_TYPES_H", "exec_types"),
     Need("EXEC_LISTS_H", "exec_lists"), Need("EXEC_NODES_H", "exec_nodes"),
     Need("EXEC_LIBRARIES_H", "exec_libraries"), Need("LIBRARIES_IFFPARSE_H", "libraries_iffparse"),
     Need("DOS_DOS_H", "dos_dos"), Text({"dos_dos", "exec_lists", "exec_nodes", "exec_types"}) >>)
ndk_datatypes_datatypesclass ==
  H("DATATYPES_DATATYPESCLASS_H", << Need("UTILITY_TAGITEM_H", "utility_tagitem"),
     Need("DATATYPES_DATATYPES_H", "datatypes_datatypes"),
     Need("INTUITION_INTUITION_H", "intuition_intuition"),
     Need("DEVICES_PRINTER_H", "devices_printer"), Need("DEVICES_PRTBASE_H", "devices_prtbase"),
     Text({"devices_printer", "dos_dos", "exec_io", "exec_semaphores", "exec_types", "graphics_gfx"}) >>)
ndk_datatypes_pictureclass ==
  H("DATATYPES_PICTURECLASS_H", << Need("UTILITY_TAGITEM_H", "utility_tagitem"),
     Need("DATATYPES_DATATYPESCLASS_H", "datatypes_datatypesclass"),
     Need("LIBRARIES_IFFPARSE_H", "libraries_iffparse"), Text({"exec_types"}) >>)
ndk_datatypes_soundclass ==
  H("DATATYPES_SOUNDCLASS_H", << Need("UTILITY_TAGITEM_H", "utility_tagitem"),
     Need("DATATYPES_DATATYPESCLASS_H", "datatypes_datatypesclass"),
     Need("LIBRARIES_IFFPARSE_H", "libraries_iffparse"), Need("DEVICES_TIMER_H", "devices_timer"),
     Text({"exec_types"}) >>)
ndk_datatypes_textclass ==
  H("DATATYPES_TEXTCLASS_H", << Need("UTILITY_TAGITEM_H", "utility_tagitem"),
     Need("DATATYPES_DATATYPESCLASS_H", "datatypes_datatypesclass"),
     Need("LIBRARIES_IFFPARSE_H", "libraries_iffparse"), Text({"exec_nodes", "exec_types"}) >>)
ndk_gadgets_button ==
  H("GADGETS_BUTTON_H", << Need("REACTION_REACTION_H", "reaction_reaction"),
     Need("INTUITION_GADGETCLASS_H", "intuition_gadgetclass"),
     Need("IMAGES_BEVEL_H", "images_bevel"), Text({}) >>)
ndk_gadgets_checkbox ==
  H("GADGETS_CHECKBOX_H", << Need("REACTION_REACTION_H", "reaction_reaction"),
     Need("INTUITION_GADGETCLASS_H", "intuition_gadgetclass"), Text({}) >>)
ndk_gadgets_chooser ==
  H("GADGETS_CHOOSER_H", << Need("REACTION_REACTION_H", "reaction_reaction"),
     Need("INTUITION_GADGETCLASS_H", "intuition_gadgetclass"), Text({}) >>)
ndk_gadgets_clicktab ==
  H("GADGETS_CLICKTAB_H", << Need("REACTION_REACTION_H", "reaction_reaction"),
     Need("INTUITION_GADGETCLASS_H", "intuition_gadgetclass"), Text({}) >>)
ndk_gadgets_colorwheel ==
  H("GADGETS_COLORWHEEL_H", << Need("UTILITY_TAGITEM_H", "utility_tagitem"),
     Text({"exec_types"}) >>)
ndk_gadgets_datebrowser ==
  H("GADGETS_DATEBROWSER_H", << Need("REACTION_REACTION_H", "reaction_reaction"),
     Need("INTUITION_GADGETCLASS_H", "intuition_gadgetclass"), Text({}) >>)
ndk_gadgets_fuelgauge ==
  H("GADGETS_FUELGAUGE_H", << Need("REACTION_REACTION_H", "reaction_reaction"),
     Need("INTUITION_GADGETCLASS_H", "intuition_gadgetclass"), Text({}) >>)
ndk_gadgets_getfile ==
  H("GADGETS_GETFILE_H", << Need("REACTION_REACTION_H", "reaction_reaction"),
     Need("INTUITION_GADGETCLASS_H", "intuition_gadgetclass"), Text({"exec_types"}) >>)
ndk_gadgets_getfont ==
  H("GADGETS_GETFONT_H", << Need("REACTION_REACTION_H", "reaction_reaction"),
     Need("INTUITION_GADGETCLASS_H", "intuition_gadgetclass"), Text({"exec_types"}) >>)
ndk_gadgets_getscreenmode ==
  H("GADGETS_GETSCREENMODE_H", << Need("REACTION_REACTION_H", "reaction_reaction"),
     Need("INTUITION_GADGETCLASS_H", "intuition_gadgetclass"), Text({"exec_types"}) >>)
ndk_gadgets_gradientslider ==
  H("GADGETS_GRADIENTSLIDER_H", << Need("UTILITY_TAGITEM_H", "utility_tagitem"), Text({}) >>)
ndk_gadgets_integer ==
  H("GADGETS_INTEGER_H", << Need("REACTION_REACTION_H", "reaction_reaction"),
     Need("INTUITION_GADGETCLASS_H", "intuition_gadgetclass"), Text({}) >>)
ndk_gadgets_layout ==
  H("GADGETS_LAYOUT_H", << Need("REACTION_REACTION_H", "reaction_reaction"),
     Need("INTUITION_GADGETCLASS_H", "intuition_gadgetclass"),
     Need("IMAGES_BEVEL_H", "images_bevel"), Text({"exec_types"}) >>)
ndk_gadgets_listbrowser ==
  H("GADGETS_LISTBROWSER_H", << Need("REACTION_REACTION_H", "reaction_reaction"),
     Need("INTUITION_GADGETCLASS_H", "intuition_gadgetclass"),
     Text({"exec_types", "graphics_gfx"}) >>)
ndk_gadgets_page == H("GADGETS_PAGE_H", << Need("GADGETS_LAYOUT_H", "gadgets_layout") >>)
ndk_gadgets_palette ==
  H("GADGETS_PALETTE_H", << Need("REACTION_REACTION_H", "reaction_reaction"),
     Need("INTUITION_GADGETCLASS_H", "intuition_gadgetclass"), Text({}) >>)
ndk_gadgets_radiobutton ==
  H("GADGETS_RADIOBUTTON_H", << Need("REACTION_REACTION_H", "reaction_reaction"),
     Need("INTUITION_GADGETCLASS_H", "intuition_gadgetclass"), Text({}) >>)
ndk_gadgets_scroller ==
  H("GADGETS_SCROLLER_H", << Need("REACTION_REACTION_H", "reaction_reaction"),
     Need("INTUITION_GADGETCLASS_H", "intuition_gadgetclass"), Text({}) >>)
ndk_gadgets_slider ==
  H("GADGETS_SLIDER_H", << Need("REACTION_REACTION_H", "reaction_reaction"),
     Need("INTUITION_GADGETCLASS_H", "intuition_gadgetclass"), Text({}) >>)
ndk_gadgets_space ==
  H("GADGETS_SPACE_H", << Need("REACTION_REACTION_H", "reaction_reaction"),
     Need("INTUITION_GADGETCLASS_H", "intuition_gadgetclass"), Text({}) >>)
ndk_gadgets_speedbar ==
  H("GADGETS_SPEEDBAR_H", << Need("REACTION_REACTION_H", "reaction_reaction"),
     Need("INTUITION_GADGETCLASS_H", "intuition_gadgetclass"), Text({}) >>)
ndk_gadgets_string ==
  H("GADGETS_STRING_H", << Need("REACTION_REACTION_H", "reaction_reaction"),
     Need("INTUITION_GADGETCLASS_H", "intuition_gadgetclass"), Text({}) >>)
ndk_gadgets_tapedeck ==
  H("GADGETS_TAPEDECK_H", << Need("UTILITY_TAGITEM_H", "utility_tagitem"), Text({}) >>)
ndk_gadgets_texteditor ==
  H("GADGETS_TEXTEDITOR_H", << Need("REACTION_REACTION_H", "reaction_reaction"),
     Need("INTUITION_GADGETCLASS_H", "intuition_gadgetclass"),
     Need("IMAGES_BEVEL_H", "images_bevel"), Text({"exec_types"}) >>)
ndk_gadgets_virtual ==
  H("GADGETS_VIRTUAL_H", << Need("REACTION_REACTION_H", "reaction_reaction"),
     Need("INTUITION_GADGETCLASS_H", "intuition_gadgetclass"), Text({}) >>)
ndk_images_bevel ==
  H("IMAGES_BEVEL_H", << Need("REACTRION_REACTION_H", "reaction_reaction"),
     Need("INTUITION_IMAGECLASS_H", "intuition_imageclass"), Text({}) >>)
ndk_images_bitmap ==
  H("IMAGES_BITMAP_H", << Need("REACTRION_REACTION_H", "reaction_reaction"),
     Need("INTUITION_IMAGECLASS_H", "intuition_imageclass"), Text({}) >>)
ndk_images_drawlist ==
  H("IMAGES_DRAWLIST_H", << Need("REACTRION_REACTION_H", "reaction_reaction"),
     Need("INTUITION_IMAGECLASS_H", "intuition_imageclass"), Text({"exec_types"}) >>)
ndk_images_glyph ==
  H("IMAGES_GLYPH_H", << Need("REACTRION_REACTION_H", "reaction_reaction"),
     Need("INTUITION_IMAGECLASS_H", "intuition_imageclass"), Text({}) >>)
ndk_images_label ==
  H("IMAGES_LABEL_H", << Need("REACTRION_REACTION_H", "reaction_reaction"),
     Need("INTUITION_GADGETCLASS_H", "intuition_imageclass"), Text({}) >>)
ndk_images_penmap ==
  H("IMAGES_PENMAP_H", << Need("REACTRION_REACTION_H", "reaction_reaction"),
     Need("INTUITION_IMAGECLASS_H", "intuition_imageclass"), Text({}) >>)
ndk_reaction_reaction ==
  H("REACTION_REACTION_H", << Need("UTILITY_TAGITEM_H", "utility_tagitem"), Text({}),
     When({<<{"ALL_REACTION_CLASSES"}, {}>>}, <<"proto_layout", "gadgets_layout", "proto_button",
       "gadgets_button", "proto_checkbox", "gadgets_checkbox", "proto_chooser", "gadgets_chooser",
       "proto_clicktab", "gadgets_clicktab", "proto_fuelgauge", "gadgets_fuelgauge", "proto_getfile",
       "gadgets_getfile", "proto_getfont", "gadgets_getfont", "proto_getscreenmode",
       "gadgets_getscreenmode", "proto_integer", "gadgets_integer", "proto_listbrowser",
       "gadgets_listbrowser", "proto_palette", "gadgets_palette", "proto_radiobutton",
       "gadgets_radiobutton", "proto_scroller", "gadgets_scroller", "proto_slider", "gadgets_slider",
       "proto_space", "gadgets_space", "proto_speedbar", "gadgets_speedbar", "proto_string",
       "gadgets_string", "proto_bevel", "images_bevel", "proto_bitmap", "images_bitmap",
       "proto_drawlist", "images_drawlist", "proto_glyph", "images_glyph", "proto_label",
       "images_label", "proto_penmap", "images_penmap", "proto_window", "classes_window",
       "classes_requester", "proto_requester", "proto_arexx", "classes_arexx">>),
     When({<<{"ALL_REACTION_MACROS"}, {"REACTION_MACROS_H"}>>}, <<"reaction_reaction_macros">>) >>)
ndk_reaction_reaction_class ==
  H("REACTION_REACTION_CLASS_H", << Need("INTUITION_CGHOOKS_H", "intuition_cghooks"),
     Text({"exec_types"}) >>)
ndk_reaction_reaction_macros == H("REACTION_REACTION_MACROS_H", << Text({}) >>)
ndk_reaction_reaction_prefs ==
  H("REACTION_REACTION_PREFS_H", << Need("EXEC_SEMAPHORES_H", "exec_semaphores"),
     Text({"exec_semaphores", "exec_types"}) >>)

\* By name.
NdkClasses ==
  [ classes_arexx |-> ndk_classes_arexx, classes_requester |-> ndk_classes_requester, classes_window |->
    ndk_classes_window, datatypes_animationclass |-> ndk_datatypes_animationclass, datatypes_datatypes
    |-> ndk_datatypes_datatypes, datatypes_datatypesclass |-> ndk_datatypes_datatypesclass,
    datatypes_pictureclass |-> ndk_datatypes_pictureclass, datatypes_soundclass |->
    ndk_datatypes_soundclass, datatypes_textclass |-> ndk_datatypes_textclass, gadgets_button |->
    ndk_gadgets_button, gadgets_checkbox |-> ndk_gadgets_checkbox, gadgets_chooser |->
    ndk_gadgets_chooser, gadgets_clicktab |-> ndk_gadgets_clicktab, gadgets_colorwheel |->
    ndk_gadgets_colorwheel, gadgets_datebrowser |-> ndk_gadgets_datebrowser, gadgets_fuelgauge |->
    ndk_gadgets_fuelgauge, gadgets_getfile |-> ndk_gadgets_getfile, gadgets_getfont |->
    ndk_gadgets_getfont, gadgets_getscreenmode |-> ndk_gadgets_getscreenmode, gadgets_gradientslider |->
    ndk_gadgets_gradientslider, gadgets_integer |-> ndk_gadgets_integer, gadgets_layout |->
    ndk_gadgets_layout, gadgets_listbrowser |-> ndk_gadgets_listbrowser, gadgets_page |->
    ndk_gadgets_page, gadgets_palette |-> ndk_gadgets_palette, gadgets_radiobutton |->
    ndk_gadgets_radiobutton, gadgets_scroller |-> ndk_gadgets_scroller, gadgets_slider |->
    ndk_gadgets_slider, gadgets_space |-> ndk_gadgets_space, gadgets_speedbar |-> ndk_gadgets_speedbar,
    gadgets_string |-> ndk_gadgets_string, gadgets_tapedeck |-> ndk_gadgets_tapedeck, gadgets_texteditor
    |-> ndk_gadgets_texteditor, gadgets_virtual |-> ndk_gadgets_virtual, images_bevel |->
    ndk_images_bevel, images_bitmap |-> ndk_images_bitmap, images_drawlist |-> ndk_images_drawlist,
    images_glyph |-> ndk_images_glyph, images_label |-> ndk_images_label, images_penmap |->
    ndk_images_penmap, reaction_reaction |-> ndk_reaction_reaction, reaction_reaction_class |->
    ndk_reaction_reaction_class, reaction_reaction_macros |-> ndk_reaction_reaction_macros,
    reaction_reaction_prefs |-> ndk_reaction_reaction_prefs ]
=============================================================================
