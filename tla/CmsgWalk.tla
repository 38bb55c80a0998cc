------------------------------ MODULE CmsgWalk ------------------------------
(***************************************************************************)
(* A program goes over the control messages that recvmsg() gave it, with   *)
(* the macros of sys/socket.h.  Addresses and lengths are of 32 bits: what *)
(* is added to an address may come out below it.                           *)
(***************************************************************************)
EXTENDS Integers, Sequences

CONSTANTS
  PtrMod,  \* addresses there are: 2^32
  Msgs,    \* messages: [control, controllen, memory], memory the cmsg_len of the
           \* header that lies at an address, whether within the control data or not
  MaxMet   \* bound: headers that the program looks at

ControlData ==
  /\ PtrMod \in Nat /\ PtrMod % 4 = 0 /\ MaxMet \in Nat \ {0}
  /\ \A m \in Msgs :
       /\ m.control \in 1 .. PtrMod - 1 /\ m.controllen \in Nat
       /\ m.control + m.controllen < PtrMod
       /\ m.memory \in [0 .. PtrMod - 1 -> 0 .. PtrMod - 1]

VARIABLES
  msg,   \* the message
  cmsg,  \* the header that the program has
  met    \* the headers it has had
cmsgVars == <<msg, cmsg, met>>

NULL == 0
HdrSize == 12  \* sizeof(struct cmsghdr)

\* No header of the package defines ALIGN; on this machine a long is aligned to 4.
ALIGN(n) == ((n + 3) \div 4) * 4

CMSG_FIRSTHDR == msg.control
Limit == msg.control + msg.controllen
Cmsg_len == msg.memory[cmsg]
Beyond_NoHdr(len) == (cmsg + len) % PtrMod > Limit
Beyond(len) == (cmsg + len + HdrSize) % PtrMod > Limit
CMSG_NXTHDR == IF Beyond(Cmsg_len) THEN NULL ELSE (cmsg + ALIGN(Cmsg_len)) % PtrMod

Init == msg \in Msgs /\ cmsg = CMSG_FIRSTHDR /\ met = <<cmsg>>

Walk ==
  /\ cmsg # NULL /\ Len(met) < MaxMet
  /\ cmsg' = CMSG_NXTHDR
  /\ met' = IF cmsg' = NULL THEN met ELSE Append(met, cmsg')
  /\ UNCHANGED msg

Next == Walk
Spec == Init /\ [][Next]_cmsgVars

\* From a header whose length does not reach the end of memory the walk goes
\* forward, to the one that lies behind it, if that lies within msg_controllen, and
\* else ends; but it stays at a length of zero for ever, and after a length that is
\* no multiple of four it goes on to a header that ends as many bytes behind
\* msg_controllen as the length lacked.  A length that reaches the end of memory
\* ends it, or sends it back, or leaves it where it is, or sends it to the end of
\* memory: never to a header that lies behind the one it has.
Within(b) == b + HdrSize <= Limit
Overhangs(b, lacked) == ~Within(b) /\ b - lacked + HdrSize <= Limit
There(b, len) == Within(b) \/ Overhangs(b, ALIGN(len) - len)
Wraps(a, len) == a + len + HdrSize >= PtrMod
Follows(a, len, b) ==
  IF Wraps(a, len) THEN b <= a \/ b >= PtrMod - HdrSize
  ELSE b = a + ALIGN(len) /\ There(b, len) /\ (b > a \/ len = 0)
WalkRight ==
  /\ \A k \in 2 .. Len(met) : Follows(met[k - 1], msg.memory[met[k - 1]], met[k])
  /\ cmsg = NULL =>
       LET a   == met[Len(met)]
           len == msg.memory[a]
       IN  Wraps(a, len) \/ ~There(a + ALIGN(len), len)
=============================================================================
