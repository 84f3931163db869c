------------------------------- MODULE Netmon -------------------------------
(***************************************************************************)
(* The netmon builtin: the packet socket of capture.c, the header walk of  *)
(* decode.c, the filter, and the loop of netmon.c with the Ctrl-C it       *)
(* borrows from the shell.  A frame is the lengths and fields decode_frame *)
(* tests; formatting is left out.                                          *)
(***************************************************************************)
EXTENDS Integers, FiniteSets

CONSTANTS
    Frames,      \* what the network may send: see Decode for the fields
    Filters,     \* [proto, port]; port -1 is any
    MaxFrames,   \* bound: frames received in one capture
    FRAME_MAX    \* the read buffer

ASSUME LimitAssumption == MaxFrames \in Nat /\ FRAME_MAX \in Nat \ {0}

ASSUME FrameAssumption ==
    \A f \in Frames :
        f.len # 0 /\ {f.len, f.ihl, f.total_len, f.doff, f.ulen} \subseteq Nat

VARIABLES
    at,
    filter,
    packet,     \* the outcome of decode_frame for the frame in hand
    n,          \* [total, shown, malformed]
    g_stop,
    sigint,     \* who handles SIGINT: "shell" or "netmon"
    socket,     \* it is open
    result,
    seen        \* [filtered, late, pressed, missed]: frames taken out by the filter, frames
                \* received after a Ctrl-C, whether there was one, and one just before recv

nmvars == <<at, filter, packet, n, g_stop, sigint, socket, result, seen>>

-----------------------------------------------------------------------------
(* decode.c.  A frame has its length and, read where the code reads them,  *)
(* ether ("ipv4" or "other"), version, ihl, total_len, protocol, doff,     *)
(* ulen and ports.  Each step returns what it found and the bytes of the   *)
(* frame it looked at, as a bound past the last of them.                   *)

ETH_HDR_LEN == 14
IP_MIN_IHL == 5
TCP_MIN_HDR_LEN == 20
TCP_MIN_DOFF == 5
UDP_HDR_LEN == 8

Outcome(f, proto, bound, ports) ==
    [proto |-> proto, bound |-> bound, ports |-> ports, len |-> f.len, total_len |-> f.total_len]
Invalid(f, bound) == Outcome(f, "invalid", bound, {})

DecodeTcp(f, off, avail) ==
    IF avail < TCP_MIN_HDR_LEN THEN Invalid(f, off)
    ELSE IF f.doff < TCP_MIN_DOFF \/ f.doff * 4 > avail THEN Invalid(f, off + 13)
    ELSE Outcome(f, "tcp", off + 14, f.ports)

DecodeUdp(f, off, avail) ==
    IF avail < UDP_HDR_LEN THEN Invalid(f, off)
    ELSE IF f.ulen < UDP_HDR_LEN \/ f.ulen > avail THEN Invalid(f, off + 6)
    ELSE Outcome(f, "udp", off + 6, f.ports)

\* fault: only the header must fit in the frame
TotalFitsHeader(f, avail) == f.total_len >= f.ihl * 4

TotalFits(f, avail) == f.total_len <= avail /\ f.total_len >= f.ihl * 4

DecodeIpv4(f, avail) ==
    IF avail < IP_MIN_IHL * 4 THEN Invalid(f, ETH_HDR_LEN)
    ELSE IF f.version # 4 \/ f.ihl < IP_MIN_IHL \/ f.ihl * 4 > avail THEN Invalid(f, ETH_HDR_LEN + 1)
    ELSE IF ~TotalFits(f, avail) THEN Invalid(f, ETH_HDR_LEN + 4)
    ELSE
    LET off == ETH_HDR_LEN + f.ihl * 4
        payload == f.total_len - f.ihl * 4
    IN
    CASE f.protocol = "tcp" -> DecodeTcp(f, off, payload)
      [] f.protocol = "udp" -> DecodeUdp(f, off, payload)
      [] OTHER -> Outcome(f, "other_ip", ETH_HDR_LEN + 20, {})

Decode(f) ==
    IF f.len < ETH_HDR_LEN THEN Invalid(f, 0)
    ELSE IF f.ether # "ipv4" THEN Outcome(f, "none", ETH_HDR_LEN, {})
    ELSE DecodeIpv4(f, f.len - ETH_HDR_LEN)

CutToBuffer(f) == [f EXCEPT !.len = IF @ > FRAME_MAX THEN FRAME_MAX ELSE @]

\* filter_match
FilterMatch(p, want) ==
    /\ want.proto \in {"all", p.proto}
    /\ want.port >= 0 => want.port \in p.ports

-----------------------------------------------------------------------------
NoPacket == Outcome([len |-> 0, total_len |-> 0], "none", 0, {})

\* g_stop may be left over from an earlier capture
NmInit ==
    /\ at = "start" /\ filter \in Filters
    /\ packet = NoPacket
    /\ n = [total |-> 0, shown |-> 0, malformed |-> 0]
    /\ g_stop \in BOOLEAN /\ sigint = "shell" /\ socket = FALSE /\ result = 0
    /\ seen = [filtered |-> 0, late |-> 0, pressed |-> FALSE, missed |-> FALSE]

Returns(code) == at' = "returned" /\ result' = code

\* bad arguments, or a socket that does not open: parse_args and capture_open
Refused ==
    /\ at = "start"
    /\ Returns(1)
    /\ UNCHANGED <<filter, packet, n, g_stop, sigint, socket, seen>>

CaptureOpen ==
    /\ at = "start"
    /\ socket' = TRUE
    /\ at' = "install"
    /\ UNCHANGED <<filter, packet, n, g_stop, sigint, result, seen>>

\* sigint_install: the flag is cleared first
SigintInstall ==
    /\ at = "install"
    /\ g_stop' = FALSE
    /\ \/ sigint' = "netmon" /\ at' = "test" /\ UNCHANGED <<socket, result>>
       \/ socket' = FALSE /\ Returns(1) /\ UNCHANGED sigint
    /\ UNCHANGED <<filter, packet, n, seen>>

TestStop ==
    /\ at = "test"
    /\ at' = IF g_stop THEN "restore" ELSE "recv"
    /\ UNCHANGED <<filter, packet, n, g_stop, sigint, socket, result, seen>>

CallRecv ==
    /\ at = "recv"
    /\ at' = "blocked"
    /\ UNCHANGED <<filter, packet, n, g_stop, sigint, socket, result, seen>>

\* a frame has come; it is cut to the buffer
Recv ==
    /\ at = "blocked"
    /\ n.total < MaxFrames
    /\ \E f \in Frames : packet' = Decode(CutToBuffer(f))
    /\ n' = [n EXCEPT !.total = @ + 1]
    /\ seen' = [seen EXCEPT !.late = IF g_stop THEN @ + 1 ELSE @]
    /\ at' = "decoded"
    /\ UNCHANGED <<filter, g_stop, sigint, socket, result>>

\* a frame of no bytes counts for nothing
RecvEmpty ==
    /\ at = "blocked"
    /\ at' = "test"
    /\ UNCHANGED <<filter, packet, n, g_stop, sigint, socket, result, seen>>

RecvFails ==
    /\ at = "blocked"
    /\ at' = "restore" /\ result' = 1
    /\ UNCHANGED <<filter, packet, n, g_stop, sigint, socket, seen>>

Malformed ==
    /\ at = "decoded" /\ packet.proto = "invalid"
    /\ n' = [n EXCEPT !.malformed = @ + 1]
    /\ at' = "test" /\ packet' = NoPacket
    /\ UNCHANGED <<filter, g_stop, sigint, socket, result, seen>>

Filtered ==
    /\ at = "decoded" /\ packet.proto # "invalid" /\ ~FilterMatch(packet, filter)
    /\ seen' = [seen EXCEPT !.filtered = @ + 1]
    /\ at' = "test" /\ packet' = NoPacket
    /\ UNCHANGED <<filter, n, g_stop, sigint, socket, result>>

\* a line that cannot be written is not counted, and ends the loop
Emit ==
    /\ at = "decoded" /\ packet.proto # "invalid" /\ FilterMatch(packet, filter)
    /\ \/ n' = [n EXCEPT !.shown = @ + 1] /\ at' = "test" /\ UNCHANGED result
       \/ at' = "restore" /\ result' = 1 /\ UNCHANGED n
    /\ packet' = NoPacket
    /\ UNCHANGED <<filter, g_stop, sigint, socket, seen>>

\* sigint_restore, capture_close and the result
Restore ==
    /\ at = "restore"
    /\ sigint' = "shell" /\ socket' = FALSE
    /\ Returns(IF result = 0 /\ g_stop THEN 130 ELSE result)
    /\ UNCHANGED <<filter, packet, n, g_stop, seen>>

\* fault: the handler is installed with SA_RESTART
CtrlCRestarts ==
    /\ at # "returned"
    /\ g_stop' = (g_stop \/ sigint = "netmon")
    /\ seen' = [seen EXCEPT !.pressed = @ \/ sigint = "netmon", !.missed = sigint = "netmon" /\ at = "recv"]
    /\ UNCHANGED <<at, filter, packet, n, sigint, socket, result>>

(* stop_handler; recv gives up only if the signal finds it waiting.  The   *)
(* shell ignores SIGINT.                                                   *)
CtrlC ==
    /\ at # "returned"
    /\ g_stop' = (g_stop \/ sigint = "netmon")
    /\ at' = IF at = "blocked" THEN "test" ELSE at
    /\ seen' = [seen EXCEPT !.pressed = @ \/ sigint = "netmon", !.missed = sigint = "netmon" /\ at = "recv"]
    /\ UNCHANGED <<filter, packet, n, sigint, socket, result>>

\* what needs neither the network nor the user
NetmonStep == TestStop \/ CallRecv \/ Malformed \/ Filtered \/ Emit \/ Restore

NmNext == Refused \/ CaptureOpen \/ SigintInstall \/ NetmonStep \/ Recv \/ RecvEmpty \/ RecvFails \/ CtrlC

NmSpec == NmInit /\ [][NmNext]_nmvars /\ WF_nmvars(NetmonStep)

-----------------------------------------------------------------------------
(* Decoding looks at no byte past the frame that was received, nor, in a   *)
(* packet it accepts, past the datagram; every packet is counted once; at  *)
(* most one is received after Ctrl-C; and whatever failed, netmon returns  *)
(* with the socket closed and SIGINT given back, and tells an interrupt    *)
(* from a failure.                                                         *)
CaptureAccounted ==
    LET inHand == IF at = "decoded" THEN 1 ELSE 0
        counted == n.shown + n.malformed + seen.filtered + inHand
    IN
    /\ packet.bound <= packet.len
    /\ packet.proto \in {"tcp", "udp"} => packet.bound <= ETH_HDR_LEN + packet.total_len
    /\ n.total = counted \/ (result = 1 /\ n.total = counted + 1)
    /\ seen.late <= 1
    /\ at = "returned" =>
          /\ sigint = "shell" /\ ~socket
          /\ result = 130 \/ result = 1
          /\ result = 130 => seen.pressed

(* "The blocking recv has to come back EINTR for the flag to be read":     *)
(* Ctrl-C ends the capture even if no frame ever comes, unless it falls    *)
(* between the test of g_stop and the call; pressed again, it does.        *)
CaptureStops ==
    (g_stop /\ sigint = "netmon" /\ ~seen.missed) ~> (at = "returned" \/ seen.missed)
=============================================================================
