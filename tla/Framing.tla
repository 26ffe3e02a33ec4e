------------------------------ MODULE Framing -------------------------------
(***************************************************************************)
(* The bytes of the link, "<byte_length>\n<utf8_payload>" repeating: the    *)
(* UI's SocketTransport takes them in chunks of any size, the service's     *)
(* Lenpipe one at a time.  "This framing has no resynchronisation point",   *)
(* and what a frame makes the UI do may stop the transport it came by.      *)
(***************************************************************************)
EXTENDS Integers, SequencesExt

CONSTANTS
    Newline,    \* a byte that is no digit
    Base,       \* digits are 0..Base-1, ten of them in the code
    Longest,    \* bytes of a payload (bound)
    MaxFrame,   \* kMaxFrame, MAX_FRAME: no payload is longer
    MaxSent,    \* frames sent, either way, over all connections (bound)
    MaxOpened   \* connections (bound)

VARIABLES
    \* SocketTransport
    wanted,     \* m_wanted
    sock,       \* m_sock: off, connecting or on
    timer,      \* m_retry is active
    reported,   \* m_reported
    buf,        \* m_buf
    expected,   \* m_expected, or Unknown
    loop,       \* onReadyRead: out of it, in it, or in a handler of received
    \* the service's end
    served,     \* it is open
    prefix,     \* lenBytes
    len,        \* the length read, or Unknown
    payload,    \* the bytes read of it
    \* the socket
    toUi, toService,
    opened, sent,
    \* history, of this connection
    emitted,    \* frames received by the UI
    put,        \* frames the service has written
    took,       \* frames Lenpipe.read has returned
    gave,       \* frames the UI has written
    lost        \* an end dropped the link for a length that was none

uiVars == <<wanted, sock, timer, reported, buf, expected, loop>>
serviceVars == <<served, prefix, len, payload>>
framingVars ==
    <<uiVars, serviceVars, toUi, toService, opened, sent, emitted, put, took, gave, lost>>

Unknown == -1
Bytes == {Base - 1, Newline}
\* A payload may hold what looks like a length, and more than one digit's worth of it.
Payloads == UNION {[1..n -> Bytes] : n \in 1..Longest}

\* QByteArray::number, Integer.toString.
Digits[n \in Nat] ==
    IF n < Base THEN <<n>> ELSE Append(Digits[n \div Base], n % Base)

IsNumber(bs) == bs # <<>> /\ \A i \in DOMAIN bs : bs[i] # Newline
Number(bs) == FoldLeft(LAMBDA a, d : a * Base + d, 0, bs)
InStep(bs) == IsNumber(bs) /\ Number(bs) <= MaxFrame

Written(f) == Digits[Len(f)] \o <<Newline>> \o f

FramingInit ==
    /\ wanted = FALSE /\ sock = "off" /\ timer = FALSE /\ reported = FALSE
    /\ buf = <<>> /\ expected = Unknown /\ loop = "out"
    /\ served = FALSE /\ prefix = <<>> /\ len = Unknown /\ payload = <<>>
    /\ toUi = <<>> /\ toService = <<>> /\ opened = 0 /\ sent = 0
    /\ emitted = <<>> /\ put = <<>> /\ took = <<>> /\ gave = <<>> /\ lost = FALSE

----------------------------------------------------------------------------
(* SocketTransport.                                                         *)

\* As a bug would have it: the bytes go, the length that was read stays
resetBuffer == buf' = <<>> /\ UNCHANGED expected

resetFraming == buf' = <<>> /\ expected' = Unknown

\* The UI's end is gone: so is what it was sent, and what it has sent may be read.
Gone == toUi' = <<>> /\ emitted' = <<>> /\ put' = <<>>

\* The first attempt, and every later one, unless one is under way.
connectToService == sock' = IF sock = "off" THEN "connecting" ELSE sock

start ==
    /\ ~wanted /\ loop # "in" /\ wanted' = TRUE /\ connectToService
    /\ UNCHANGED <<timer, reported, buf, expected, loop, serviceVars, toUi, toService, opened,
                   sent, emitted, put, took, gave, lost>>

\* From inside a handler too: the loop it is called from goes on after it.
stop ==
    /\ wanted /\ loop # "in" /\ wanted' = FALSE /\ timer' = FALSE
    /\ sock' = "off" /\ reported' = FALSE /\ resetFraming /\ Gone
    /\ UNCHANGED <<loop, serviceVars, toService, opened, sent, took, gave, lost>>

retry ==
    /\ timer /\ loop = "out" /\ timer' = FALSE /\ connectToService
    /\ UNCHANGED <<wanted, reported, buf, expected, loop, serviceVars, toUi, toService, opened,
                   sent, emitted, put, took, gave, lost>>

\* The service has closed its end of the one before.
onConnected ==
    /\ sock = "connecting" /\ loop = "out" /\ ~served /\ opened < MaxOpened
    /\ opened' = opened + 1 /\ sock' = "on" /\ reported' = TRUE /\ resetFraming
    /\ served' = TRUE /\ prefix' = <<>> /\ len' = Unknown /\ payload' = <<>>
    /\ toUi' = <<>> /\ toService' = <<>>
    /\ emitted' = <<>> /\ put' = <<>> /\ took' = <<>> /\ gave' = <<>>
    /\ UNCHANGED <<wanted, timer, loop, sent, lost>>

\* Refused, or closed by the service.
onDisconnected ==
    /\ sock = "connecting" \/ (sock = "on" /\ ~served)
    /\ loop = "out" /\ sock' = "off" /\ reported' = FALSE /\ resetFraming /\ Gone
    /\ timer' = wanted
    /\ UNCHANGED <<wanted, loop, serviceVars, toService, opened, sent, took, gave, lost>>

\* Whatever has come is read.
onReadyRead ==
    /\ sock = "on" /\ loop = "out"
    /\ \E n \in 1..Len(toUi) :
          /\ buf' = buf \o SubSeq(toUi, 1, n) /\ toUi' = SubSeq(toUi, n + 1, Len(toUi))
    /\ loop' = "in"
    /\ UNCHANGED <<wanted, sock, timer, reported, expected, serviceVars, toService, opened,
                   sent, emitted, put, took, gave, lost>>

\* What follows the first n bytes.
After(bs, n) == SubSeq(bs, n + 1, Len(bs))

\* "Drop the link and let the retry start clean."
abort ==
    /\ sock' = "off" /\ reported' = FALSE /\ timer' = wanted /\ loop' = "out"
    /\ resetFraming /\ Gone /\ lost' = TRUE

\* One turn of `forever`: the length and, if it is all there, the payload.
NextFrame ==
    LET at == SelectInSeq(buf, LAMBDA b : b = Newline)
        line == SubSeq(buf, 1, at - 1)
        need == IF expected # Unknown THEN expected ELSE Number(line)
        rest == IF expected # Unknown THEN buf ELSE After(buf, at)
    IN  /\ loop # "out"
        /\ IF expected = Unknown /\ at # 0 /\ ~InStep(line) THEN abort
           ELSE /\ IF at = 0 /\ expected = Unknown
                   THEN loop' = "out" /\ UNCHANGED <<buf, expected, emitted>>
                   ELSE IF Len(rest) < need
                   THEN loop' = "out" /\ buf' = rest /\ expected' = need /\ UNCHANGED emitted
                   ELSE /\ loop' = "handling" /\ buf' = After(rest, need) /\ expected' = Unknown
                        /\ emitted' = Append(emitted, SubSeq(rest, 1, need))
                /\ UNCHANGED <<sock, reported, timer, toUi, put, lost>>
    /\ UNCHANGED <<wanted, serviceVars, toService, opened, sent, took, gave>>

\* Sent while not connected a frame is gone.
send(f) ==
    /\ sock = "on" /\ loop # "in" /\ sent < MaxSent /\ sent' = sent + 1
    /\ toService' = toService \o Written(f) /\ gave' = Append(gave, f)
    /\ UNCHANGED <<uiVars, serviceVars, toUi, opened, emitted, put, took, lost>>

----------------------------------------------------------------------------
(* The service: Lenpipe, one byte at a time.                                *)

Writes(f) ==
    /\ served /\ sock = "on" /\ sent < MaxSent /\ sent' = sent + 1
    /\ toUi' = toUi \o Written(f) /\ put' = Append(put, f)
    /\ UNCHANGED <<uiVars, serviceVars, toService, opened, emitted, took, gave, lost>>

\* Lenpipe.read, on one more byte.
read ==
    LET c == Head(toService)
        digits == Append(prefix, c)
        bytes == Append(payload, c)
    IN  /\ served /\ toService # <<>> /\ toService' = Tail(toService)
        /\ IF len = Unknown
           THEN IF c # Newline
                THEN prefix' = digits /\ UNCHANGED <<len, payload, took, served, lost>>
                ELSE /\ prefix' = <<>>
                     /\ len' = IF InStep(prefix) THEN Number(prefix) ELSE Unknown
                     /\ lost' = (lost \/ ~InStep(prefix)) /\ served' = InStep(prefix)
                     /\ UNCHANGED <<payload, took>>
           ELSE IF Len(bytes) < len
                THEN payload' = bytes /\ UNCHANGED <<prefix, len, took, served, lost>>
                ELSE /\ payload' = <<>> /\ len' = Unknown /\ took' = Append(took, bytes)
                     /\ UNCHANGED <<prefix, served, lost>>
    /\ UNCHANGED <<uiVars, toUi, opened, sent, emitted, put, gave>>

\* The end of the stream, wherever in a frame it comes; or the service goes, with
\* what it has not read.  What it has written can still be read.
Ends ==
    /\ served /\ served' = FALSE /\ prefix' = <<>> /\ len' = Unknown /\ payload' = <<>>
    /\ toService' = <<>> /\ took' = <<>> /\ gave' = <<>>
    /\ toUi' \in {SubSeq(toUi, 1, n) : n \in 0..Len(toUi)}
    /\ UNCHANGED <<uiVars, opened, sent, emitted, put, lost>>

FramingNext ==
    \/ start \/ stop \/ retry \/ onConnected \/ onDisconnected \/ onReadyRead \/ NextFrame
    \/ read \/ Ends
    \/ \E f \in Payloads : send(f) \/ Writes(f)

----------------------------------------------------------------------------

FramingTypeOK ==
    /\ wanted \in BOOLEAN /\ sock \in {"off", "connecting", "on"} /\ timer \in BOOLEAN
    /\ reported \in BOOLEAN /\ loop \in {"out", "in", "handling"} /\ served \in BOOLEAN
    /\ expected \in 0..Longest \cup {Unknown} /\ len \in 0..Longest \cup {Unknown}
    /\ opened \in 0..MaxOpened /\ sent \in 0..MaxSent

\* Neither end is ever out of step: what it has received is what was sent on this
\* connection, in order and whole, and all of it once nothing is under way.  A
\* transport that is wanted is on, on its way, or waits to try again.
FramesWhole ==
    /\ ~lost /\ IsPrefix(emitted, put) /\ IsPrefix(took, gave)
    /\ sock = "on" /\ served /\ toUi = <<>> /\ loop = "out" =>
          emitted = put /\ buf = <<>> /\ expected = Unknown
    /\ served /\ toService = <<>> => took = gave /\ len = Unknown
    /\ reported = (sock = "on")
    /\ wanted /\ loop = "out" => sock # "off" \/ timer
=============================================================================
