----------------------------- MODULE WSSession -----------------------------
(***************************************************************************)
(* The long connection of internal/feishu/ws.go: the loop of Run, the      *)
(* session of connect, the pinger of each connection, and the lock both    *)
(* write under.  Timers count down.  The server is external: it answers    *)
(* each ping within Delay, and may announce another interval with the      *)
(* answer.  What handleDataFrame does with an event is module Delivery;    *)
(* here is the acknowledgement it always sends.                            *)
(***************************************************************************)
EXTENDS Proto, Selection

CONSTANTS
  Intervals,          \* the ping intervals the server asks for
  Default,            \* defaultPingInterval
  Grace,              \* what the read deadline adds to the interval
  Delay,              \* the server answers a ping within this time
  Backoff, MaxWait,   \* the first wait of Run, and maxReconnectWait
  Frames,             \* the data frames the server sends
  Foreign,            \* the bytes of other frames that may arrive: of another
                      \* method, of an unknown wire type, or corrupted
  MaxUnacked          \* bound on data frames the server sends unanswered

ASSUME SessionAssumption == /\ {Default, Grace, Delay, Backoff, MaxWait} \subseteq Nat
                            /\ Intervals \subseteq Nat \ {0}
                            /\ \A i \in Intervals : i < 2 * Base
                            /\ Default > 0 /\ Backoff > 0 /\ Backoff <= MaxWait
                            /\ Delay < Grace

VARIABLES
  runPc,      \* where Run and connect are
  stopped,    \* the stop channel is closed
  backoff, wake,
  interval,   \* pingInterval of connect
  deadline,   \* until the read deadline
  frame,      \* the data frame in the hands of handleDataFrame
  pinger, period, tick,   \* the pinger, its interval, the time to its next tick
  mu,         \* who holds writeMu
  conn,       \* the current connection
  inbox,      \* on the way to the program: encoded frames
  outbox,     \* on the way to the server: encoded frames
  unacked,    \* data frames the server has no acknowledgement for yet
  pongDue     \* until the server answers a ping, or NoPong

vars == <<runPc, stopped, backoff, wake, interval, deadline, frame, pinger, period,
          tick, mu, conn, inbox, outbox, unacked, pongDue>>
run == <<runPc, stopped, backoff, wake, interval, deadline, frame>>
ping == <<pinger, period, tick>>
server == <<unacked, pongDue>>

NoPong == -1

\* Keys and values of headers are single bytes.
FrameMethodControl == 0
FrameMethodData == 1
KeyType == <<1>>
KeyBizRT == <<2>>
FrameTypeEvent == <<1>>
FrameTypePing == <<2>>
FrameTypePong == <<3>>

Frame(seq, log, service, method, headers, payload) ==
  [seqID |-> seq, logID |-> log, service |-> service, method |-> method,
   headers |-> headers, encoding |-> <<>>, type |-> <<>>, payload |-> payload,
   logIDNew |-> <<>>]

Header(key, value) == [key |-> key, value |-> value]

\* The sequence number of a ping, which nothing reads, is left out.
PingFrame == Frame(0, 0, 1, FrameMethodControl, <<Header(KeyType, FrameTypePing)>>, <<>>)
PongFrame(payload) ==
  Frame(0, 0, 1, FrameMethodControl, <<Header(KeyType, FrameTypePong)>>, payload)

\* The answer to a data frame: {"code":0} is the payload <<0>>.
AckOf(f) == Frame(f.seqID, f.logID, f.service, FrameMethodData,
                  Append(f.headers, Header(KeyBizRT, <<0>>)), <<0>>)

\* What the server sends: a pong may have no interval, a zero one, or another.
Pongs == {PongFrame(p) : p \in {<<>>, <<0>>} \cup {<<i>> : i \in Intervals}}

\* The codec on the frames that occur.
Carried(f) == unmarshalFrame(marshalFrame(f))
Messages == Frames \cup Pongs \cup {PingFrame} \cup {AckOf(Carried(f)) : f \in Frames}
Encoded == [f \in Messages |-> marshalFrame(f)]
Decoded == [bytes \in {Encoded[f] : f \in Messages} \cup Foreign |->
              unmarshalFrame(bytes)]

\* What the proofs use of the codec: an instance sends frames that survive it,
\* and foreign ones that are neither of the methods the agent knows.
ASSUME CodecAssumption ==
  /\ \A f \in Messages : Carried(f) = f /\ f \notin Failures
  /\ \A bytes \in Foreign :
       \/ unmarshalFrame(bytes) \in Failures
       \/ unmarshalFrame(bytes).method \notin {FrameMethodControl, FrameMethodData}
  /\ \A f \in Frames : f.method = FrameMethodData

Init ==
  /\ runPc = "endpoint" /\ stopped = FALSE
  /\ backoff = Backoff /\ wake = 0
  /\ interval = Default /\ deadline = 0
  /\ frame = PingFrame
  /\ pinger = "off" /\ period = Default /\ tick = 0
  /\ mu = "free"
  /\ conn = "closed"
  /\ inbox = <<>> /\ outbox = <<>>
  /\ unacked = <<>> /\ pongDue = NoPong

-----------------------------------------------------------------------------
(* Run and connect.                                                        *)

\* connect returns: its deferred calls end the pinger and close the connection.
Return ==
  /\ runPc' = "wait" /\ wake' = backoff
  /\ conn' = "closed"
  /\ inbox' = <<>> /\ outbox' = <<>> /\ unacked' = <<>> /\ pongDue' = NoPong
  /\ interval' = Default /\ deadline' = 0 /\ frame' = PingFrame

\* getEndpoint, with an interval of the server's or the default.
Endpoint ==
  /\ runPc = "endpoint"
  /\ \/ Return
     \/ /\ \E i \in Intervals \cup {Default} : interval' = i
        /\ runPc' = "dial"
        /\ UNCHANGED <<wake, deadline, frame, conn, inbox, outbox, server>>
  /\ UNCHANGED <<stopped, backoff, ping, mu>>

Dial ==
  /\ runPc = "dial"
  /\ \/ Return /\ UNCHANGED ping
     \/ /\ runPc' = "top" /\ conn' = "open"
        /\ pinger' = "idle" /\ period' = interval /\ tick' = interval
        /\ UNCHANGED <<wake, interval, deadline, frame, inbox, outbox, server>>
  /\ UNCHANGED <<stopped, backoff, mu>>

\* The deadline is not renewed.
TopDeadlineOnce ==
  /\ runPc = "top"
  /\ \/ /\ stopped /\ Return
     \/ /\ ~stopped
        /\ runPc' = "read"
        /\ deadline' = IF deadline = 0 THEN interval + Grace ELSE deadline
        /\ UNCHANGED <<wake, interval, frame, conn, inbox, outbox, server>>
  /\ UNCHANGED <<stopped, backoff, ping, mu>>

\* Stop is noticed by Run only.
TopUntilError ==
  /\ runPc = "top" /\ runPc' = "read" /\ deadline' = interval + Grace
  /\ UNCHANGED <<stopped, backoff, wake, interval, frame, ping, mu, conn, inbox, outbox,
                 server>>

\* The head of the loop of connect.
Top ==
  /\ runPc = "top"
  /\ \/ /\ stopped /\ Return
     \/ /\ ~stopped
        /\ runPc' = "read" /\ deadline' = interval + Grace
        /\ UNCHANGED <<wake, interval, frame, conn, inbox, outbox, server>>
  /\ UNCHANGED <<stopped, backoff, ping, mu>>

\* Only a lost connection is noticed, not silence.
ReadFailsOnError ==
  /\ runPc = "read"
  /\ conn = "reset"
  /\ Return
  /\ UNCHANGED <<stopped, backoff, ping, mu>>

ReadFails ==
  /\ runPc = "read"
  /\ conn = "reset" \/ deadline = 0
  /\ Return
  /\ UNCHANGED <<stopped, backoff, ping, mu>>

\* The interval a control frame sets: a pong's, when it has one that is not zero.
Announced(f) ==
  IF /\ GetHeader(f, KeyType) = FrameTypePong
     /\ f.payload # <<>> /\ f.payload[1] > 0
  THEN f.payload[1] ELSE interval

\* Frames of another method are left alone, and what is no frame.
Ignored(f) == f # Bad => f.method \notin {FrameMethodControl, FrameMethodData}

\* Only events are acknowledged.
ReadEventsOnly ==
  /\ runPc = "read" /\ inbox # <<>>
  /\ inbox' = Tail(inbox)
  /\ LET f == Decoded[Head(inbox)]
     IN /\ f # Panic
        /\ \/ /\ ~Ignored(f) => GetHeader(f, KeyType) # FrameTypeEvent
              /\ runPc' = "top"
              /\ interval' = IF Ignored(f) THEN interval ELSE Announced(f)
              /\ UNCHANGED frame
           \/ /\ ~Ignored(f) /\ f.method = FrameMethodData
              /\ GetHeader(f, KeyType) = FrameTypeEvent
              /\ runPc' = "ack" /\ frame' = f
              /\ UNCHANGED interval
  /\ UNCHANGED <<stopped, backoff, wake, deadline, ping, mu, conn, outbox, server>>

\* ReadMessage, unmarshalFrame, and the handling of a control frame.
Read ==
  /\ runPc = "read" /\ inbox # <<>>
  /\ inbox' = Tail(inbox)
  /\ LET f == Decoded[Head(inbox)]
     IN /\ f # Panic
        /\ \/ /\ Ignored(f)
              /\ runPc' = "top"
              /\ UNCHANGED <<interval, frame>>
           \/ /\ ~Ignored(f) /\ f.method = FrameMethodControl
              /\ runPc' = "top" /\ interval' = Announced(f)
              /\ UNCHANGED frame
           \/ /\ ~Ignored(f) /\ f.method = FrameMethodData
              /\ runPc' = "ack" /\ frame' = f
              /\ UNCHANGED interval
  /\ UNCHANGED <<stopped, backoff, wake, deadline, ping, mu, conn, outbox, server>>

\* Nothing recovers from a panic: the process ends, with its goroutines and its
\* connection.  What procd starts, five times at most, is another behaviour.
ReadPanics ==
  /\ runPc = "read" /\ inbox # <<>>
  /\ Decoded[Head(inbox)] = Panic
  /\ runPc' = "dead" /\ wake' = 0
  /\ conn' = "closed"
  /\ inbox' = <<>> /\ outbox' = <<>> /\ unacked' = <<>> /\ pongDue' = NoPong
  /\ interval' = Default /\ deadline' = 0 /\ frame' = PingFrame
  /\ pinger' = "off" /\ period' = Default /\ tick' = 0
  /\ mu' = "free"
  /\ UNCHANGED <<stopped, backoff>>

AckLocks ==
  /\ runPc = "ack" /\ mu = "free"
  /\ runPc' = "write" /\ mu' = "session"
  /\ UNCHANGED <<stopped, backoff, wake, interval, deadline, frame, ping, conn, inbox,
                 outbox, server>>

\* WriteMessage has no deadline.  On a silent connection it returns while there
\* is buffer space, on one that was reset it fails.
Write(f) ==
  outbox' = IF conn = "open" THEN Append(outbox, Encoded[f]) ELSE outbox

\* An error is only logged.
AckWrites ==
  /\ runPc = "write"
  /\ Write(AckOf(frame))
  /\ runPc' = "top" /\ mu' = "free" /\ frame' = PingFrame
  /\ UNCHANGED <<stopped, backoff, wake, interval, deadline, ping, conn, inbox, server>>

\* The wait doubles without end.
WaitDoubling ==
  /\ runPc = "wait"
  /\ \/ /\ stopped /\ runPc' = "exited"
        /\ UNCHANGED backoff
     \/ /\ wake = 0 /\ runPc' = "endpoint"
        /\ backoff' = 2 * backoff
  /\ UNCHANGED <<stopped, wake, interval, deadline, frame, ping, mu, conn, inbox, outbox,
                 server>>

\* The select of Run: either channel when both are ready.
Wait ==
  /\ runPc = "wait"
  /\ \/ /\ stopped /\ runPc' = "exited"
        /\ UNCHANGED backoff
     \/ /\ wake = 0
        /\ runPc' = "endpoint"
        /\ backoff' = IF 2 * backoff < MaxWait THEN 2 * backoff ELSE MaxWait
  /\ UNCHANGED <<stopped, wake, interval, deadline, frame, ping, mu, conn, inbox, outbox,
                 server>>

Stop ==
  /\ ~stopped /\ runPc # "dead"
  /\ stopped' = TRUE
  /\ UNCHANGED <<runPc, backoff, wake, interval, deadline, frame, ping, mu, conn, inbox,
                 outbox, server>>

-----------------------------------------------------------------------------
(* The pinger.  Return closes its channel and the connection.              *)

PingStops ==
  /\ pinger = "idle" /\ conn = "closed"
  /\ pinger' = "off" /\ tick' = 0 /\ period' = Default
  /\ UNCHANGED <<run, mu, conn, inbox, outbox, server>>

PingDue ==
  /\ pinger = "idle" /\ tick = 0
  /\ pinger' = "lock" /\ tick' = period
  /\ UNCHANGED <<run, period, mu, conn, inbox, outbox, server>>

\* The ping is written without writeMu.
PingLocksNothing ==
  /\ pinger = "lock"
  /\ pinger' = "write"
  /\ UNCHANGED <<run, mu, period, tick, conn, inbox, outbox, server>>

PingLocks ==
  /\ pinger = "lock" /\ mu = "free"
  /\ pinger' = "write" /\ mu' = "pinger"
  /\ UNCHANGED <<run, period, tick, conn, inbox, outbox, server>>

\* An error ends the pinger.
PingWrites ==
  /\ pinger = "write"
  /\ Write(PingFrame)
  /\ pinger' = IF conn \in {"open", "silent"} THEN "idle" ELSE "off"
  /\ mu' = "free"
  /\ UNCHANGED <<run, period, tick, conn, inbox, server>>

-----------------------------------------------------------------------------
(* The server and the network.                                             *)

\* What arrives: a ping to be answered, or the answer to the oldest data frame.
ServerTakes ==
  /\ outbox # <<>>
  /\ outbox' = Tail(outbox)
  /\ \/ /\ Head(outbox) = Encoded[PingFrame]
        /\ pongDue' = IF pongDue = NoPong THEN Delay ELSE pongDue
        /\ UNCHANGED unacked
     \/ /\ Head(outbox) # Encoded[PingFrame]
        /\ unacked' = Tail(unacked)
        /\ UNCHANGED pongDue
  /\ UNCHANGED <<run, ping, mu, conn, inbox>>

ServerPongs ==
  /\ conn = "open" /\ pongDue # NoPong
  /\ \E f \in Pongs : inbox' = Append(inbox, Encoded[f])
  /\ pongDue' = NoPong
  /\ UNCHANGED <<run, ping, mu, conn, outbox, unacked>>

ServerSends ==
  /\ conn = "open" /\ Len(unacked) < MaxUnacked
  /\ \E f \in Frames : /\ inbox' = Append(inbox, Encoded[f])
                       /\ unacked' = Append(unacked, f)
  /\ UNCHANGED <<run, ping, mu, conn, outbox, pongDue>>

ServerSendsForeign ==
  /\ conn = "open" /\ inbox = <<>>
  /\ \E bytes \in Foreign : inbox' = Append(inbox, bytes)
  /\ UNCHANGED <<run, ping, mu, conn, outbox, server>>

\* The peer disappears without a word, or resets the connection.
Break ==
  /\ conn = "open"
  /\ conn' \in {"silent", "reset"}
  /\ outbox' = <<>> /\ unacked' = <<>> /\ pongDue' = NoPong
  /\ UNCHANGED <<run, ping, mu, inbox>>

\* The kernel gives up a transmission nobody acknowledges.
OSError ==
  /\ conn = "silent"
  /\ runPc = "write" \/ pinger = "write"
  /\ conn' = "reset"
  /\ UNCHANGED <<run, ping, mu, inbox, outbox, server>>

Down(n) == IF n > 0 THEN n - 1 ELSE n

\* Whatever need not wait is done before a second passes; a write on a silent
\* connection may have to wait.
Busy ==
  \/ runPc = "top"
  \/ runPc = "read" /\ (inbox # <<>> \/ conn = "reset" \/ deadline = 0)
  \/ runPc = "ack" /\ mu = "free"
  \/ runPc = "wait" /\ (stopped \/ wake = 0)
  \/ conn # "silent" /\ (runPc = "write" \/ pinger = "write")
  \/ pinger = "idle" /\ (tick = 0 \/ conn = "closed")
  \/ pinger = "lock" /\ mu = "free"
  \/ outbox # <<>> \/ pongDue = 0

Tick ==
  /\ ~Busy /\ runPc \notin {"exited", "dead"}
  /\ wake' = Down(wake) /\ deadline' = Down(deadline)
  /\ tick' = Down(tick) /\ pongDue' = Down(pongDue)
  /\ UNCHANGED <<runPc, stopped, backoff, interval, frame, pinger, period, mu, conn, inbox,
                 outbox, unacked>>

-----------------------------------------------------------------------------
Session == \/ Endpoint \/ Dial \/ Top \/ ReadFails \/ Read \/ ReadPanics
           \/ AckLocks \/ Wait
Pinger == PingStops \/ PingDue \/ PingLocks
Server == ServerTakes \/ ServerPongs

Next == \/ Session \/ AckWrites \/ Stop
        \/ Pinger \/ PingWrites
        \/ Server \/ ServerSends \/ ServerSendsForeign \/ Break \/ OSError \/ Tick

Spec == Init /\ [][Next]_vars

\* Goroutines are scheduled, a mutex goes to the goroutine that waits, calls of
\* the HTTP client and the dialer time out, time passes, and a blocked write
\* ends when the kernel gives up.
FairSpec == /\ Spec
            /\ WF_vars(Session) /\ SF_vars(AckLocks) /\ WF_vars(Pinger)
            /\ WF_vars(AckWrites /\ conn # "silent") /\ WF_vars(PingWrites /\ conn # "silent")
            /\ WF_vars(Server) /\ WF_vars(OSError) /\ WF_vars(Tick)

-----------------------------------------------------------------------------
(* Properties.                                                             *)

SessionTypeOK ==
  /\ runPc \in {"endpoint", "dial", "top", "read", "ack", "write", "wait", "exited",
             "dead"}
  /\ stopped \in BOOLEAN
  /\ backoff \in Backoff .. MaxWait /\ wake \in 0 .. MaxWait
  /\ {interval, period} \subseteq Intervals \cup {Default}
  /\ deadline \in Nat /\ tick \in 0 .. period
  /\ pinger \in {"off", "idle", "lock", "write"}
  /\ mu \in {"free", "session", "pinger"}
  /\ conn \in {"open", "silent", "reset", "closed"}
  /\ pongDue \in {NoPong} \cup 0 .. Delay

\* Two goroutines never write to a connection at the same time, which the
\* websocket library forbids (ws.go:33).
OneWriter == ~(runPc = "write" /\ pinger = "write")

IsData(bytes) == Decoded[bytes] \notin Failures /\ Decoded[bytes].method = FrameMethodData
Holding == IF runPc \in {"ack", "write"} THEN <<AckOf(frame)>> ELSE <<>>
DataIn(s) == Picked(s, {i \in DOMAIN s : IsData(s[i])})
ToAck == DataIn(inbox)
Acks == DataIn(outbox)

\* Of the data frames the server sent on an open connection none is forgotten,
\* acknowledged twice or out of order, whatever else is read and written in
\* between; each acknowledgement carries the numbers and the headers of its
\* frame through both passes of the codec (ws.go:226-247).
AcksInOrder ==
  conn = "open" =>
    [i \in DOMAIN Acks |-> Decoded[Acks[i]]] \o Holding
      \o [i \in DOMAIN ToAck |-> AckOf(Decoded[ToAck[i]])]
    = [i \in DOMAIN unacked |-> AckOf(unacked[i])]

\* A connection that answers its pings is not given up, unless the server has
\* announced so short an interval that the deadline lies before the next answer:
\* the pinger keeps the interval it was started with (ws.go:103, 113, 138).
HealthyKept ==
  [][runPc = "read" /\ runPc' = "wait" /\ conn = "open"
     => interval + Grace <= period + Delay]_vars

\* A connection that has died is given up and replaced, also when it died in
\* silence and when a write is blocked on it (ws.go:106-117, 197-201), unless
\* the process ends.
DeadIsReplaced ==
  conn \in {"silent", "reset"} ~> (runPc \in {"endpoint", "dead"} \/ stopped)

\* Run returns after Stop (ws.go:60, 68, 108), or the process ends before.
StopEndsRun == stopped ~> runPc \in {"exited", "dead"}
=============================================================================
