-------------------------- MODULE WSSessionProof --------------------------
(***************************************************************************)
(* The safety properties of WSSession, for every set of frames that        *)
(* survives the codec, for all foreign ones, and for all times with        *)
(* Delay < Grace.                                                          *)
(***************************************************************************)
EXTENDS WSSession, SelectionProof

-----------------------------------------------------------------------------
(* The codec, as far as it matters here.                                   *)

LEMMA CodecWorks ==
  /\ \A f \in Frames \cup Pongs \cup {PingFrame} :
       f \in Messages /\ Decoded[Encoded[f]] = f /\ f \notin Failures
  /\ \A f \in Frames : LET a == AckOf(f)
                       IN a \in Messages /\ Decoded[Encoded[a]] = a /\ a \notin Failures
  /\ \A bytes \in Foreign :
       \/ Decoded[bytes] \in Failures
       \/ Decoded[bytes].method \notin {FrameMethodControl, FrameMethodData}
<1> DEFINE D == {Encoded[f] : f \in Messages} \cup Foreign
<1>1. \A f \in Messages : Encoded[f] = marshalFrame(f)
  BY DEF Encoded
<1>2. \A bytes \in D : Decoded[bytes] = unmarshalFrame(bytes)
  BY DEF Decoded
<1>3. \A f \in Messages : unmarshalFrame(marshalFrame(f)) = f /\ f \notin Failures
  BY CodecAssumption DEF Carried
<1>4. \A f \in Messages : Decoded[Encoded[f]] = f /\ f \notin Failures
  <2> SUFFICES ASSUME NEW f \in Messages PROVE Decoded[Encoded[f]] = f /\ f \notin Failures
    OBVIOUS
  <2>1. Encoded[f] \in D
    OBVIOUS
  <2>2. Decoded[Encoded[f]] = unmarshalFrame(marshalFrame(f))
    BY <2>1, <1>1, <1>2
  <2> QED BY <2>2, <1>3
<1>5. Frames \cup Pongs \cup {PingFrame} \subseteq Messages
  BY DEF Messages
<1>6. \A f \in Frames : AckOf(f) \in Messages
  BY <1>3, <1>5 DEF Messages, Carried
<1>7. ASSUME NEW bytes \in Foreign
      PROVE  \/ Decoded[bytes] \in Failures
             \/ Decoded[bytes].method \notin {FrameMethodControl, FrameMethodData}
  <2>1. Decoded[bytes] = unmarshalFrame(bytes)
    BY <1>2
  <2> QED BY <2>1, CodecAssumption
<1> QED BY <1>4, <1>5, <1>6, <1>7

\* What the frames on the way are.
LEMMA Methods ==
  /\ \A f \in Frames : f.method = FrameMethodData
  /\ \A f \in Frames : AckOf(f).method = FrameMethodData
  /\ \A f \in Pongs : f.method = FrameMethodControl
  /\ PingFrame.method = FrameMethodControl
  /\ FrameMethodControl # FrameMethodData
BY CodecAssumption DEF AckOf, Pongs, PongFrame, PingFrame, Frame, FrameMethodControl,
   FrameMethodData

\* A pong announces an interval of the server's, or none.
LEMMA PongIntervals ==
  \A f \in Pongs : f.payload # <<>> /\ f.payload[1] > 0 => f.payload[1] \in Intervals
<1> SUFFICES ASSUME NEW f \in Pongs, f.payload # <<>>, f.payload[1] > 0
             PROVE  f.payload[1] \in Intervals
  OBVIOUS
<1>1. PICK p \in {<<>>, <<0>>} \cup {<<i>> : i \in Intervals} : f = PongFrame(p)
  BY DEF Pongs
<1>2. f.payload = p
  BY <1>1 DEF PongFrame, Frame
<1> QED BY <1>1, <1>2

-----------------------------------------------------------------------------
(* The invariant.                                                          *)

Arriving == {Encoded[f] : f \in Frames \cup Pongs} \cup Foreign
Leaving == {Encoded[PingFrame]} \cup {Encoded[AckOf(f)] : f \in Frames}

\* What is in the buffers.
Buffered ==
  /\ inbox \in Seq(Arriving) /\ outbox \in Seq(Leaving)
  /\ runPc \in {"ack", "write"} => frame \in Frames
  /\ conn = "closed" => inbox = <<>> /\ outbox = <<>> /\ unacked = <<>>

\* The lock is held by whoever writes.
Locked == /\ mu = "session" <=> runPc = "write"
          /\ mu = "pinger" <=> pinger = "write"

\* There is a connection inside the loop of connect only.
Connected == conn = "closed" <=> runPc \in {"endpoint", "dial", "wait", "exited", "dead"}

\* The pinger of a connection has ended before the next one is dialled: it needs
\* no time for it, and Run waits.
PingerEnds ==
  /\ runPc \in {"endpoint", "dial"} => pinger = "off"
  /\ runPc = "wait" /\ pinger # "off" => wake > 0

\* It runs as long as its writes can succeed.
PingerLives == conn \in {"open", "silent"} => pinger # "off"

\* The time to the next answer, at the latest.
PingSent == \E i \in DOMAIN outbox : outbox[i] = Encoded[PingFrame]
Answer == IF inbox # <<>> THEN 0
          ELSE IF pongDue # NoPong THEN pongDue
          ELSE IF PingSent \/ pinger \in {"lock", "write"} THEN Delay
          ELSE tick + Delay

\* It comes before the deadline.
InTime ==
  runPc = "read" /\ conn = "open" /\ interval + Grace > period + Delay
  => deadline > Answer

SInv == /\ SessionTypeOK /\ Buffered /\ Locked /\ Connected
        /\ PingerEnds /\ PingerLives /\ InTime

Constants == /\ Default \in Nat \ {0} /\ Grace \in Nat /\ Delay \in Nat /\ Delay < Grace
             /\ Backoff \in Nat \ {0} /\ MaxWait \in Nat /\ Backoff <= MaxWait
             /\ Intervals \subseteq Nat \ {0}

LEMMA ConstantsTyped == Constants
BY SessionAssumption DEF Constants

LEMMA InitSInv == Init => SInv
<1> SUFFICES ASSUME Init PROVE SInv
  OBVIOUS
<1> USE DEF Init
<1>1. SessionTypeOK
  <2> USE ConstantsTyped DEF Constants, NoPong
  <2>1. backoff \in Backoff .. MaxWait /\ wake \in 0 .. MaxWait /\ deadline \in Nat
    OBVIOUS
  <2>2. {interval, period} \subseteq Intervals \cup {Default} /\ tick \in 0 .. period
    OBVIOUS
  <2>3. pongDue \in {NoPong} \cup 0 .. Delay
    OBVIOUS
  <2> QED BY <2>1, <2>2, <2>3 DEF SessionTypeOK
<1>2. Buffered
  BY DEF Buffered
<1>3. Locked /\ Connected /\ PingerEnds /\ PingerLives /\ InTime
  BY DEF Locked, Connected, PingerEnds, PingerLives, InTime
<1> QED BY <1>1, <1>2, <1>3 DEF SInv

-----------------------------------------------------------------------------
(* The types.                                                              *)

\* A frame from the buffer is decoded to what was sent.
LEMMA Received ==
  ASSUME Buffered, inbox # <<>>
  PROVE  LET f == Decoded[Head(inbox)]
         IN /\ Head(inbox) \in Arriving /\ Tail(inbox) \in Seq(Arriving)
            /\ f \notin Failures /\ f.method = FrameMethodData => f \in Frames
            /\ f \notin Failures /\ f.method = FrameMethodControl => f \in Pongs
<1>1. Head(inbox) \in Arriving /\ Tail(inbox) \in Seq(Arriving)
  BY HeadTailProperties DEF Buffered
<1> QED BY <1>1, CodecWorks, Methods DEF Arriving

\* The numbers among the variables.
LEMMA Numbers ==
  SessionTypeOK => /\ interval \in Nat \ {0} /\ period \in Nat \ {0}
                   /\ tick \in Nat /\ tick <= period
                   /\ pongDue \in Int /\ pongDue <= Delay /\ (pongDue # NoPong => pongDue >= 0)
<1> SUFFICES ASSUME SessionTypeOK
             PROVE  /\ interval \in Nat \ {0} /\ period \in Nat \ {0}
                    /\ tick \in Nat /\ tick <= period
                    /\ pongDue \in Int /\ pongDue <= Delay /\ (pongDue # NoPong => pongDue >= 0)
  OBVIOUS
<1>1. interval \in Intervals \cup {Default} /\ period \in Intervals \cup {Default}
  BY DEF SessionTypeOK
<1>2. interval \in Nat \ {0} /\ period \in Nat \ {0}
  BY <1>1, ConstantsTyped DEF Constants
<1>3. tick \in Nat /\ tick <= period
  BY <1>2 DEF SessionTypeOK
<1>4. pongDue \in Int /\ pongDue <= Delay /\ (pongDue # NoPong => pongDue >= 0)
  BY ConstantsTyped DEF Constants, SessionTypeOK, NoPong
<1> QED BY <1>2, <1>3, <1>4

LEMMA NextTypes == SInv /\ [Next]_vars => SessionTypeOK'
<1> SUFFICES ASSUME SInv, [Next]_vars
             PROVE  SessionTypeOK'
  OBVIOUS
<1>0. SessionTypeOK
  BY DEF SInv
<1>n. /\ interval \in Nat \ {0} /\ period \in Nat \ {0}
      /\ tick \in Nat /\ tick <= period
  BY <1>0, Numbers
<1>c. Constants
  BY ConstantsTyped
\* Most steps change no more than this.
<1>a. ASSUME /\ runPc' \in {"endpoint", "dial", "top", "read", "ack", "write", "wait", "exited",
                           "dead"}
             /\ stopped' \in BOOLEAN
             /\ UNCHANGED <<backoff, period>>
             /\ wake' \in {backoff, wake} /\ tick' \in {tick, period}
             /\ deadline' \in {deadline, 0, interval + Grace}
             /\ interval' \in {interval, Default} \cup Intervals
             /\ pinger' \in {"off", "idle", "lock", "write"}
             /\ mu' \in {"free", "session", "pinger"}
             /\ conn' \in {"open", "silent", "reset", "closed"}
             /\ pongDue' \in {NoPong, pongDue, Delay}
      PROVE  SessionTypeOK'
  <2>1. deadline' \in Nat /\ tick' \in 0 .. period'
    BY <1>0, <1>n, <1>c, <1>a DEF SessionTypeOK, Constants
  <2>2. pongDue' \in {NoPong} \cup 0 .. Delay
    BY <1>0, <1>c, <1>a DEF SessionTypeOK, Constants
  <2>3. backoff' \in Backoff .. MaxWait /\ wake' \in 0 .. MaxWait
    BY <1>0, <1>c, <1>a DEF SessionTypeOK, Constants
  <2>4. {interval', period'} \subseteq Intervals \cup {Default}
    BY <1>0, <1>a DEF SessionTypeOK
  <2> QED BY <1>a, <2>1, <2>2, <2>3, <2>4 DEF SessionTypeOK
<1> USE <1>0 DEF SessionTypeOK
<1>1. CASE Endpoint
  BY <1>1, <1>a DEF Endpoint, Return, ping, server
<1>2. CASE Dial
  <2>1. CASE Return /\ UNCHANGED ping
    BY <1>2, <2>1, <1>a DEF Dial, Return, ping
  <2>2. CASE ~(Return /\ UNCHANGED ping)
    <3>1. /\ runPc' = "top" /\ conn' = "open" /\ pinger' = "idle"
          /\ period' = interval /\ tick' = interval
          /\ UNCHANGED <<wake, interval, deadline, server, stopped, backoff, mu>>
      BY <1>2, <2>2 DEF Dial
    <3>2. tick' \in 0 .. period'
      BY <3>1, <1>n
    <3> QED BY <3>1, <3>2 DEF server
  <2> QED BY <2>1, <2>2
<1>3. CASE Top
  BY <1>3, <1>a DEF Top, Return, ping, server
<1>4. CASE ReadFails
  BY <1>4, <1>a DEF ReadFails, Return, ping, server
<1>5. CASE Read
  <2> DEFINE f == Decoded[Head(inbox)]
  <2>1. f \notin Failures /\ f.method = FrameMethodControl => f \in Pongs
    BY <1>5, Received DEF Read, SInv
  <2>2. f \notin Failures /\ f.method = FrameMethodControl
        => Announced(f) \in Intervals \cup {interval}
    BY <2>1, PongIntervals DEF Announced
  <2>3. /\ interval' \in Intervals \cup {interval} /\ runPc' \in {"top", "ack"}
        /\ UNCHANGED <<stopped, backoff, wake, deadline, ping, mu, conn, server>>
    BY <1>5, <2>2 DEF Read, Ignored, Failures
  <2> QED BY <2>3, <1>a DEF ping, server
<1>6. CASE AckLocks
  BY <1>6, <1>a DEF AckLocks, ping, server
<1>7. CASE Wait
  <2>1. backoff' \in Backoff .. MaxWait
    BY <1>7, <1>c DEF Wait, Constants
  <2> QED BY <1>7, <2>1 DEF Wait, ping, server
<1>8. CASE AckWrites
  BY <1>8, <1>a DEF AckWrites, ping, server
<1>9. CASE Stop
  BY <1>9, <1>a DEF Stop, ping, server
<1>10. CASE PingStops
  <2>1. {interval, Default} \subseteq Intervals \cup {Default} /\ 0 \in 0 .. Default
    BY <1>c DEF Constants
  <2> QED BY <1>10, <2>1 DEF PingStops, run, server
<1>11. CASE PingDue
  BY <1>11, <1>a DEF PingDue, run, server
<1>12. CASE PingLocks
  BY <1>12, <1>a DEF PingLocks, run, ping, server
<1>13. CASE PingWrites
  BY <1>13, <1>a DEF PingWrites, run, server
<1>14. CASE ServerTakes
  BY <1>14, <1>a DEF ServerTakes, run, ping
<1>15. CASE ServerPongs
  BY <1>15, <1>a DEF ServerPongs, run, ping
<1>16. CASE ServerSends
  BY <1>16, <1>a DEF ServerSends, run, ping
<1>17. CASE ServerSendsForeign
  BY <1>17, <1>a DEF ServerSendsForeign, run, ping, server
<1>18. CASE Break
  BY <1>18, <1>a DEF Break, run, ping
<1>19. CASE OSError
  BY <1>19, <1>a DEF OSError, run, ping, server
<1>20. CASE Tick
  <2>1. wake' \in 0 .. MaxWait /\ deadline' \in Nat
    <3>1. wake' = Down(wake) /\ deadline' = Down(deadline)
      BY <1>20 DEF Tick
    <3> QED BY <1>c, <3>1 DEF Down, Constants
  <2>2. tick' \in 0 .. period
    <3>1. tick' = Down(tick)
      BY <1>20 DEF Tick
    <3> QED BY <1>n, <3>1 DEF Down
  <2>3. pongDue' \in {NoPong} \cup 0 .. Delay
    <3>1. pongDue' = Down(pongDue)
      BY <1>20 DEF Tick
    <3> QED BY <1>c, <3>1 DEF Down, NoPong, Constants
  <2> QED BY <1>20, <2>1, <2>2, <2>3 DEF Tick
<1>21. CASE ReadPanics
  <2>1. wake' \in 0 .. MaxWait /\ tick' \in 0 .. period' /\ deadline' \in Nat
    BY <1>21, <1>c DEF ReadPanics, Constants
  <2> QED BY <1>21, <2>1 DEF ReadPanics
<1>22. CASE UNCHANGED vars
  BY <1>22, <1>a DEF vars
<1> QED
  BY <1>1, <1>2, <1>3, <1>4, <1>5, <1>6, <1>7, <1>8, <1>9, <1>10, <1>11, <1>12, <1>13,
     <1>14, <1>15, <1>16, <1>17, <1>18, <1>19, <1>20, <1>21, <1>22
     DEF Next, Session, Pinger, Server

LEMMA NextBuffered == SInv /\ [Next]_vars => Buffered'
<1> SUFFICES ASSUME SInv, [Next]_vars
             PROVE  Buffered'
  OBVIOUS
<1>0. Buffered /\ Connected
  BY DEF SInv
<1> USE <1>0 DEF Buffered
<1>r. ASSUME Return PROVE Buffered'
  BY <1>r DEF Return
\* Most steps leave the buffers alone.
<1>a. ASSUME UNCHANGED <<inbox, outbox>>,
             conn = "closed" => UNCHANGED unacked,
             conn' = "closed" => conn = "closed",
             runPc' \in {"ack", "write"} => runPc \in {"ack", "write"} /\ UNCHANGED frame
      PROVE  Buffered'
  BY <1>a
<1>1. CASE Endpoint
  BY <1>1, <1>r, <1>a DEF Endpoint, server
<1>2. CASE Dial
  BY <1>2, <1>r, <1>a DEF Dial, server
<1>3. CASE Top
  BY <1>3, <1>r, <1>a DEF Top, server
<1>4. CASE ReadFails
  BY <1>4, <1>r DEF ReadFails
<1>5. CASE Read
  <2> DEFINE f == Decoded[Head(inbox)]
  <2>1. /\ Tail(inbox) \in Seq(Arriving)
        /\ f \notin Failures /\ f.method = FrameMethodData => f \in Frames
    BY <1>5, Received DEF Read
  <2>2. /\ runPc' \in {"top", "ack"}
        /\ runPc' = "ack" => frame' \in Frames
    BY <1>5, <2>1 DEF Read, Ignored, Failures
  <2>3. conn # "closed"
    BY <1>5 DEF Read
  <2> QED BY <1>5, <2>1, <2>2, <2>3 DEF Read
<1>6. CASE AckLocks
  BY <1>6, <1>a DEF AckLocks, server
<1>7. CASE Wait
  BY <1>7, <1>a DEF Wait, server
<1>8. CASE AckWrites
  <2>1. outbox' \in Seq(Leaving)
    BY <1>8, AppendProperties DEF AckWrites, Write, Leaving
  <2>2. conn = "closed" => outbox' = <<>>
    BY <1>8 DEF AckWrites, Write
  <2> QED BY <1>8, <2>1, <2>2 DEF AckWrites, server
<1>9. CASE Stop
  BY <1>9, <1>a DEF Stop, server
<1>10. CASE PingStops
  BY <1>10, <1>a DEF PingStops, run, server
<1>11. CASE PingDue
  BY <1>11, <1>a DEF PingDue, run, server
<1>12. CASE PingLocks
  BY <1>12, <1>a DEF PingLocks, run, server
<1>13. CASE PingWrites
  <2>1. outbox' \in Seq(Leaving)
    BY <1>13, AppendProperties DEF PingWrites, Write, Leaving
  <2>2. conn = "closed" => outbox' = <<>>
    BY <1>13 DEF PingWrites, Write
  <2> QED BY <1>13, <2>1, <2>2 DEF PingWrites, run, server
<1>14. CASE ServerTakes
  <2>1. outbox' \in Seq(Leaving) /\ conn # "closed"
    BY <1>14, HeadTailProperties DEF ServerTakes
  <2> QED BY <1>14, <2>1 DEF ServerTakes, run
<1>15. CASE ServerPongs
  <2>1. inbox' \in Seq(Arriving)
    BY <1>15, AppendProperties DEF ServerPongs, Arriving
  <2> QED BY <1>15, <2>1 DEF ServerPongs, run
<1>16. CASE ServerSends
  <2>1. inbox' \in Seq(Arriving)
    BY <1>16, AppendProperties DEF ServerSends, Arriving
  <2> QED BY <1>16, <2>1 DEF ServerSends, run
<1>17. CASE ServerSendsForeign
  <2>1. inbox' \in Seq(Arriving)
    BY <1>17 DEF ServerSendsForeign, Arriving
  <2> QED BY <1>17, <2>1 DEF ServerSendsForeign, run, server
<1>18. CASE Break
  BY <1>18 DEF Break, run
<1>19. CASE OSError
  BY <1>19, <1>a DEF OSError, run, server
<1>20. CASE Tick
  BY <1>20, <1>a DEF Tick
<1>21. CASE ReadPanics
  BY <1>21 DEF ReadPanics
<1>22. CASE UNCHANGED vars
  BY <1>22, <1>a DEF vars
<1> QED
  BY <1>1, <1>2, <1>3, <1>4, <1>5, <1>6, <1>7, <1>8, <1>9, <1>10, <1>11, <1>12, <1>13,
     <1>14, <1>15, <1>16, <1>17, <1>18, <1>19, <1>20, <1>21, <1>22
     DEF Next, Session, Pinger, Server

-----------------------------------------------------------------------------
(* Who writes, and which goroutines there are.                             *)

LEMMA NextLocked == SInv /\ [Next]_vars => Locked'
<1> SUFFICES ASSUME SInv, [Next]_vars
             PROVE  Locked'
  OBVIOUS
<1>0. Locked /\ PingerEnds
  BY DEF SInv
<1> USE <1>0 DEF Locked, run, ping
<1>1. CASE Session
  BY <1>1 DEF Session, Endpoint, Dial, Top, ReadFails, Read, ReadPanics, AckLocks,
     Wait, Return,
     PingerEnds
<1>2. CASE AckWrites \/ Stop \/ Pinger \/ PingWrites
  BY <1>2 DEF AckWrites, Stop, Pinger, PingStops, PingDue, PingLocks, PingWrites
<1>3. CASE Server \/ ServerSends \/ ServerSendsForeign \/ Break \/ OSError \/ Tick
  BY <1>3 DEF Server, ServerTakes, ServerPongs, ServerSends, ServerSendsForeign, Break,
     OSError, Tick
<1>4. CASE UNCHANGED vars
  BY <1>4 DEF vars
<1> QED BY <1>1, <1>2, <1>3, <1>4 DEF Next

LEMMA NextConnected == SInv /\ [Next]_vars => Connected'
<1> SUFFICES ASSUME SInv, [Next]_vars
             PROVE  Connected'
  OBVIOUS
<1>0. Connected
  BY DEF SInv
<1> USE <1>0 DEF Connected, run
<1>1. CASE Session
  BY <1>1 DEF Session, Endpoint, Dial, Top, ReadFails, Read, ReadPanics, AckLocks,
     Wait, Return
<1>2. CASE AckWrites \/ Stop \/ Pinger \/ PingWrites
  BY <1>2 DEF AckWrites, Stop, Pinger, PingStops, PingDue, PingLocks, PingWrites
<1>3. CASE Server \/ ServerSends \/ ServerSendsForeign \/ Break \/ OSError \/ Tick
  BY <1>3 DEF Server, ServerTakes, ServerPongs, ServerSends, ServerSendsForeign, Break,
     OSError, Tick
<1>4. CASE UNCHANGED vars
  BY <1>4 DEF vars
<1> QED BY <1>1, <1>2, <1>3, <1>4 DEF Next

LEMMA NextPinger == SInv /\ [Next]_vars => PingerEnds' /\ PingerLives'
<1> SUFFICES ASSUME SInv, [Next]_vars
             PROVE  PingerEnds' /\ PingerLives'
  OBVIOUS
<1>0. SessionTypeOK /\ Locked /\ Connected /\ PingerEnds /\ PingerLives
  BY DEF SInv
<1>b. backoff > 0
  BY <1>0, ConstantsTyped DEF SessionTypeOK, Constants
<1> USE <1>0 DEF PingerEnds, PingerLives, run, ping
<1>1. CASE Session
  BY <1>1, <1>b DEF Session, Endpoint, Dial, Top, ReadFails, Read, ReadPanics, AckLocks,
     Wait, Return,
     Connected
<1>2. CASE AckWrites \/ Stop \/ Pinger \/ PingWrites
  BY <1>2 DEF AckWrites, Stop, Pinger, PingStops, PingDue, PingLocks, PingWrites
<1>3. CASE Server \/ ServerSends \/ ServerSendsForeign \/ Break \/ OSError
  BY <1>3 DEF Server, ServerTakes, ServerPongs, ServerSends, ServerSendsForeign, Break,
     OSError
\* Time passes in Run only when there is no pinger left.
<1>4. CASE Tick
  <2>1. runPc = "wait" => pinger = "off"
    BY <1>4 DEF Tick, Busy, Locked, Connected, SessionTypeOK
  <2> QED BY <1>4, <2>1 DEF Tick
<1>5. CASE UNCHANGED vars
  BY <1>5 DEF vars
<1> QED BY <1>1, <1>2, <1>3, <1>4, <1>5 DEF Next
-----------------------------------------------------------------------------
(* The answer comes before the deadline.                                   *)

\* The answer is at most one interval and one delay away.
LEMMA AnswerBound ==
  SessionTypeOK => Answer \in Nat /\ Answer <= period + Delay
BY Numbers, ConstantsTyped DEF Constants, Answer

LEMMA NextInTime == SInv /\ [Next]_vars => InTime'
<1> SUFFICES ASSUME SInv, [Next]_vars, runPc' = "read", conn' = "open",
                    interval' + Grace > period' + Delay
             PROVE  deadline' > Answer'
  BY DEF InTime
<1>0. SessionTypeOK /\ Buffered /\ Locked /\ Connected /\ PingerLives /\ InTime
  BY DEF SInv
<1>n. /\ interval \in Nat \ {0} /\ period \in Nat \ {0}
      /\ tick \in Nat /\ tick <= period /\ deadline \in Nat
      /\ pongDue \in Int /\ pongDue <= Delay /\ (pongDue # NoPong => pongDue >= 0)
  BY <1>0, Numbers DEF SessionTypeOK
<1>c. Constants
  BY ConstantsTyped
<1>t. SessionTypeOK' /\ Answer' \in Nat /\ Answer' <= period' + Delay
  <2>1. SessionTypeOK'
    BY NextTypes
  <2>2. (SessionTypeOK => Answer \in Nat /\ Answer <= period + Delay)'
    BY AnswerBound, PTL
  <2> QED BY <2>1, <2>2
<1>s. Answer \in Nat
  BY <1>0, AnswerBound
\* Within the wait for a frame, nothing may take the answer away.
<1>a. ASSUME runPc = "read", conn = "open", UNCHANGED <<deadline, interval, period>>,
             Answer' <= Answer
      PROVE  deadline' > Answer'
  BY <1>a, <1>0, <1>n, <1>c, <1>s, <1>t DEF InTime, Constants
<1>1. CASE Top
  <2>1. deadline' = interval + Grace /\ UNCHANGED <<interval, period>>
    BY <1>1 DEF Top, Return, ping
  <2> QED BY <2>1, <1>t, <1>n, <1>c DEF Constants
<1>2. CASE \/ Endpoint \/ Dial \/ ReadFails \/ Read \/ ReadPanics \/ AckLocks \/ Wait
           \/ AckWrites
  BY <1>2 DEF Endpoint, Dial, ReadFails, Read, ReadPanics, AckLocks, Wait, AckWrites, Return
<1>3. CASE Stop
  BY <1>3, <1>a, <1>s DEF Stop, ping, server, Answer, PingSent
<1>4. CASE PingStops
  BY <1>4 DEF PingStops
<1>5. CASE PingDue
  <2>1. Answer' <= Answer
    BY <1>5, <1>n, <1>c, <1>s DEF PingDue, Answer, PingSent, run, server, Constants
  <2> QED BY <1>5, <2>1, <1>a DEF PingDue, run
<1>6. CASE PingLocks
  <2>1. Answer' <= Answer
    BY <1>6, <1>n, <1>c, <1>s DEF PingLocks, Answer, PingSent, run, ping, server, Constants
  <2> QED BY <1>6, <2>1, <1>a DEF PingLocks, run, ping
<1>7. CASE PingWrites
  <2>1. conn = "open" /\ outbox' = Append(outbox, Encoded[PingFrame])
    BY <1>7 DEF PingWrites, Write
  <2>2. PingSent'
    <3>1. /\ outbox'[Len(outbox) + 1] = Encoded[PingFrame]
          /\ Len(outbox) + 1 \in DOMAIN outbox'
      BY <2>1, <1>0 DEF Buffered
    <3> QED BY <3>1 DEF PingSent
  <2>3. Answer' <= Answer
    BY <1>7, <2>2, <1>n, <1>c, <1>s DEF PingWrites, Answer, run, server, Constants
  <2> QED BY <1>7, <2>1, <2>3, <1>a DEF PingWrites, run
\* A ping that is taken is answered; one that was behind it stays.
<1>8. CASE ServerTakes
  <2>1. Head(outbox) # Encoded[PingFrame] /\ PingSent => PingSent'
    <3> SUFFICES ASSUME Head(outbox) # Encoded[PingFrame],
                        NEW i \in DOMAIN outbox, outbox[i] = Encoded[PingFrame]
                 PROVE  PingSent'
      BY DEF PingSent
    <3>1. outbox \in Seq(Leaving) /\ outbox # <<>> /\ outbox' = Tail(outbox)
      BY <1>0, <1>8 DEF ServerTakes, Buffered
    <3>2. i # 1
      BY <3>1
    <3>3. i - 1 \in DOMAIN outbox' /\ outbox'[i - 1] = outbox[i]
      BY <3>1, <3>2
    <3> QED BY <3>3 DEF PingSent
  <2>2. UNCHANGED <<run, ping, inbox>>
    BY <1>8 DEF ServerTakes
  <2>3. \/ Head(outbox) = Encoded[PingFrame]
           /\ pongDue' = IF pongDue = NoPong THEN Delay ELSE pongDue
        \/ Head(outbox) # Encoded[PingFrame] /\ UNCHANGED pongDue
    BY <1>8 DEF ServerTakes
  <2>4. Head(outbox) = Encoded[PingFrame] => PingSent
    <3>1. outbox \in Seq(Leaving) /\ outbox # <<>>
      BY <1>0, <1>8 DEF ServerTakes, Buffered
    <3> QED BY <3>1 DEF PingSent
  <2>5. Answer' <= Answer
    BY <2>1, <2>2, <2>3, <2>4, <1>n, <1>c, <1>s DEF Answer, run, ping, Constants, NoPong
  <2> QED BY <1>8, <2>5, <1>a DEF ServerTakes, run, ping
<1>9. CASE ServerPongs \/ ServerSends \/ ServerSendsForeign
  <2>1. inbox' # <<>>
    <3>1. inbox \in Seq(Arriving)
      BY <1>0 DEF Buffered
    <3>2. \A x \in Arriving : Append(inbox, x) # <<>>
      BY <3>1, AppendProperties
    <3> QED BY <1>9, <3>2 DEF ServerPongs, ServerSends, ServerSendsForeign, Arriving
  <2>2. Answer' = 0
    BY <2>1 DEF Answer
  <2> QED BY <1>9, <2>2, <1>a, <1>s DEF ServerPongs, ServerSends, ServerSendsForeign, run, ping
<1>10. CASE Break \/ OSError
  BY <1>10 DEF Break, OSError
\* Time passes only while a ping or an answer is waited for, and brings both
\* the answer and the deadline nearer.
<1>11. CASE Tick
  <2>1. /\ runPc = "read" /\ conn = "open" /\ inbox = <<>> /\ outbox = <<>>
        /\ deadline # 0 /\ pongDue # 0 /\ UNCHANGED <<interval, period, inbox, outbox, pinger>>
        /\ deadline' = Down(deadline) /\ tick' = Down(tick) /\ pongDue' = Down(pongDue)
    BY <1>11 DEF Tick, Busy
  <2>2. pinger = "idle" /\ tick # 0
    BY <1>11, <2>1, <1>0 DEF Tick, Busy, Locked, PingerLives, SessionTypeOK
  <2>3. ~PingSent /\ ~PingSent'
    BY <2>1 DEF PingSent
  <2>4. deadline > Answer
    BY <2>1, <1>0, <1>11 DEF InTime, Tick
  <2>5. deadline' = deadline - 1 /\ Answer' = Answer - 1
    BY <2>1, <2>2, <2>3, <1>n, <1>c DEF Down, Answer, NoPong, Constants
  <2> QED BY <2>4, <2>5, <1>n, <1>s
<1>12. CASE UNCHANGED vars
  BY <1>12, <1>a, <1>s DEF vars, Answer, PingSent
<1> QED
  BY <1>1, <1>2, <1>3, <1>4, <1>5, <1>6, <1>7, <1>8, <1>9, <1>10, <1>11, <1>12
     DEF Next, Session, Pinger, Server

-----------------------------------------------------------------------------
(* Acknowledgements: what was acknowledged, what is in hand and what is     *)
(* still to be read are together what the server waits for.                *)

Owed == [bytes \in Arriving |-> AckOf(Decoded[bytes])]
Due == [f \in Frames |-> AckOf(f)]
Answers == {Owed[bytes] : bytes \in Arriving} \cup {Decoded[bytes] : bytes \in Leaving}
             \cup {Due[f] : f \in Frames}

Given == Each(Acks, Decoded)
Open == Each(ToAck, Owed)
Asked == Each(unacked, Due)

Balanced == conn = "open" => (Given \o Holding) \o Open = Asked

Matched == /\ unacked \in Seq(Frames)
           /\ conn # "open" => outbox = <<>> /\ unacked = <<>>
           /\ Balanced

\* Which of the encoded frames are data.
LEMMA DataFrames ==
  /\ \A f \in Frames : /\ IsData(Encoded[f]) /\ Owed[Encoded[f]] = Due[f]
                       /\ Encoded[f] \in Arriving
  /\ \A f \in Pongs : ~IsData(Encoded[f]) /\ Encoded[f] \in Arriving
  /\ \A bytes \in Foreign : ~IsData(bytes) /\ bytes \in Arriving
  /\ ~IsData(Encoded[PingFrame]) /\ Encoded[PingFrame] \in Leaving
  /\ \A f \in Frames : /\ IsData(Encoded[AckOf(f)]) /\ Decoded[Encoded[AckOf(f)]] = Due[f]
                       /\ Encoded[AckOf(f)] \in Leaving
<1>1. \A f \in Frames \cup Pongs \cup {PingFrame} :
        Decoded[Encoded[f]] = f /\ f \notin Failures
  BY CodecWorks
<1>2. \A f \in Frames : Decoded[Encoded[AckOf(f)]] = AckOf(f) /\ AckOf(f) \notin Failures
  BY CodecWorks
<1>3. \A f \in Frames : Encoded[f] \in Arriving
  BY DEF Arriving
<1>4. \A f \in Frames : Owed[Encoded[f]] = Due[f]
  BY <1>1, <1>3 DEF Owed, Due
<1>5. \A f \in Frames : Due[f] = AckOf(f)
  BY DEF Due
<1> QED BY <1>1, <1>2, <1>3, <1>4, <1>5, Methods, CodecWorks DEF IsData, Arriving, Leaving

LEMMA AnswersTyped ==
  /\ \A bytes \in Arriving : Owed[bytes] \in Answers
  /\ \A bytes \in Leaving : Decoded[bytes] \in Answers
  /\ \A f \in Frames : Due[f] \in Answers
BY DEF Answers

\* DataIn, when frames are put into a buffer and taken from it.
LEMMA DataInType ==
  ASSUME NEW S, NEW s \in Seq(S)
  PROVE  DataIn(s) \in Seq(S)
BY PickedType DEF DataIn

LEMMA DataInEmpty == DataIn(<<>>) = <<>>
BY PickedEmpty DEF DataIn

LEMMA DataInAppend ==
  ASSUME NEW S, NEW s \in Seq(S), NEW x \in S
  PROVE  DataIn(Append(s, x)) = IF IsData(x) THEN Append(DataIn(s), x) ELSE DataIn(s)
<1> DEFINE r == Append(s, x)
           kept == {i \in DOMAIN s : IsData(s[i])}
           kept2 == {i \in DOMAIN r : IsData(r[i])}
<1>1. /\ r \in Seq(S) /\ Len(r) = Len(s) + 1 /\ r[Len(s) + 1] = x
      /\ \A i \in 1 .. Len(s) : r[i] = s[i]
  BY AppendProperties
<1>2. DOMAIN s = 1 .. Len(s) /\ DOMAIN r = 1 .. Len(s) + 1 /\ Len(s) \in Nat
  BY <1>1, LenProperties
<1> HIDE DEF r
<1>3. \A i \in 1 .. Len(s) : i \in kept <=> i \in kept2
  BY <1>1, <1>2
<1>4. Len(s) + 1 \in kept2 <=> IsData(x)
  BY <1>1, <1>2
<1> HIDE DEF kept, kept2
<1>5. Picked(Append(s, x), kept2)
        = IF Len(s) + 1 \in kept2 THEN Append(Picked(s, kept), x) ELSE Picked(s, kept)
  BY <1>3, PickedAppend
<1> QED BY <1>4, <1>5 DEF DataIn, r, kept, kept2

LEMMA DataInTail ==
  ASSUME NEW S, NEW s \in Seq(S), s # <<>>
  PROVE  DataIn(s) = (IF IsData(Head(s)) THEN <<Head(s)>> ELSE <<>>) \o DataIn(Tail(s))
<1> DEFINE r == Tail(s)
           kept == {i \in DOMAIN s : IsData(s[i])}
           kept2 == {i \in DOMAIN r : IsData(r[i])}
<1>1. /\ r \in Seq(S) /\ Len(r) = Len(s) - 1 /\ Len(s) \in Nat \ {0} /\ Head(s) = s[1]
      /\ \A i \in 1 .. Len(s) - 1 : r[i] = s[i + 1]
  BY HeadTailProperties, LenProperties
<1>2. DOMAIN s = 1 .. Len(s) /\ DOMAIN r = 1 .. Len(s) - 1
  BY <1>1, LenProperties
<1> HIDE DEF r
<1>3. \A i \in 1 .. Len(s) - 1 : i + 1 \in kept <=> i \in kept2
  BY <1>1, <1>2
<1>4. 1 \in kept <=> IsData(Head(s))
  BY <1>1, <1>2
<1> HIDE DEF kept, kept2
<1>5. Picked(s, kept) = (IF 1 \in kept THEN <<Head(s)>> ELSE <<>>) \o Picked(Tail(s), kept2)
  BY <1>3, PickedTail
<1> QED BY <1>4, <1>5 DEF DataIn, r, kept, kept2

\* The same with what the data frames are mapped to.
LEMMA MappedAppend ==
  ASSUME NEW S, NEW s \in Seq(S), NEW y \in S, NEW m
  PROVE  Each(DataIn(Append(s, y)), m)
           = IF IsData(y) THEN Append(Each(DataIn(s), m), m[y]) ELSE Each(DataIn(s), m)
<1>1. DataIn(s) \in Seq(S)
  BY DataInType
<1>2. Each(Append(DataIn(s), y), m) = Append(Each(DataIn(s), m), m[y])
  BY <1>1, EachAppend
<1>3. DataIn(Append(s, y)) = IF IsData(y) THEN Append(DataIn(s), y) ELSE DataIn(s)
  BY DataInAppend
<1> QED BY <1>2, <1>3

LEMMA MappedTail ==
  ASSUME NEW S, NEW s \in Seq(S), s # <<>>, NEW m
  PROVE  Each(DataIn(s), m) = IF IsData(Head(s))
                              THEN <<m[Head(s)]>> \o Each(DataIn(Tail(s)), m)
                              ELSE Each(DataIn(Tail(s)), m)
<1> DEFINE t == DataIn(Tail(s))
<1>1. Head(s) \in S /\ Tail(s) \in Seq(S)
  BY HeadTailProperties
<1>2. t \in Seq(S)
  BY <1>1, DataInType
<1> HIDE DEF t
<1>3. Each(<<Head(s)>> \o t, m) = <<m[Head(s)]>> \o Each(t, m)
  BY <1>1, <1>2, EachHead
<1>4. <<>> \o t = t
  BY <1>2, ConcatEmptySeq
<1>5. DataIn(s) = (IF IsData(Head(s)) THEN <<Head(s)>> ELSE <<>>) \o t
  BY DataInTail DEF t
<1> QED BY <1>3, <1>4, <1>5 DEF t

LEMMA EachAnswers ==
  /\ \A w \in Seq(Arriving) : Each(w, Owed) \in Seq(Answers)
  /\ \A w \in Seq(Leaving) : Each(w, Decoded) \in Seq(Answers)
  /\ \A w \in Seq(Frames) : Each(w, Due) \in Seq(Answers)
<1>1. \A w \in Seq(Arriving) : Each(w, Owed) \in Seq(Answers)
  BY AnswersTyped, EachType
<1>2. \A w \in Seq(Leaving) : Each(w, Decoded) \in Seq(Answers)
  BY AnswersTyped, EachType
<1>3. \A w \in Seq(Frames) : Each(w, Due) \in Seq(Answers)
  BY AnswersTyped, EachType
<1> QED BY <1>1, <1>2, <1>3

\* The three parts are sequences of answers.
LEMMA PartsTyped ==
  ASSUME Buffered, unacked \in Seq(Frames)
  PROVE  /\ Given \in Seq(Answers) /\ Open \in Seq(Answers) /\ Asked \in Seq(Answers)
         /\ Holding \in Seq(Answers)
<1>1. inbox \in Seq(Arriving) /\ outbox \in Seq(Leaving)
  BY DEF Buffered
<1>2. ToAck \in Seq(Arriving) /\ Acks \in Seq(Leaving)
  BY <1>1, DataInType DEF ToAck, Acks
<1>3. Given \in Seq(Answers)
  BY <1>2, EachAnswers DEF Given
<1>4. Open \in Seq(Answers)
  BY <1>2, EachAnswers DEF Open
<1>5. Asked \in Seq(Answers)
  BY EachAnswers DEF Asked
<1>6. runPc \in {"ack", "write"} => AckOf(frame) \in Answers
  <2>1. runPc \in {"ack", "write"} => frame \in Frames
    BY DEF Buffered
  <2>2. \A f \in Frames : AckOf(f) = Due[f]
    BY DEF Due
  <2> QED BY <2>1, <2>2, AnswersTyped
<1>7. Holding \in Seq(Answers)
  BY <1>6 DEF Holding
<1> QED BY <1>3, <1>4, <1>5, <1>7

\* What the order of acknowledgements says in these terms.
LEMMA InOrder ==
  ASSUME Buffered, unacked \in Seq(Frames), Balanced
  PROVE  AcksInOrder
<1>1. ToAck \in Seq(Arriving)
  BY DataInType DEF ToAck, Buffered
<1>2. \A i \in DOMAIN ToAck : ToAck[i] \in Arriving
  BY <1>1, LenProperties, ElementOfSeq
<1>3. \A i \in DOMAIN unacked : unacked[i] \in Frames
  BY LenProperties, ElementOfSeq
<1>4. Open = [i \in DOMAIN ToAck |-> AckOf(Decoded[ToAck[i]])]
  BY <1>2 DEF Open, Each, Owed
<1>5. Asked = [i \in DOMAIN unacked |-> AckOf(unacked[i])]
  BY <1>3 DEF Asked, Each, Due
<1>6. Given = [i \in DOMAIN Acks |-> Decoded[Acks[i]]]
  BY DEF Given, Each
<1> QED BY <1>4, <1>5, <1>6 DEF Balanced, AcksInOrder

\* An answer moves from one part to the next, a frame is added at the end, an
\* acknowledgement taken from the front.
LEMMA Shift ==
  \A S : \A a, b \in Seq(S), x \in S : (a \o <<x>>) \o b = (Append(a, x) \o <<>>) \o b
<1> TAKE S
<1> TAKE a, b \in Seq(S), x \in S
<1>1. Append(a, x) = a \o <<x>> /\ Append(a, x) \in Seq(S)
  BY AppendIsConcat, AppendProperties
<1>2. Append(a, x) \o <<>> = Append(a, x)
  BY <1>1, ConcatEmptySeq
<1> QED BY <1>1, <1>2

LEMMA AddLast ==
  ASSUME NEW S, NEW a \in Seq(S), NEW b \in Seq(S), NEW x \in S
  PROVE  a \o Append(b, x) = Append(a \o b, x)
<1>1. <<x>> \in Seq(S) /\ a \o b \in Seq(S)
  BY ConcatProperties
<1>2. Append(b, x) = b \o <<x>> /\ Append(a \o b, x) = (a \o b) \o <<x>>
  BY <1>1, AppendIsConcat
<1>3. (a \o b) \o <<x>> = a \o (b \o <<x>>)
  BY <1>1, ConcatAssociative
<1> QED BY <1>2, <1>3

\* Hidden behind a name, the law is used for the sequences at hand only.
Assoc(a, b, c) == (a \o b) \o c = a \o (b \o c)

LEMMA Associative ==
  ASSUME NEW S, NEW a \in Seq(S), NEW b \in Seq(S), NEW c \in Seq(S)
  PROVE  Assoc(a, b, c)
BY ConcatAssociative DEF Assoc

Prefixed(w, a, b, c) == ((w \o a) \o b) \o c = w \o ((a \o b) \o c)

LEMMA TakeFirst ==
  ASSUME NEW S, NEW w \in Seq(S), NEW a \in Seq(S), NEW b \in Seq(S), NEW c \in Seq(S)
  PROVE  Prefixed(w, a, b, c)
<1>1. a \o b \in Seq(S)
  BY ConcatProperties
<1>2. Assoc(w, a, b) /\ Assoc(w, a \o b, c)
  BY <1>1, Associative
<1> QED BY <1>2 DEF Assoc, Prefixed

LEMMA NotEmpty ==
  \A S : \A w, a \in Seq(S) : Len(w) = 1 => w \o a # <<>>
<1> TAKE S
<1> TAKE w, a \in Seq(S)
<1> HAVE Len(w) = 1
<1>1. w # <<>>
  OBVIOUS
<1> QED BY <1>1, ConcatEqualIffEmpty

LEMMA SameTail ==
  ASSUME NEW S, NEW a \in Seq(S), NEW b \in Seq(S), NEW x \in S, NEW y \in S,
         <<x>> \o a = <<y>> \o b
  PROVE  a = b
<1> DEFINE w == <<x>> \o a
<1>1. w = <<x>> \o a /\ w = <<y>> \o b
  OBVIOUS
<1> HIDE DEF w
<1>2. /\ <<x>> \in Seq(S) /\ Len(<<x>>) = 1 /\ <<y>> \in Seq(S) /\ Len(<<y>>) = 1
      /\ Len(a) \in Nat /\ Len(b) \in Nat
  BY LenProperties
<1>3. Len(w) = 1 + Len(a) /\ Len(w) = 1 + Len(b)
  BY <1>1, <1>2, ConcatProperties
<1>4. \A i \in 1 .. 1 + Len(a) : i > 1 => w[i] = a[i - 1]
  BY <1>1, <1>2, ConcatProperties
<1>5. \A i \in 1 .. 1 + Len(b) : i > 1 => w[i] = b[i - 1]
  BY <1>1, <1>2, ConcatProperties
<1>6. ASSUME NEW i \in 1 .. Len(a) PROVE a[i] = b[i]
  <2>1. i + 1 \in 1 .. 1 + Len(a) /\ i + 1 > 1 /\ (i + 1) - 1 = i
    BY <1>2
  <2> QED BY <1>2, <1>3, <1>4, <1>5, <2>1
<1>7. Len(a) = Len(b)
  BY <1>2, <1>3
<1> QED BY <1>6, <1>7, SeqEqual

LEMMA InitMatched == Init => Matched
<1> SUFFICES ASSUME Init PROVE Matched
  OBVIOUS
<1>1. unacked = <<>> /\ outbox = <<>> /\ conn = "closed"
  BY DEF Init
<1> QED BY <1>1 DEF Matched, Balanced

\* Steps that change neither buffer, nor what the server waits for.
LEMMA StepsAside ==
  ASSUME Matched, UNCHANGED <<inbox, outbox, unacked>>, conn' = "open" <=> conn = "open",
         Holding' = Holding
  PROVE  Matched'
<1>1. ToAck' = ToAck /\ Acks' = Acks
  BY DEF ToAck, Acks
<1>2. Given' = Given /\ Open' = Open /\ Asked' = Asked
  BY <1>1 DEF Given, Open, Asked
<1> QED BY <1>2 DEF Matched, Balanced

LEMMA ReturnMatched == Return => Matched'
<1> SUFFICES ASSUME Return PROVE Matched'
  OBVIOUS
<1>1. unacked' = <<>> /\ outbox' = <<>> /\ conn' = "closed"
  BY DEF Return
<1> QED BY <1>1 DEF Matched, Balanced

LEMMA DialMatched ==
  ASSUME SInv, Matched, Dial
  PROVE  Matched'
<1>1. CASE Return
  BY <1>1, ReturnMatched
<1>2. CASE ~Return
  <2>1. /\ conn = "closed" /\ inbox' = <<>> /\ outbox' = <<>> /\ unacked' = <<>>
        /\ runPc' = "top"
    BY <1>2 DEF Dial, SInv, Connected, Buffered, server
  <2>2. ToAck' = <<>> /\ Acks' = <<>>
    BY <2>1, DataInEmpty DEF ToAck, Acks
  <2>3. Given' = <<>> /\ Open' = <<>> /\ Asked' = <<>> /\ Holding' = <<>>
    BY <2>1, <2>2, EachEmpty DEF Given, Open, Asked, Holding
  <2>4. (<<>> \o <<>>) \o <<>> = <<>> /\ <<>> \in Seq(Frames)
    OBVIOUS
  <2> QED BY <2>1, <2>3, <2>4 DEF Matched, Balanced
<1> QED BY <1>1, <1>2

\* An event comes into the hands of the handler, other frames change nothing.
LEMMA ReadMatched ==
  ASSUME SInv, Matched, Read
  PROVE  Matched'
<1> DEFINE b == Head(inbox)
           f == Decoded[b]
<1>0. Buffered /\ unacked \in Seq(Frames)
  BY DEF SInv, Matched
<1>1. /\ inbox # <<>> /\ inbox' = Tail(inbox) /\ UNCHANGED <<outbox, unacked, conn>>
      /\ Holding = <<>>
  BY DEF Read, server, Holding
<1>2. b \in Arriving /\ inbox \in Seq(Arriving) /\ Given \in Seq(Answers)
  BY <1>0, <1>1, HeadTailProperties, PartsTyped DEF Buffered
<1>3. Given' = Given /\ Asked' = Asked
  BY <1>1 DEF Given, Asked, Acks
<1>4. Open = IF IsData(b) THEN <<Owed[b]>> \o Open' ELSE Open'
  BY <1>1, <1>2, MappedTail DEF Open, ToAck
<1>7. Open' \in Seq(Answers)
  <2>1. Tail(inbox) \in Seq(Arriving)
    BY <1>1, <1>2, HeadTailProperties
  <2> QED BY <1>1, <2>1, DataInType, EachAnswers DEF Open, ToAck
<1>5. CASE IsData(b)
  <2>1. runPc' = "ack" /\ frame' = f
    BY <1>5 DEF Read, IsData, Ignored, Failures, FrameMethodData, FrameMethodControl
  <2>2. Holding' = <<Owed[b]>>
    BY <1>2, <2>1 DEF Holding, Owed
  <2>3. Owed[b] \in Answers
    BY <1>2, AnswersTyped
  <2>4. (Given \o <<>>) \o (<<Owed[b]>> \o Open') = (Given \o <<Owed[b]>>) \o Open'
    <3>1. \A x \in Answers : <<x>> \in Seq(Answers)
      OBVIOUS
    <3>2. <<Owed[b]>> \in Seq(Answers)
      BY <2>3, <3>1
    <3>3. Given \o (<<Owed[b]>> \o Open') = (Given \o <<Owed[b]>>) \o Open'
      BY <1>2, <1>7, <3>2, ConcatAssociative
    <3>4. Given \o <<>> = Given
      BY <1>2, ConcatEmptySeq
    <3> QED BY <3>3, <3>4
  <2> HIDE DEF b
  <2> QED BY <1>1, <1>3, <1>4, <1>5, <2>2, <2>4 DEF Matched, Balanced
<1>6. CASE ~IsData(b)
  <2>1. runPc' = "top"
    BY <1>6 DEF Read, IsData, Ignored, Failures
  <2>2. Holding' = <<>>
    BY <2>1 DEF Holding
  <2> QED BY <1>1, <1>3, <1>4, <1>6, <2>2 DEF Matched, Balanced
<1> QED BY <1>5, <1>6

\* The acknowledgement goes from the hands of the handler to the buffer.
LEMMA AckMatched ==
  ASSUME SInv, Matched, AckWrites
  PROVE  Matched'
<1>0. Buffered /\ unacked \in Seq(Frames)
  BY DEF SInv, Matched
<1>1. runPc = "write" /\ runPc' = "top" /\ UNCHANGED <<inbox, unacked, conn>>
  BY DEF AckWrites, server
<1>2. frame \in Frames /\ outbox \in Seq(Leaving)
  BY <1>0, <1>1 DEF Buffered
<1>3. CASE conn # "open"
  <2>1. outbox' = outbox
    BY <1>3 DEF AckWrites, Write
  <2> QED BY <1>1, <1>3, <2>1 DEF Matched, Balanced
<1>4. CASE conn = "open"
  <2> DEFINE y == Encoded[AckOf(frame)]
  <2>1. outbox' = Append(outbox, y)
    BY <1>4 DEF AckWrites, Write
  <2>2. y \in Leaving /\ IsData(y) /\ Decoded[y] = AckOf(frame) /\ Decoded[y] \in Answers
    BY <1>2, DataFrames, AnswersTyped DEF Due
  <2> HIDE DEF y
  <2>3. Given' = Append(Given, Decoded[y])
    BY <1>2, <2>1, <2>2, MappedAppend DEF Given, Acks
  <2>4. Open' = Open /\ Asked' = Asked
    BY <1>1 DEF Open, Asked, ToAck
  <2>7. Open \in Seq(Answers) /\ Given \in Seq(Answers)
    BY <1>0, PartsTyped
  <2>5. Holding = <<Decoded[y]>> /\ Holding' = <<>>
    BY <1>1, <2>2 DEF Holding
  <2>6. (Given \o <<Decoded[y]>>) \o Open = (Append(Given, Decoded[y]) \o <<>>) \o Open
    BY <2>2, <2>7, Shift, Zenon
  <2> QED BY <1>1, <1>4, <2>3, <2>4, <2>5, <2>6 DEF Matched, Balanced
<1> QED BY <1>3, <1>4

LEMMA PingMatched ==
  ASSUME SInv, Matched, PingWrites
  PROVE  Matched'
<1>0. Buffered /\ unacked \in Seq(Frames)
  BY DEF SInv, Matched
<1>1. UNCHANGED <<runPc, frame, inbox, unacked, conn>>
  BY DEF PingWrites, server, run
<1>2. outbox \in Seq(Leaving)
  BY <1>0 DEF Buffered
<1>3. CASE conn # "open"
  <2>1. outbox' = outbox
    BY <1>3 DEF PingWrites, Write
  <2> QED BY <1>1, <1>3, <2>1 DEF Matched, Balanced
<1>4. CASE conn = "open"
  <2> DEFINE y == Encoded[PingFrame]
  <2>1. outbox' = Append(outbox, y)
    BY <1>4 DEF PingWrites, Write
  <2>2. y \in Leaving /\ ~IsData(y)
    BY DataFrames
  <2> HIDE DEF y
  <2>3. Given' = Given
    BY <1>2, <2>1, <2>2, MappedAppend DEF Given, Acks
  <2>4. Open' = Open /\ Asked' = Asked /\ Holding' = Holding
    BY <1>1 DEF Open, Asked, ToAck, Holding
  <2> QED BY <1>1, <1>4, <2>3, <2>4 DEF Matched, Balanced
<1> QED BY <1>3, <1>4

\* What the server receives is the answer to its oldest frame.
LEMMA TakesMatched ==
  ASSUME SInv, Matched, ServerTakes
  PROVE  Matched'
<1> DEFINE b == Head(outbox)
<1>0. Buffered /\ unacked \in Seq(Frames)
  BY DEF SInv, Matched
<1>1. outbox # <<>> /\ outbox' = Tail(outbox) /\ UNCHANGED <<inbox, conn, runPc, frame>>
  BY DEF ServerTakes, run
<1>2. conn = "open"
  BY <1>1 DEF Matched
<1>3. b \in Leaving /\ outbox \in Seq(Leaving)
  BY <1>0, <1>1, HeadTailProperties DEF Buffered
<1>4. Given = IF IsData(b) THEN <<Decoded[b]>> \o Given' ELSE Given'
  BY <1>1, <1>3, MappedTail DEF Given, Acks
<1>g. Given' \in Seq(Answers)
  <2>1. Tail(outbox) \in Seq(Leaving)
    BY <1>1, <1>3, HeadTailProperties
  <2> QED BY <1>1, <2>1, DataInType, EachAnswers DEF Given, Acks
<1>5. Open' = Open /\ Holding' = Holding /\ Open \in Seq(Answers) /\ Holding \in Seq(Answers)
  BY <1>0, <1>1, PartsTyped DEF Open, ToAck, Holding
<1>6. Asked \in Seq(Answers) /\ (Given \o Holding) \o Open = Asked
  BY <1>0, <1>2, PartsTyped DEF Matched, Balanced
<1>7. IsData(b) <=> b # Encoded[PingFrame]
  BY <1>3, DataFrames DEF Leaving
<1> HIDE DEF b
<1>8. CASE ~IsData(b)
  <2>1. unacked' = unacked
    BY <1>7, <1>8 DEF ServerTakes, b
  <2>2. Asked' = Asked
    BY <2>1 DEF Asked
  <2> QED BY <1>0, <1>1, <1>2, <1>4, <1>5, <1>6, <1>8, <2>1, <2>2 DEF Matched, Balanced
<1>9. CASE IsData(b)
  <2>1. unacked' = Tail(unacked)
    BY <1>7, <1>9 DEF ServerTakes, b
  <2>2. Decoded[b] \in Answers
    BY <1>3, AnswersTyped
  <2>3. /\ Asked # <<>>
        /\ Asked = <<Decoded[b]>> \o ((Given' \o Holding) \o Open)
    <3> DEFINE w == <<Decoded[b]>>
    <3>1. w \in Seq(Answers) /\ Len(w) = 1
      BY <2>2
    <3> HIDE DEF w
    <3>2. ((w \o Given') \o Holding) \o Open = w \o ((Given' \o Holding) \o Open)
      <4>1. Prefixed(w, Given', Holding, Open)
        BY <1>g, <1>5, <3>1, TakeFirst
      <4> QED BY <4>1 DEF Prefixed
    <3>3. (Given' \o Holding) \o Open \in Seq(Answers)
      BY <1>g, <1>5, ConcatProperties
    <3>4. w \o ((Given' \o Holding) \o Open) # <<>>
      BY <3>1, <3>3, NotEmpty
    <3>5. ((w \o Given') \o Holding) \o Open = Asked
      BY <1>4, <1>6, <1>9 DEF w
    <3> QED BY <3>2, <3>4, <3>5 DEF w
  <2>4. unacked # <<>>
    BY <2>3, EachEmpty DEF Asked
  <2>5. Head(unacked) \in Frames /\ Tail(unacked) \in Seq(Frames)
    BY <1>0, <2>4, HeadTailProperties
  <2>6. unacked = <<Head(unacked)>> \o Tail(unacked)
    BY <1>0, <2>4
  <2>7. Asked = <<Due[Head(unacked)]>> \o Asked'
    <3> DEFINE w == Head(unacked)
               rest == Tail(unacked)
    <3>1. w \in Frames /\ rest \in Seq(Frames) /\ unacked = <<w>> \o rest /\ unacked' = rest
      BY <2>1, <2>5, <2>6
    <3> HIDE DEF w, rest
    <3>2. Each(<<w>> \o rest, Due) = <<Due[w]>> \o Each(rest, Due)
      BY <3>1, EachHead
    <3>3. Asked = <<Due[w]>> \o Each(rest, Due) /\ Asked' = Each(rest, Due)
      BY <3>1, <3>2 DEF Asked, Due
    <3> QED BY <3>3 DEF w
  <2>8. Asked' \in Seq(Answers) /\ Due[Head(unacked)] \in Answers
    BY <2>1, <2>5, AnswersTyped, EachAnswers DEF Asked
  <2>9. (Given' \o Holding) \o Open \in Seq(Answers)
    BY <1>g, <1>5, ConcatProperties
  <2>10. (Given' \o Holding) \o Open = Asked'
    BY <2>2, <2>3, <2>7, <2>8, <2>9, SameTail
  <2> QED BY <1>1, <1>2, <1>5, <2>1, <2>5, <2>10 DEF Matched, Balanced
<1> QED BY <1>8, <1>9

LEMMA SendsMatched ==
  ASSUME SInv, Matched, ServerSends
  PROVE  Matched'
<1>0. Buffered /\ unacked \in Seq(Frames)
  BY DEF SInv, Matched
<1>1. conn = "open" /\ UNCHANGED <<conn, outbox, runPc, frame>>
  BY DEF ServerSends, run
<1>2. PICK f \in Frames : /\ inbox' = Append(inbox, Encoded[f])
                          /\ unacked' = Append(unacked, f)
  BY DEF ServerSends
<1> DEFINE y == Encoded[f]
<1>3. y \in Arriving /\ IsData(y) /\ Owed[y] = Due[f] /\ Due[f] \in Answers
  BY DataFrames, AnswersTyped
<1>4. inbox' = Append(inbox, y)
  BY <1>2
<1> HIDE DEF y
<1>5. inbox \in Seq(Arriving)
  BY <1>0 DEF Buffered
<1>6. Open' = Append(Open, Due[f])
  BY <1>3, <1>4, <1>5, MappedAppend DEF Open, ToAck
<1>7. Asked' = Append(Asked, Due[f])
  BY <1>0, <1>2, EachAppend DEF Asked
<1>8. Given' = Given /\ Holding' = Holding
  BY <1>1 DEF Given, Acks, Holding
<1>9. /\ Given \in Seq(Answers) /\ Open \in Seq(Answers) /\ Holding \in Seq(Answers)
      /\ Given \o Holding \in Seq(Answers)
  BY <1>0, PartsTyped, ConcatProperties
<1>10. (Given \o Holding) \o Append(Open, Due[f]) = Append((Given \o Holding) \o Open, Due[f])
  BY <1>3, <1>9, AddLast
<1>11. unacked' \in Seq(Frames)
  BY <1>0, <1>2, AppendProperties
<1> QED BY <1>1, <1>6, <1>7, <1>8, <1>10, <1>11 DEF Matched, Balanced

\* Neither pongs nor foreign frames are owed an answer.
LEMMA NoDataMatched ==
  ASSUME SInv, Matched, UNCHANGED <<outbox, unacked, conn, runPc, frame>>,
         NEW y \in Arriving, ~IsData(y), inbox' = Append(inbox, y)
  PROVE  Matched'
<1>1. inbox \in Seq(Arriving)
  BY DEF SInv, Buffered
<1>2. Open' = Open
  BY <1>1, MappedAppend DEF Open, ToAck
<1>3. Given' = Given /\ Holding' = Holding /\ Asked' = Asked
  BY DEF Given, Acks, Holding, Asked
<1> QED BY <1>2, <1>3 DEF Matched, Balanced

LEMMA NextMatched == SInv /\ Matched /\ [Next]_vars => Matched'
<1> SUFFICES ASSUME SInv, Matched, [Next]_vars
             PROVE  Matched'
  OBVIOUS
<1>1. CASE Endpoint
  <2>1. CASE Return
    BY <2>1, ReturnMatched
  <2>2. CASE ~Return
    <3>1. UNCHANGED <<conn, inbox, outbox, unacked>> /\ runPc = "endpoint" /\ runPc' = "dial"
      BY <1>1, <2>2 DEF Endpoint, server
    <3> QED BY <3>1, StepsAside DEF Holding
  <2> QED BY <2>1, <2>2
<1>2. CASE Dial
  BY <1>2, DialMatched
<1>3. CASE Top
  <2>1. CASE Return
    BY <2>1, ReturnMatched
  <2>2. CASE ~Return
    <3>1. UNCHANGED <<conn, inbox, outbox, unacked>> /\ runPc = "top" /\ runPc' = "read"
      BY <1>3, <2>2 DEF Top, server
    <3> QED BY <3>1, StepsAside DEF Holding
  <2> QED BY <2>1, <2>2
<1>4. CASE ReadFails
  BY <1>4, ReturnMatched DEF ReadFails
<1>5. CASE Read
  BY <1>5, ReadMatched
<1>6. CASE AckLocks
  <2>1. /\ UNCHANGED <<conn, inbox, outbox, unacked, frame>>
        /\ runPc = "ack" /\ runPc' = "write"
    BY <1>6 DEF AckLocks, server
  <2> QED BY <2>1, StepsAside DEF Holding
<1>7. CASE Wait
  <2>1. /\ UNCHANGED <<conn, inbox, outbox, unacked, frame>>
        /\ runPc = "wait" /\ runPc' \in {"exited", "endpoint"}
    BY <1>7 DEF Wait, server
  <2> QED BY <2>1, StepsAside DEF Holding
<1>8. CASE AckWrites
  BY <1>8, AckMatched
<1>9. CASE Stop \/ PingStops \/ PingDue \/ PingLocks \/ Tick
  <2>1. UNCHANGED <<conn, inbox, outbox, unacked, runPc, frame>>
    BY <1>9 DEF Stop, PingStops, PingDue, PingLocks, Tick, server, run
  <2> QED BY <2>1, StepsAside DEF Holding
<1>10. CASE PingWrites
  BY <1>10, PingMatched
<1>11. CASE ServerTakes
  BY <1>11, TakesMatched
<1>12. CASE ServerPongs
  <2>1. PICK f \in Pongs : inbox' = Append(inbox, Encoded[f])
    BY <1>12 DEF ServerPongs
  <2>2. UNCHANGED <<outbox, unacked, conn, runPc, frame>>
    BY <1>12 DEF ServerPongs, run
  <2>3. Encoded[f] \in Arriving /\ ~IsData(Encoded[f])
    BY DataFrames
  <2> QED BY <2>1, <2>2, <2>3, NoDataMatched
<1>13. CASE ServerSends
  BY <1>13, SendsMatched
<1>14. CASE ServerSendsForeign
  <2>1. UNCHANGED <<outbox, unacked, conn, runPc, frame>>
    BY <1>14 DEF ServerSendsForeign, run, server
  <2>2. PICK bytes \in Foreign : inbox' = Append(inbox, bytes)
    BY <1>14 DEF ServerSendsForeign
  <2>3. bytes \in Arriving /\ ~IsData(bytes)
    BY DataFrames
  <2> QED BY <2>1, <2>2, <2>3, NoDataMatched
<1>15. CASE Break
  <2>1. conn' # "open" /\ outbox' = <<>> /\ unacked' = <<>>
    BY <1>15 DEF Break
  <2> QED BY <2>1 DEF Matched, Balanced
<1>16. CASE OSError
  <2>1. conn # "open" /\ conn' # "open" /\ UNCHANGED <<outbox, unacked>>
    BY <1>16 DEF OSError, server
  <2> QED BY <2>1 DEF Matched, Balanced
<1>17. CASE ReadPanics
  <2>1. conn' # "open" /\ outbox' = <<>> /\ unacked' = <<>>
    BY <1>17 DEF ReadPanics
  <2> QED BY <2>1 DEF Matched, Balanced
<1>18. CASE UNCHANGED vars
  <2>1. UNCHANGED <<conn, inbox, outbox, unacked, runPc, frame>>
    BY <1>18 DEF vars
  <2> QED BY <2>1, StepsAside DEF Holding
<1> QED
  BY <1>1, <1>2, <1>3, <1>4, <1>5, <1>6, <1>7, <1>8, <1>9, <1>10, <1>11, <1>12, <1>13,
     <1>14, <1>15, <1>16, <1>17, <1>18 DEF Next, Session, Pinger, Server

LEMMA SessionInvariant == Spec => []SInv
<1>1. SInv /\ [Next]_vars => SInv'
  BY NextTypes, NextBuffered, NextLocked, NextConnected, NextPinger, NextInTime DEF SInv
<1> QED BY <1>1, InitSInv, PTL DEF Spec

\* Every variable has its type; in particular the wait between connections
\* stays within its bounds (ws.go:60-77).
THEOREM SessionTypeCorrect == Spec => []SessionTypeOK
<1>1. SInv => SessionTypeOK
  BY DEF SInv
<1> QED BY <1>1, SessionInvariant, PTL

\* Session and pinger never write at the same time, however acknowledgements,
\* pings, blocked writes and reconnections interleave (ws.go:33, 197-201).
THEOREM WritesExclude == Spec => []OneWriter
<1>1. SInv => OneWriter
  BY DEF SInv, Locked, OneWriter
<1> QED BY <1>1, SessionInvariant, PTL

\* A connection whose server answers within Delay is given up only when the
\* interval announced last and Grace are shorter than the interval the pinger
\* was started with and Delay, for all intervals and times (ws.go:103, 113, 138).
THEOREM AnsweredIsKept == Spec => HealthyKept
<1>1. SInv /\ [Next]_vars
      => [runPc = "read" /\ runPc' = "wait" /\ conn = "open"
            => interval + Grace <= period + Delay]_vars
  <2> SUFFICES ASSUME SInv, [Next]_vars, runPc = "read", runPc' = "wait", conn = "open"
               PROVE  interval + Grace <= period + Delay
    OBVIOUS
  <2>1. ReadFails
    BY DEF Next, Session, Endpoint, Dial, Top, ReadFails, Read, ReadPanics, AckLocks, Wait, AckWrites,
       Stop, Pinger, PingStops, PingDue, PingLocks, PingWrites, Server, ServerTakes,
       ServerPongs, ServerSends, ServerSendsForeign, Break, OSError, Tick, run, vars
  <2>2. deadline = 0
    BY <2>1 DEF ReadFails
  <2>3. Answer \in Nat /\ interval \in Nat /\ period \in Nat
    BY AnswerBound, Numbers DEF SInv
  <2>4. ~(interval + Grace > period + Delay)
    BY <2>2, <2>3 DEF SInv, InTime
  <2> QED BY <2>3, <2>4, ConstantsTyped DEF Constants
<1> QED BY <1>1, SessionInvariant, PTL DEF Spec, HealthyKept

\* On an open connection what was acknowledged, what is in hand and what has
\* still to be read are, in this order, the answers the server waits for: no data
\* frame is forgotten, answered twice or out of order, for every set of frames the
\* codec carries and any number of them on the way (ws.go:226-247).
THEOREM AnsweredInOrder == Spec => []AcksInOrder
<1>1. SInv /\ Matched => AcksInOrder
  BY InOrder DEF SInv, Matched
<1> QED BY <1>1, InitMatched, NextMatched, SessionInvariant, PTL DEF Spec
=============================================================================
