------------------------------ MODULE FieldBus ------------------------------
(***************************************************************************)
(* The acquisition card and the field master of apps/agri_station_demo:    *)
(* the card samples its channels and serves one Modbus TCP client at a     *)
(* time, the master polls it and hands one channel's measurements on.      *)
(* Registers are counted in half channel blocks of eight: the lower half   *)
(* has the measurements, the quality and the lower word of the sequence    *)
(* number, the upper one the rest.                                         *)
(***************************************************************************)
EXTENDS Integers, SequencesExt

CONSTANTS
    Channels,                   \* the most channels a master is told to poll
    CardChannels,               \* the channels the card has
    kMaxRegsPerRead,            \* halves of one read: an odd number, as 120 / 8 is
    kDefaultCommFailThreshold,
    MaxSamples                  \* samples taken (bound of TLC's runs)

ASSUME BusAssumption ==
    /\ Channels \in Nat /\ CardChannels \in Nat
    /\ kMaxRegsPerRead \in Nat \ {0} /\ kDefaultCommFailThreshold \in Nat

VARIABLES
    cli,         \* the master's channels and ui_channel
    card,        \* whether it is up, and which connection it serves
    samples,     \* how many samples were taken so far
    conn,        \* the master's connection: what is on its way
    master,      \* where its loop is, and what it has read
    published    \* the measurements published last, and the poll they are of

busVars == <<cli, card, samples, conn, master, published>>

kChannelStride == 2
kDeviceInfoCount == 2
ChannelBlockCount(n) == n * kChannelStride

NoConnection == [open |-> FALSE, reset |-> FALSE, requests |-> <<>>, replies |-> <<>>]

BusInit ==
    /\ cli \in {c \in [channels : 1..Channels, ui_channel : 0..Channels] : c.ui_channel < c.channels}
    /\ card \in [up : BOOLEAN, serves : {"none"}]
    /\ samples = 0
    /\ conn = NoConnection
    /\ master \in [at : {"poll", "down"}, asked : {FALSE}, channels : {<<>>}, began : {0}, fail_streak : {0}]
    /\ published = <<>>

----------------------------------------------------------------------------
(* The card.  WriteChannelSample, of all channels, under the bank's lock.  *)
CardSamples ==
    /\ card.up /\ samples < MaxSamples
    /\ samples' = samples + 1
    /\ UNCHANGED <<cli, card, conn, master, published>>

(* ReadHolding and WriteSingle of the bank, and the answers to them.       *)
Half(n) ==
    [of |-> IF n % kChannelStride = 0 THEN "measured" ELSE "counted",
     channel |-> n \div kChannelStride, sample |-> samples]

HandlePdu(request) ==
    IF request.op = "info"
    THEN [fc |-> "read", regs |-> [i \in 1..kDeviceInfoCount |->
                                      [of |-> "info", channel |-> 0, sample |-> samples]]]
    ELSE IF request.op = "write" THEN [fc |-> "write", regs |-> <<>>]
    ELSE IF request.start + request.quantity > ChannelBlockCount(CardChannels)
    THEN [fc |-> "exception", regs |-> <<>>]
    ELSE [fc |-> "read", regs |-> [i \in 1..request.quantity |-> Half(request.start + i - 1)]]

Accept ==
    /\ card.up /\ card.serves = "none" /\ conn.open /\ ~conn.reset
    /\ card' = [card EXCEPT !.serves = "current"]
    /\ UNCHANGED <<cli, samples, conn, master, published>>

ServeOneRequest ==
    /\ card.serves = "current" /\ conn.requests # <<>>
    /\ conn' = [conn EXCEPT !.requests = Tail(@), !.replies = Append(@, HandlePdu(Head(conn.requests)))]
    /\ UNCHANGED <<cli, card, samples, master, published>>

(* The client served has closed: the card is free for the next one.        *)
ServesNoMore ==
    /\ card.serves = "former"
    /\ card' = [card EXCEPT !.serves = "none"]
    /\ UNCHANGED <<cli, samples, conn, master, published>>

CardDown ==
    /\ card.up
    /\ card' = [up |-> FALSE, serves |-> "none"]
    /\ conn' = IF conn.open THEN [conn EXCEPT !.reset = TRUE, !.requests = <<>>] ELSE conn
    /\ UNCHANGED <<cli, samples, master, published>>

CardUp ==
    /\ ~card.up
    /\ card' = [card EXCEPT !.up = TRUE]
    /\ UNCHANGED <<cli, samples, conn, master, published>>

----------------------------------------------------------------------------
(* The master.  Closing a connection leaves the card to notice it.         *)
Close ==
    /\ conn' = NoConnection
    /\ card' = [card EXCEPT !.serves = IF @ = "current" THEN "former" ELSE @]

StaysOpen == UNCHANGED <<conn, card>>

BeginsPoll(m) == [m EXCEPT !.at = "info", !.channels = <<>>, !.began = samples]

Connect ==
    /\ master.at = "poll" /\ ~conn.open /\ card.up
    /\ conn' = [NoConnection EXCEPT !.open = TRUE]
    /\ master' = BeginsPoll([master EXCEPT !.fail_streak = 0])
    /\ UNCHANGED <<cli, card, samples, published>>

Polls ==
    /\ master.at = "poll" /\ conn.open
    /\ master' = BeginsPoll(master)
    /\ UNCHANGED <<cli, card, samples, conn, published>>

(* The request of each step of a poll.                                     *)
Remaining == ChannelBlockCount(cli.channels) - Len(master.channels)
Chunk == IF Remaining > kMaxRegsPerRead THEN kMaxRegsPerRead ELSE Remaining

Request ==
    CASE master.at = "info" -> [op |-> "info"]
      [] master.at = "channels" -> [op |-> "read", start |-> Len(master.channels), quantity |-> Chunk]
      [] master.at = "heartbeat" -> [op |-> "write"]

Asks ==
    /\ master.at \in {"info", "channels", "heartbeat"} /\ ~master.asked
    /\ conn' = IF conn.reset THEN conn ELSE [conn EXCEPT !.requests = Append(@, Request)]
    /\ master' = [master EXCEPT !.asked = TRUE]
    /\ UNCHANGED <<cli, card, samples, published>>

(* A poll that fails is counted; the third one in a row closes.            *)
PollFails(closed) ==
    /\ master' = [master EXCEPT !.at = "poll", !.asked = FALSE, !.fail_streak = @ + 1]
    /\ IF closed \/ master.fail_streak + 1 >= kDefaultCommFailThreshold THEN Close ELSE StaysOpen
    /\ UNCHANGED <<cli, samples, published>>

(* Mutant: the connection is kept when no answer has come.                 *)
NoAnswerStays ==
    /\ master.asked /\ conn.replies = <<>>
    /\ \/ master.at # "heartbeat" /\ PollFails(FALSE)
       \/ /\ master.at = "heartbeat" /\ Close
          /\ master' = [master EXCEPT !.at = "publish", !.asked = FALSE]
          /\ UNCHANGED <<cli, samples, published>>

(* The answer does not come in time, or the connection is lost.            *)
NoAnswer ==
    /\ master.asked /\ conn.replies = <<>>
    /\ \/ master.at # "heartbeat" /\ PollFails(TRUE)
       \/ /\ master.at = "heartbeat" /\ Close
          /\ master' = [master EXCEPT !.at = "publish", !.asked = FALSE]
          /\ UNCHANGED <<cli, samples, published>>

Takes(next) ==
    /\ conn' = [conn EXCEPT !.replies = Tail(@)]
    /\ master' = next
    /\ UNCHANGED <<cli, card, samples, published>>

(* ReadHoldingRegisters: any reply of the right kind and length is taken.  *)
Reply == Head(conn.replies)
Expected == IF master.at = "info" THEN kDeviceInfoCount ELSE Chunk
Answers == master.asked /\ conn.replies # <<>>

InfoAnswered ==
    /\ Answers /\ master.at = "info"
    /\ Reply.fc = "read" /\ Len(Reply.regs) = Expected
    /\ Takes([master EXCEPT !.at = "channels", !.asked = FALSE])

ChunkAnswered ==
    LET channels == master.channels \o Reply.regs IN
    /\ Answers /\ master.at = "channels"
    /\ Reply.fc = "read" /\ Len(Reply.regs) = Expected
    /\ Takes(IF Len(channels) < ChannelBlockCount(cli.channels)
             THEN [master EXCEPT !.asked = FALSE, !.channels = channels]
             ELSE [master EXCEPT !.asked = FALSE, !.channels = channels,
                                 !.at = "heartbeat", !.fail_streak = 0])

HeartbeatAnswered ==
    /\ Answers /\ master.at = "heartbeat"
    /\ Takes([master EXCEPT !.at = "publish", !.asked = FALSE])

(* An exception, or a reply to something else.                             *)
BadAnswer ==
    /\ Answers /\ master.at \in {"info", "channels"}
    /\ Reply.fc # "read" \/ Len(Reply.regs) # Expected
    /\ master' = [master EXCEPT !.at = "poll", !.asked = FALSE, !.fail_streak = @ + 1]
    /\ IF master.fail_streak + 1 >= kDefaultCommFailThreshold THEN Close
       ELSE conn' = [conn EXCEPT !.replies = Tail(@)] /\ UNCHANGED card
    /\ UNCHANGED <<cli, samples, published>>

(* DecodeChannel of the ui_channel, whose measurements are published.      *)
DecodeChannel(channel) == SubSeq(master.channels, channel * kChannelStride + 1, (channel + 1) * kChannelStride)

Publishes ==
    /\ master.at = "publish"
    /\ published' = <<[began |-> master.began, block |-> DecodeChannel(cli.ui_channel)]>>
    /\ master' = [master EXCEPT !.at = "poll", !.channels = <<>>, !.began = 0]
    /\ UNCHANGED <<cli, card, samples, conn>>

MasterDown ==
    /\ master.at # "down"
    /\ Close
    /\ master' = [at |-> "down", asked |-> FALSE, channels |-> <<>>, began |-> 0, fail_streak |-> 0]
    /\ UNCHANGED <<cli, samples, published>>

MasterUp ==
    /\ master.at = "down"
    /\ master' = [master EXCEPT !.at = "poll"]
    /\ UNCHANGED <<cli, card, samples, conn, published>>

MasterRuns ==
    \/ Connect \/ Polls \/ Asks \/ NoAnswer
    \/ InfoAnswered \/ ChunkAnswered \/ HeartbeatAnswered \/ BadAnswer

CardRuns == Accept \/ ServeOneRequest \/ ServesNoMore

BusNext ==
    \/ CardSamples \/ CardRuns \/ CardDown \/ CardUp
    \/ MasterRuns \/ Publishes \/ MasterDown \/ MasterUp

(***************************************************************************)
(* Whatever the reads, the timeouts and the reconnections were: all that   *)
(* is published as a channel's measurements was measured at that channel,  *)
(* at one time, and not before the poll began that read it.                *)
(***************************************************************************)
FieldIsMeasured ==
    \A i \in DOMAIN published :
       LET first == published[i].block[1] IN
       /\ first.of = "measured" /\ first.channel = cli.ui_channel
       /\ first.sample >= published[i].began

(* Master and card go on; nothing makes them end, or start.                *)
BusFairness ==
    /\ WF_busVars(MasterRuns)
    /\ WF_busVars(Publishes)
    /\ WF_busVars(CardRuns)

BusSpec == BusInit /\ [][BusNext]_busVars /\ BusFairness

(***************************************************************************)
(* However often card and master were gone before: while both run and no   *)
(* answer is late, measurements are published again and again, if the      *)
(* master asks for no more channels than the card has.                     *)
(***************************************************************************)
BusFollows ==
    <>[](card.up /\ master.at # "down") /\ ~[]<><<NoAnswer>>_busVars
        /\ cli.channels <= CardChannels
    => []<><<Publishes>>_busVars

=============================================================================
