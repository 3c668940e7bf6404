----------------------------- MODULE CtapFraming -----------------------------
(***************************************************************************)
(* How howdy/src/webauthn/ctaphid.py puts a message together from reports, *)
(* with several channels talking at the same time.                         *)
(*                                                                         *)
(* Each channel belongs to one client of the host, which is external: it   *)
(* cuts its messages as _send_message does, sends them whole, and begins a *)
(* new one before the end of the last only after an INIT on its channel.   *)
(* The reports of different clients interleave.  A report has a fixed size *)
(* and is padded.  A byte is identified by its message and its place.      *)
(***************************************************************************)
EXTENDS Integers, Sequences

CONSTANTS Chan,         \* channels, allocated
          NoChan,       \* no channel
          InitPayload,  \* INIT_PAYLOAD: bytes in an initialization report
          ContPayload,  \* CONT_PAYLOAD: bytes in a continuation report
          SeqMod,       \* 128: a report has seven bits for its number
          MaxLength     \* bound: on the length of a message

ASSUME FramingAssumption ==
  /\ NoChan \notin Chan
  /\ {InitPayload, ContPayload, SeqMod} \subseteq Nat \ {0}
  /\ MaxLength \in Nat

Command == {"cbor", "ping"}
Pad == <<"pad">>

Least(i, j) == IF i < j THEN i ELSE j
FirstOf(s, n) == SubSeq(s, 1, Least(n, Len(s)))
Padded(s, n) == [i \in 1..n |-> IF i <= Len(s) THEN s[i] ELSE Pad]

(* _send_message: an initialization report, then numbered continuations.   *)
InitReport(cmd, data) ==
  [number |-> -1, cmd |-> cmd, length |-> Len(data), data |-> Padded(data, InitPayload)]
ContReport(k, data) ==
  [number |-> k % SeqMod, data |-> Padded(data, ContPayload)]
Reports(cmd, data) ==
  LET rest == IF Len(data) <= InitPayload THEN 0 ELSE Len(data) - InitPayload
      conts == (rest + ContPayload - 1) \div ContPayload
      start(k) == InitPayload + k * ContPayload
  IN <<InitReport(cmd, data)>> \o
     [k \in 1..conts |-> ContReport(k - 1, SubSeq(data, start(k - 1) + 1,
                                             Least(start(k), Len(data))))]

VARIABLES
  channel,   \* channel[c]: the Channel object of c
  active,    \* _active_cid
  sent,      \* sent[c]: the message the client of c is sending
  outgoing,  \* outgoing[c]: the reports of it that have not arrived
  outcomes,  \* history: outcomes[c], what the device made of that message
  serial     \* serial[c]: tells a message of c from the one before
framingVars == <<channel, active, sent, outgoing, outcomes, serial>>

NoCommand == "none"
IdleChannel == [command |-> NoCommand, expected |-> 0, buffer |-> <<>>, nextSeq |-> 0]
NoMessage == [cmd |-> NoCommand, data |-> <<>>]

FramingInit ==
  /\ channel = [c \in Chan |-> IdleChannel]
  /\ active = NoChan
  /\ sent = [c \in Chan |-> NoMessage]
  /\ outgoing = [c \in Chan |-> <<>>]
  /\ outcomes = [c \in Chan |-> <<>>]
  /\ serial = [c \in Chan |-> 0]

(* The device handled the message of c, or answered an error. *)
Outcome(c, what) == outcomes' = [outcomes EXCEPT ![c] = Append(@, what)]
Error(code) == [cmd |-> code, data |-> <<>>]
Errors == {Error(code) : code \in {"channelBusy", "invalidLength", "invalidSeq"}}

-----------------------------------------------------------------------------
(* A client cuts a message into reports. *)
ClientBegins(c, cmd, n) ==
  LET data == [i \in 1..n |-> <<c, 1 - serial[c], i>>] IN
  /\ outgoing[c] = <<>>
  /\ serial' = [serial EXCEPT ![c] = 1 - @]
  /\ sent' = [sent EXCEPT ![c] = [cmd |-> cmd, data |-> data]]
  /\ outgoing' = [outgoing EXCEPT ![c] = Reports(cmd, data)]
  /\ outcomes' = [outcomes EXCEPT ![c] = <<>>]
  /\ UNCHANGED <<channel, active>>

(* The next report of c arrives: feed_report. *)
Arrives(c) ==
  /\ outgoing[c] # <<>>
  /\ outgoing' = [outgoing EXCEPT ![c] = Tail(@)]
  /\ UNCHANGED <<sent, serial>>
Arrived(c) == Head(outgoing[c])

(* _handle_init_frame, from the busy check: an operation of another        *)
(* channel turns the message away, and the channel stays as it is.         *)
TurnAway(c) ==
  /\ Arrives(c)
  /\ Arrived(c).number = -1
  /\ active \notin {NoChan, c}
  /\ Outcome(c, Error("channelBusy"))
  /\ UNCHANGED <<channel, active>>

(* What has been put together so far, if it is still wanting. *)
Collect(c, state) ==
  /\ Len(state.buffer) < state.expected
  /\ channel' = [channel EXCEPT ![c] = state]
  /\ UNCHANGED <<active, outcomes>>

(* Mutant of Dispatch: a second operation is dropped without an answer. *)
DispatchOrDrop(c, state) ==
  /\ Len(state.buffer) >= state.expected
  /\ channel' = [channel EXCEPT ![c] = IdleChannel]
  /\ \/ /\ state.command = "ping"
        /\ Outcome(c, [cmd |-> "ping", data |-> state.buffer])
        /\ UNCHANGED active
     \/ /\ state.command = "cbor"
        /\ IF active = NoChan
           THEN active' = c /\ Outcome(c, [cmd |-> "cbor", data |-> state.buffer])
           ELSE UNCHANGED <<active, outcomes>>

(* _dispatch: the channel is reset first; _start_cbor refuses an empty     *)
(* request and a second operation.                                         *)
Dispatch(c, state) ==
  /\ Len(state.buffer) >= state.expected
  /\ channel' = [channel EXCEPT ![c] = IdleChannel]
  /\ \/ /\ state.command = "ping"
        /\ Outcome(c, [cmd |-> "ping", data |-> state.buffer])
        /\ UNCHANGED active
     \/ /\ state.command = "cbor"
        /\ state.buffer = <<>>
        /\ Outcome(c, Error("invalidLength"))
        /\ UNCHANGED active
     \/ /\ state.command = "cbor"
        /\ state.buffer # <<>> /\ active # NoChan
        /\ Outcome(c, Error("channelBusy"))
        /\ UNCHANGED active
     \/ /\ state.command = "cbor"
        /\ state.buffer # <<>> /\ active = NoChan
        /\ active' = c
        /\ Outcome(c, [cmd |-> "cbor", data |-> state.buffer])

(* Mutant of Begun: the padding of a short message is kept. *)
BegunPadded(r) ==
  [command |-> r.cmd, expected |-> r.length, buffer |-> r.data, nextSeq |-> 0]

(* The state of a channel after an initialization report. *)
Begun(r) ==
  [command |-> r.cmd, expected |-> r.length,
   buffer |-> FirstOf(r.data, Least(r.length, InitPayload)), nextSeq |-> 0]

HandleInit(c) ==
  /\ Arrives(c)
  /\ Arrived(c).number = -1
  /\ active \in {NoChan, c}
  /\ LET state == Begun(Arrived(c)) IN Collect(c, state) \/ Dispatch(c, state)

(* A continuation for an idle channel is ignored. *)
IgnoreCont(c) ==
  /\ Arrives(c)
  /\ Arrived(c).number # -1
  /\ channel[c].command = NoCommand
  /\ UNCHANGED <<channel, active, outcomes>>

(* Mutant of WrongSeq: the channel is not reset. *)
WrongSeqKept(c) ==
  /\ Arrives(c)
  /\ Arrived(c).number # -1
  /\ channel[c].command # NoCommand
  /\ Arrived(c).number # channel[c].nextSeq
  /\ Outcome(c, Error("invalidSeq"))
  /\ UNCHANGED <<channel, active>>

WrongSeq(c) ==
  /\ Arrives(c)
  /\ Arrived(c).number # -1
  /\ channel[c].command # NoCommand
  /\ Arrived(c).number # channel[c].nextSeq
  /\ channel' = [channel EXCEPT ![c] = IdleChannel]
  /\ Outcome(c, Error("invalidSeq"))
  /\ UNCHANGED active

(* The state of a channel after a continuation. *)
Continued(s, r) ==
  [s EXCEPT !.nextSeq = @ + 1,
            !.buffer = @ \o FirstOf(r.data, Least(s.expected - Len(@), ContPayload))]

HandleCont(c) ==
  /\ Arrives(c)
  /\ Arrived(c).number # -1
  /\ channel[c].command # NoCommand
  /\ Arrived(c).number = channel[c].nextSeq
  /\ LET state == Continued(channel[c], Arrived(c))
     IN Collect(c, state) \/ Dispatch(c, state)

(* The client gives up and sends INIT on its channel.  (The cancelling of  *)
(* an operation is in CtapHid.)                                            *)
Resync(c) ==
  /\ channel' = [channel EXCEPT ![c] = IdleChannel]
  /\ sent' = [sent EXCEPT ![c] = NoMessage]
  /\ outgoing' = [outgoing EXCEPT ![c] = <<>>]
  /\ outcomes' = [outcomes EXCEPT ![c] = <<>>]
  /\ UNCHANGED <<active, serial>>

(* The worker of the active operation finishes. *)
WorkerEnds ==
  /\ active # NoChan
  /\ active' = NoChan
  /\ UNCHANGED <<channel, sent, outgoing, outcomes, serial>>

Device(c) ==
  TurnAway(c) \/ HandleInit(c) \/ IgnoreCont(c) \/ WrongSeq(c) \/ HandleCont(c)

FramingNext ==
  \/ WorkerEnds
  \/ \E c \in Chan :
       \/ Device(c) \/ Resync(c)
       \/ \E cmd \in Command, n \in 0..MaxLength : ClientBegins(c, cmd, n)

FramingSpec == FramingInit /\ [][FramingNext]_framingVars
-----------------------------------------------------------------------------
Byte == {<<c, b, i>> : c \in Chan, b \in 0..1, i \in 1..MaxLength}

FramingTypeOK ==
  /\ \A c \in Chan :
       /\ channel[c].command \in Command \cup {NoCommand}
       /\ channel[c].expected \in 0..MaxLength
       /\ channel[c].buffer \in Seq(Byte)
       /\ channel[c].nextSeq \in 0..SeqMod
       /\ Len(outcomes[c]) \in 0..1
  /\ active \in Chan \cup {NoChan}

(* A message the device acts on is, byte for byte, the one a client sent   *)
(* on that channel: no padding, no byte of another message or another      *)
(* channel, nothing missing.                                               *)
DeliveredIsSent ==
  \A c \in Chan : \A i \in 1..Len(outcomes[c]) :
    outcomes[c][i] \in Errors \cup {sent[c]}

(* When the last report of a message is in, the device has acted on it or  *)
(* answered an error, once: no message vanishes and none counts twice.     *)
(* The seven bits of number suffice for what they can count: only a        *)
(* message longer than that fails on its numbers.                          *)
EveryMessageHasOneOutcome ==
  \A c \in Chan :
    /\ outgoing[c] = <<>> /\ sent[c] # NoMessage => Len(outcomes[c]) = 1
    /\ \A i \in 1..Len(outcomes[c]) :
         outcomes[c][i] = Error("invalidSeq") =>
           Len(sent[c].data) > InitPayload + SeqMod * ContPayload
=============================================================================
