-------------------------- MODULE CtapFramingProofs --------------------------
(***************************************************************************)
(* A message that is put together from its reports is the one that was     *)
(* sent, for any number of channels, any sizes of reports and messages and *)
(* any number of bits that number the reports.                             *)
(***************************************************************************)
EXTENDS CtapFraming, SequenceTheorems, TLAPS

-----------------------------------------------------------------------------
(* Numbers and sequences *)

(* A product grows with its factors.                                       *)
LEMMA Monotone ==
  ASSUME NEW i \in Nat, NEW j \in Nat, i <= j, NEW k \in Nat
  PROVE  i * k \in Nat /\ j * k \in Nat /\ i * k <= j * k
OBVIOUS

(* What an integer division leaves.                                        *)
LEMMA DivBounds ==
  ASSUME NEW y \in Nat, NEW k \in Nat \ {0}
  PROVE  y \div k \in Nat /\ (y \div k) * k <= y /\ y < (y \div k) * k + k
OBVIOUS

(* So many parts of k bytes hold x bytes, and no fewer.                    *)
LEMMA PartsNeeded ==
  ASSUME NEW x \in Nat, NEW k \in Nat \ {0}, NEW q, q = (x + k - 1) \div k
  PROVE  q \in Nat /\ x <= q * k /\ \A j \in Nat : j < q => j * k < x
<1>1. q \in Nat /\ q * k \in Nat /\ q * k <= x + k - 1 /\ x + k - 1 < q * k + k
  <2>1. x + k - 1 \in Nat
    OBVIOUS
  <2> QED
    BY <2>1, DivBounds
<1>2. ASSUME NEW j \in Nat, j < q PROVE j * k < x
  <2>1. (j + 1) * k <= q * k
    BY <1>1, <1>2, Monotone
  <2>2. (j + 1) * k = j * k + k /\ j * k \in Nat
    OBVIOUS
  <2> QED
    BY <1>1, <2>1, <2>2
<1> QED
  BY <1>1, <1>2

(* A function on 1..n is a sequence.                                       *)
LEMMA SeqOfFunction ==
  ASSUME NEW S, NEW n \in Nat, NEW f \in [1..n -> S]
  PROVE  f \in Seq(S) /\ Len(f) = n
OBVIOUS

(* The padding is not among the first bytes of a report.                   *)
LEMMA FirstOfPadded ==
  ASSUME NEW S, NEW s \in Seq(S), NEW m \in Nat, NEW k \in Nat, k <= Len(s), k <= m
  PROVE  FirstOf(Padded(s, m), k) = SubSeq(s, 1, k)
<1> DEFINE p == Padded(s, m)
<1>1. Len(s) \in Nat /\ \A i \in 1..Len(s) : s[i] \in S
  BY LenProperties, ElementOfSeq
<1>2. p \in [1..m -> S \cup {Pad}] /\ \A i \in 1..k : p[i] = s[i]
  BY <1>1 DEF Padded
<1> HIDE DEF p
<1>3. Len(p) = m /\ FirstOf(p, k) = SubSeq(p, 1, k)
  BY <1>2, SeqOfFunction DEF FirstOf, Least
<1>4. \A i \in 1..k : p[i] \in S /\ s[i] \in S
  BY <1>1, <1>2
<1>5. /\ SubSeq(p, 1, k) \in Seq(S) /\ Len(SubSeq(p, 1, k)) = k
      /\ \A i \in 1..k : SubSeq(p, 1, k)[i] = p[i]
  BY <1>4, SubSeqProperties
<1>6. /\ SubSeq(s, 1, k) \in Seq(S) /\ Len(SubSeq(s, 1, k)) = k
      /\ \A i \in 1..k : SubSeq(s, 1, k)[i] = s[i]
  BY <1>4, SubSeqProperties
<1>7. SubSeq(p, 1, k) = SubSeq(s, 1, k)
  BY <1>2, <1>5, <1>6, SeqEqual
<1> QED
  BY <1>3, <1>7 DEF p

-----------------------------------------------------------------------------
(* The reports of a message *)

(* How many continuations a message of n bytes takes, and the bytes that   *)
(* the first report and a of them have room for.                           *)
Conts(n) ==
  ((IF n <= InitPayload THEN 0 ELSE n - InitPayload) + ContPayload - 1) \div ContPayload
Room(a) == InitPayload + a * ContPayload

(* The continuations hold the message, and each of them is needed.         *)
LEMMA ContsProperties ==
  ASSUME NEW n \in Nat
  PROVE  /\ Conts(n) \in Nat /\ n <= Room(Conts(n))
         /\ \A j \in Nat : j < Conts(n) <=> Room(j) < n
<1> DEFINE x == IF n <= InitPayload THEN 0 ELSE n - InitPayload
<1>1. x \in Nat /\ InitPayload \in Nat /\ ContPayload \in Nat \ {0} /\ n <= InitPayload + x
      /\ (x > 0 => n = InitPayload + x)
  BY FramingAssumption
<1>2. Conts(n) = (x + ContPayload - 1) \div ContPayload
  BY DEF Conts
<1> HIDE DEF x
<1>3. /\ Conts(n) \in Nat /\ x <= Conts(n) * ContPayload
      /\ \A j \in Nat : j < Conts(n) => j * ContPayload < x
  BY <1>1, <1>2, PartsNeeded
<1>4. ASSUME NEW j \in Nat PROVE j < Conts(n) <=> Room(j) < n
  <2>1. CASE j < Conts(n)
    <3>1. j * ContPayload < x /\ j * ContPayload \in Nat
      BY <1>1, <1>3, <2>1
    <3> QED
      BY <1>1, <2>1, <3>1 DEF Room
  <2>2. CASE Conts(n) <= j
    <3>1. Conts(n) * ContPayload <= j * ContPayload /\ j * ContPayload \in Nat
          /\ Conts(n) * ContPayload \in Nat
      BY <1>1, <1>3, <2>2, Monotone
    <3> QED
      BY <1>1, <1>3, <2>2, <3>1 DEF Room
  <2> QED
    BY <1>3, <2>1, <2>2
<1>5. Conts(n) * ContPayload \in Nat
  BY <1>1, <1>3
<1> QED
  BY <1>1, <1>3, <1>4, <1>5 DEF Room

(* The part of the message in the a-th continuation.                       *)
Part(data, a) == SubSeq(data, Room(a - 1) + 1, Least(Room(a), Len(data)))

(* The first report and the continuations, in their order.                 *)
LEMMA ReportsProperties ==
  ASSUME NEW cmd, NEW S, NEW data \in Seq(S)
  PROVE  LET all == Reports(cmd, data) IN
         /\ \E T : all \in Seq(T)
         /\ Len(all) = 1 + Conts(Len(data))
         /\ all[1] = InitReport(cmd, data)
         /\ \A a \in 1..Conts(Len(data)) : all[a + 1] = ContReport(a - 1, Part(data, a))
<1> DEFINE n == Len(data)
           cont(a) == ContReport(a - 1, Part(data, a))
           conts == [a \in 1..Conts(n) |-> cont(a)]
           first == InitReport(cmd, data)
           T == {first} \cup {cont(a) : a \in 1..Conts(n)}
<1>1. n \in Nat /\ Conts(n) \in Nat
  BY LenProperties, ContsProperties
<1>2. Reports(cmd, data) = <<first>> \o conts
  BY DEF Reports, Conts, Room, Part
<1>3. conts \in [1..Conts(n) -> T] /\ first \in T
  OBVIOUS
<1>4. \A a \in 1..Conts(n) : conts[a] = cont(a)
  OBVIOUS
<1> HIDE DEF n, cont, conts, first, T
<1>5. conts \in Seq(T) /\ Len(conts) = Conts(n) /\ <<first>> \in Seq(T) /\ Len(<<first>>) = 1
      /\ <<first>>[1] = first
  BY <1>1, <1>3, SeqOfFunction
<1>6. /\ <<first>> \o conts \in Seq(T) /\ Len(<<first>> \o conts) = 1 + Conts(n)
      /\ \A i \in 1..(1 + Conts(n)) :
           (<<first>> \o conts)[i] = IF i <= 1 THEN <<first>>[i] ELSE conts[i - 1]
  BY <1>5, ConcatProperties
<1>7. (<<first>> \o conts)[1] = first
  BY <1>1, <1>5, <1>6
<1>8. ASSUME NEW a \in 1..Conts(n) PROVE (<<first>> \o conts)[a + 1] = cont(a)
  BY <1>1, <1>4, <1>6
<1> QED
  BY <1>2, <1>6, <1>7, <1>8 DEF n, cont, first

-----------------------------------------------------------------------------
(* The inductive invariant. *)

IsMessage(m) ==
  \E cmd \in Command, data \in Seq(Byte) :
    Len(data) <= MaxLength /\ m = [cmd |-> cmd, data |-> data]

AllReports(c) == Reports(sent[c].cmd, sent[c].data)

(* The channel of c after the first report and a continuations.            *)
Got(c, a) ==
  [command |-> sent[c].cmd, expected |-> Len(sent[c].data),
   buffer |-> SubSeq(sent[c].data, 1, Least(Room(a), Len(sent[c].data))), nextSeq |-> a]

(* Nothing of the message has arrived; or all that has was wanted, and     *)
(* more is; or the device has made something of it.                        *)
Untouched(c) == channel[c] = IdleChannel /\ outcomes[c] = <<>>
Collecting(c, a) ==
  /\ a <= SeqMod /\ Room(a) < Len(sent[c].data)
  /\ channel[c] = Got(c, a) /\ outcomes[c] = <<>>
Finished(c) ==
  /\ channel[c] = IdleChannel /\ Len(outcomes[c]) = 1
  /\ outcomes[c][1] \in Errors \cup {sent[c]}
  /\ outcomes[c][1] = Error("invalidSeq") => Room(SeqMod) < Len(sent[c].data)

(* The first a reports of the message of c have arrived.                   *)
ArrivedUpTo(c, a) ==
  /\ outgoing[c] = SubSeq(AllReports(c), a + 1, Len(AllReports(c)))
  /\ a <= Len(AllReports(c))
  /\ IF a = 0 THEN Untouched(c) ELSE Finished(c) \/ Collecting(c, a - 1)

ChanInv(c) ==
  \/ sent[c] = NoMessage /\ outgoing[c] = <<>> /\ Untouched(c)
  \/ IsMessage(sent[c]) /\ \E a \in Nat : ArrivedUpTo(c, a)

Shapes ==
  /\ DOMAIN channel = Chan /\ DOMAIN sent = Chan /\ DOMAIN outgoing = Chan
  /\ DOMAIN outcomes = Chan
  /\ serial \in [Chan -> 0..1] /\ active \in Chan \cup {NoChan}

IInv == Shapes /\ \A c \in Chan : ChanInv(c)

-----------------------------------------------------------------------------
(* One report arrives *)

(* The message that is being sent.                                         *)
LEMMA MessageProperties ==
  ASSUME NEW c \in Chan, IsMessage(sent[c])
  PROVE  /\ sent[c].cmd \in Command /\ sent[c].data \in Seq(Byte)
         /\ Len(sent[c].data) \in 0..MaxLength /\ Len(sent[c].data) \in Nat
         /\ sent[c] = [cmd |-> sent[c].cmd, data |-> sent[c].data]
         /\ sent[c] # NoMessage
         /\ Len(AllReports(c)) = 1 + Conts(Len(sent[c].data)) /\ Conts(Len(sent[c].data)) \in Nat
<1>1. PICK cmd \in Command, data \in Seq(Byte) :
        Len(data) <= MaxLength /\ sent[c] = [cmd |-> cmd, data |-> data]
  BY DEF IsMessage
<1>2. Len(data) \in 0..MaxLength /\ Len(data) \in Nat
  BY <1>1, LenProperties, FramingAssumption
<1>3. sent[c] # NoMessage
  BY <1>1 DEF NoMessage, NoCommand, Command
<1>4. sent[c].cmd = cmd /\ sent[c].data = data
  BY <1>1
<1> QED
  BY <1>1, <1>2, <1>3, <1>4, ReportsProperties, ContsProperties DEF AllReports

(* What the device looks at is the next report of the message.             *)
LEMMA NextReport ==
  ASSUME IInv, NEW c \in Chan, Arrives(c)
  PROVE  /\ IsMessage(sent[c]) /\ sent' = sent /\ serial' = serial
         /\ DOMAIN outgoing' = Chan /\ \A d \in Chan \ {c} : outgoing'[d] = outgoing[d]
         /\ \E a \in Nat :
              /\ ArrivedUpTo(c, a) /\ a < Len(AllReports(c))
              /\ Arrived(c) = AllReports(c)[a + 1]
              /\ outgoing'[c] = SubSeq(AllReports(c), (a + 1) + 1, Len(AllReports(c)))
<1>1. outgoing[c] # <<>> /\ outgoing' = [outgoing EXCEPT ![c] = Tail(@)]
  BY DEF Arrives
<1>2. IsMessage(sent[c]) /\ sent' = sent /\ serial' = serial
  BY <1>1 DEF IInv, ChanInv, Arrives
<1>3. PICK a \in Nat : ArrivedUpTo(c, a)
  BY <1>1 DEF IInv, ChanInv
<1> DEFINE all == AllReports(c)
<1>4. /\ outgoing[c] = SubSeq(all, a + 1, Len(all)) /\ a <= Len(all)
      /\ Len(all) \in Nat
  BY <1>2, <1>3, MessageProperties DEF ArrivedUpTo
<1>5. PICK T : all \in Seq(T)
  BY <1>2, MessageProperties, ReportsProperties DEF AllReports
<1> HIDE DEF all
<1>6. a < Len(all)
  BY <1>1, <1>4, SubSeqEmpty
<1>7. /\ Head(SubSeq(all, a + 1, Len(all))) = all[a + 1]
      /\ Tail(SubSeq(all, a + 1, Len(all))) = SubSeq(all, (a + 1) + 1, Len(all))
  BY <1>4, <1>5, <1>6, HeadTailOfSubSeq
<1>8. Arrived(c) = all[a + 1] /\ outgoing'[c] = SubSeq(all, (a + 1) + 1, Len(all))
  BY <1>1, <1>4, <1>7 DEF Arrived, IInv, Shapes
<1>9. DOMAIN outgoing' = Chan /\ \A d \in Chan \ {c} : outgoing'[d] = outgoing[d]
  BY <1>1 DEF IInv, Shapes
<1> QED
  BY <1>2, <1>3, <1>6, <1>8, <1>9 DEF all

(* The number tells the first report from the others.                      *)
LEMMA ReportNumbers ==
  ASSUME NEW c \in Chan, IsMessage(sent[c]), NEW a \in Nat, a < Len(AllReports(c))
  PROVE  /\ a = 0 => AllReports(c)[1] = InitReport(sent[c].cmd, sent[c].data)
         /\ a > 0 => AllReports(c)[a + 1] = ContReport(a - 1, Part(sent[c].data, a))
         /\ AllReports(c)[a + 1].number = -1 <=> a = 0
<1> DEFINE all == AllReports(c)
           data == sent[c].data
<1>1. a > 0 => a \in 1..Conts(Len(data))
  <2>1. Len(all) = 1 + Conts(Len(data)) /\ Conts(Len(data)) \in Nat
    BY MessageProperties
  <2> HIDE DEF all, data
  <2> QED
    BY <2>1 DEF all
<1>2. /\ all[1] = InitReport(sent[c].cmd, data)
      /\ a > 0 => all[a + 1] = ContReport(a - 1, Part(data, a))
  <2>1. data \in Seq(Byte)
    BY MessageProperties
  <2>2. /\ all[1] = InitReport(sent[c].cmd, data)
        /\ \A k \in 1..Conts(Len(data)) : all[k + 1] = ContReport(k - 1, Part(data, k))
    BY <2>1, ReportsProperties DEF AllReports
  <2> QED
    BY <1>1, <2>2
<1>3. AllReports(c)[1].number = -1
  BY <1>2 DEF InitReport
<1>4. a > 0 => AllReports(c)[a + 1].number = (a - 1) % SeqMod
  BY <1>2 DEF ContReport
<1>5. a > 0 => (a - 1) % SeqMod \in Nat
  BY FramingAssumption
<1> QED
  BY <1>2, <1>3, <1>4, <1>5

(* The first bytes of a message fit into what came.                        *)
LEMMA GotProperties ==
  ASSUME NEW c \in Chan, IsMessage(sent[c]), NEW a \in Nat
  PROVE  LET n == Len(sent[c].data) IN
         /\ n \in Nat /\ Room(a) \in Nat
         /\ Least(Room(a), n) \in 0..n
         /\ Got(c, a).buffer \in Seq(Byte) /\ Len(Got(c, a).buffer) = Least(Room(a), n)
         /\ Room(a) >= n => Got(c, a).buffer = sent[c].data
<1> DEFINE data == sent[c].data
           n == Len(data)
<1>1. data \in Seq(Byte) /\ n \in Nat
  BY MessageProperties, LenProperties
<1>2. Room(a) \in Nat
  BY FramingAssumption DEF Room
<1>3. Least(Room(a), n) \in 0..n /\ (Room(a) >= n => Least(Room(a), n) = n)
  BY <1>1, <1>2 DEF Least
<1>4. Got(c, a).buffer = SubSeq(data, 1, Least(Room(a), n))
  BY DEF Got
<1> HIDE DEF data, n
<1>5. \A i \in 1..Least(Room(a), n) : data[i] \in Byte
  BY <1>1, <1>3, ElementOfSeq DEF n
<1>6. SubSeq(data, 1, Least(Room(a), n)) \in Seq(Byte)
      /\ Len(SubSeq(data, 1, Least(Room(a), n))) = Least(Room(a), n)
  BY <1>1, <1>3, <1>5, SubSeqProperties
<1>7. Room(a) >= n => SubSeq(data, 1, Least(Room(a), n)) = data
  BY <1>1, <1>3, SubSeqFull DEF n
<1> QED
  BY <1>1, <1>2, <1>3, <1>4, <1>6, <1>7 DEF data, n

-----------------------------------------------------------------------------
(* The steps of the device *)

(* Report a + 1 of c arrives; what it does to the other channels.          *)
Takes(c, a) ==
  /\ a \in Nat /\ a < Len(AllReports(c)) /\ IsMessage(sent[c])
  /\ sent' = sent
  /\ outgoing'[c] = SubSeq(AllReports(c), (a + 1) + 1, Len(AllReports(c)))
Others(c) ==
  \A d \in Chan \ {c} :
    /\ channel'[d] = channel[d] /\ sent'[d] = sent[d]
    /\ outgoing'[d] = outgoing[d] /\ outcomes'[d] = outcomes[d]

(* Channels are independent of each other.                                 *)
LEMMA OthersKept ==
  ASSUME IInv, NEW c \in Chan, Others(c), NEW d \in Chan \ {c}
  PROVE  ChanInv(d)'
<1>1. /\ channel'[d] = channel[d] /\ sent'[d] = sent[d]
      /\ outgoing'[d] = outgoing[d] /\ outcomes'[d] = outcomes[d]
  BY DEF Others
<1>2. ChanInv(d)
  BY DEF IInv
<1> QED
  BY <1>1, <1>2
  DEF ChanInv, Untouched, ArrivedUpTo, Finished, Collecting, Got, AllReports

(* The report is the last that the device wanted.                          *)
LEMMA FinishedInv ==
  ASSUME NEW c \in Chan, NEW a, Takes(c, a), channel'[c] = IdleChannel,
         NEW what \in Errors \cup {sent[c]}, outcomes'[c] = <<what>>,
         what = Error("invalidSeq") => Room(SeqMod) < Len(sent[c].data)
  PROVE  ChanInv(c)'
<1>1. sent'[c] = sent[c] /\ AllReports(c)' = AllReports(c)
  BY DEF Takes, AllReports
<1>2. Finished(c)'
  BY <1>1 DEF Finished
<1>3. ArrivedUpTo(c, a + 1)'
  BY <1>1, <1>2, MessageProperties DEF Takes, ArrivedUpTo
<1> QED
  BY <1>1, <1>3 DEF Takes, ChanInv

(* The device goes on as before: with a message it is done with.           *)
LEMMA IgnoredInv ==
  ASSUME NEW c \in Chan, NEW a, Takes(c, a), Finished(c),
         channel'[c] = channel[c], outcomes'[c] = outcomes[c]
  PROVE  ChanInv(c)'
<1>1. sent'[c] = sent[c] /\ AllReports(c)' = AllReports(c)
  BY DEF Takes, AllReports
<1>2. Finished(c)'
  BY <1>1 DEF Finished
<1>3. ArrivedUpTo(c, a + 1)'
  BY <1>1, <1>2, MessageProperties DEF Takes, ArrivedUpTo
<1> QED
  BY <1>1, <1>3 DEF Takes, ChanInv

(* A report that was wanted: the message is wanting or whole.              *)
LEMMA TakenInv ==
  ASSUME IInv, NEW c \in Chan, NEW a, Takes(c, a), a <= SeqMod, outcomes[c] = <<>>,
         Collect(c, Got(c, a)) \/ Dispatch(c, Got(c, a))
  PROVE  ChanInv(c)'
<1> DEFINE n == Len(sent[c].data)
<1>1. /\ n \in Nat /\ Room(a) \in Nat /\ a \in Nat
      /\ Len(Got(c, a).buffer) = Least(Room(a), n)
      /\ Room(a) >= n => Got(c, a).buffer = sent[c].data
      /\ Got(c, a).expected = n /\ Got(c, a).command = sent[c].cmd
  BY GotProperties DEF Takes, Got
<1>2. CASE Collect(c, Got(c, a))
  <2>1. channel'[c] = Got(c, a) /\ outcomes' = outcomes /\ Room(a) < n
    BY <1>1, <1>2 DEF Collect, Least, IInv, Shapes
  <2>2. sent'[c] = sent[c] /\ AllReports(c)' = AllReports(c) /\ Got(c, a)' = Got(c, a)
    BY DEF Takes, AllReports, Got
  <2>3. Collecting(c, a)'
    BY <2>1, <2>2 DEF Collecting
  <2>4. ArrivedUpTo(c, a + 1)'
    BY <1>1, <2>2, <2>3, MessageProperties DEF Takes, ArrivedUpTo
  <2> QED
    BY <1>1, <2>2, <2>4 DEF Takes, ChanInv
<1>3. CASE Dispatch(c, Got(c, a))
  <2>1. Room(a) >= n /\ Got(c, a).buffer = sent[c].data
    BY <1>1, <1>3 DEF Dispatch, Least
  <2>2. channel'[c] = IdleChannel
    BY <1>3 DEF Dispatch, IInv, Shapes
  <2>3. sent[c] = [cmd |-> sent[c].cmd, data |-> sent[c].data]
    BY MessageProperties DEF Takes
  <2>4. \E what \in {sent[c], Error("invalidLength"), Error("channelBusy")} : Outcome(c, what)
    BY <1>1, <1>3, <2>1, <2>3 DEF Dispatch
  <2>5. PICK what \in {sent[c], Error("invalidLength"), Error("channelBusy")} :
          outcomes'[c] = <<what>>
    BY <2>4 DEF Outcome, IInv, Shapes
  <2>6. what # Error("invalidSeq") /\ what \in Errors \cup {sent[c]}
    BY MessageProperties DEF Takes, Error, Errors, Command
  <2> QED
    BY <2>2, <2>5, <2>6, FinishedInv
<1> QED
  BY <1>2, <1>3

(* A channel with another buffer and another number.                       *)
LEMMA ChannelUpdated ==
  ASSUME NEW x, NEW n, NEW b, NEW k, NEW bb, NEW kk,
         NEW old, old = [command |-> x, expected |-> n, buffer |-> b, nextSeq |-> k],
         NEW new, new = [old EXCEPT !.nextSeq = kk, !.buffer = bb]
  PROVE  new = [command |-> x, expected |-> n, buffer |-> bb, nextSeq |-> kk]
<1>1. DOMAIN old = {"command", "expected", "buffer", "nextSeq"}
  OBVIOUS
<1>2. new = [f \in DOMAIN old |->
               IF f = "buffer" THEN bb ELSE IF f = "nextSeq" THEN kk ELSE old[f]]
  OBVIOUS
<1> QED
  BY <1>1, <1>2

(* The bytes of a continuation are those that follow the ones before.      *)
LEMMA ContinuedIsGot ==
  ASSUME NEW c \in Chan, IsMessage(sent[c]), NEW a \in Nat, a > 0,
         Room(a - 1) < Len(sent[c].data)
  PROVE  Continued(Got(c, a - 1), ContReport(a - 1, Part(sent[c].data, a))) = Got(c, a)
<1> DEFINE data == sent[c].data
           n == Len(data)
           from == Room(a - 1)
           to == Least(Room(a), n)
           part == Part(data, a)
           old == Got(c, a - 1)
<1>1. data \in Seq(Byte) /\ n \in Nat /\ from \in Nat /\ Room(a) \in Nat /\ a - 1 \in Nat
  <2>1. a - 1 \in Nat
    OBVIOUS
  <2>2. data \in Seq(Byte)
    BY MessageProperties
  <2> QED
    BY <2>1, <2>2, GotProperties
<1>2. Room(a) = from + ContPayload /\ ContPayload \in Nat \ {0}
  <2>1. InitPayload \in Nat /\ ContPayload \in Nat \ {0}
    BY FramingAssumption
  <2>2. a * ContPayload = (a - 1) * ContPayload + ContPayload
    BY <2>1
  <2>3. (a - 1) * ContPayload \in Nat
    BY <1>1, <2>1
  <2> QED
    BY <2>1, <2>2, <2>3 DEF Room
<1>3. from < n
  OBVIOUS
<1>4. to \in from..n /\ from + 1 <= to /\ to - from = Least(n - from, ContPayload)
      /\ Least(from, n) = from
  BY <1>1, <1>2, <1>3 DEF Least
<1>5. old.buffer = SubSeq(data, 1, from) /\ Len(old.buffer) = from /\ old.expected = n
  BY <1>1, <1>4, GotProperties DEF Got
<1>6. part = SubSeq(data, from + 1, to)
  BY DEF Part
<1>7. part \in Seq(Byte) /\ Len(part) = to - from
  <2> HIDE DEF data, n, from, to, part
  <2>1. \A i \in (from + 1)..to : data[i] \in Byte
    BY <1>1, <1>4, ElementOfSeq DEF n
  <2>2. from + 1 \in Int /\ to \in Int
    BY <1>1, <1>4
  <2>3. /\ SubSeq(data, from + 1, to) \in Seq(Byte)
        /\ Len(SubSeq(data, from + 1, to)) = to - (from + 1) + 1
    BY <1>4, <2>1, <2>2, SubSeqProperties
  <2> QED
    BY <1>1, <1>4, <1>6, <2>3
<1>8. FirstOf(Padded(part, ContPayload), to - from) = part
  <2> HIDE DEF data, n, from, to, part
  <2>1. to - from \in Nat /\ to - from <= Len(part) /\ to - from <= ContPayload
    BY <1>1, <1>2, <1>4, <1>7 DEF Least
  <2>2. FirstOf(Padded(part, ContPayload), to - from) = SubSeq(part, 1, to - from)
    BY <1>2, <1>7, <2>1, FirstOfPadded
  <2> QED
    BY <1>7, <2>2, SubSeqFull
<1>9. SubSeq(data, 1, from) \o part = SubSeq(data, 1, to)
  <2> HIDE DEF data, n, from, to, part
  <2>1. from \in (1 - 1)..Len(data) /\ to \in from..Len(data) /\ 1 \in 1..(Len(data) + 1)
    BY <1>1, <1>3, <1>4 DEF n
  <2> QED
    BY <1>1, <1>6, <2>1, ConcatAdjacentSubSeq
<1>10. old.nextSeq + 1 = a
  BY DEF Got
<1>11. ContReport(a - 1, part).data = Padded(part, ContPayload)
  BY DEF ContReport
<1>12. Continued(old, ContReport(a - 1, part)) =
         [old EXCEPT !.nextSeq = a, !.buffer = SubSeq(data, 1, to)]
  <2> HIDE DEF data, n, from, to, part, old
  <2> QED
    BY <1>4, <1>5, <1>8, <1>9, <1>10, <1>11 DEF Continued
<1>13. Got(c, a) = [command |-> sent[c].cmd, expected |-> n, buffer |-> SubSeq(data, 1, to),
                    nextSeq |-> a]
  BY DEF Got
<1>14. old = [command |-> sent[c].cmd, expected |-> n,
              buffer |-> SubSeq(data, 1, Least(from, n)), nextSeq |-> a - 1]
  BY DEF Got
<1> DEFINE new == Continued(old, ContReport(a - 1, part))
           cmd == sent[c].cmd
<1>15. new = [command |-> cmd, expected |-> n, buffer |-> SubSeq(data, 1, to), nextSeq |-> a]
  <2>1. new = [old EXCEPT !.nextSeq = a, !.buffer = SubSeq(data, 1, to)]
    BY <1>12
  <2> HIDE DEF data, n, from, to, part, old, new, cmd
  <2>2. old = [command |-> cmd, expected |-> n,
               buffer |-> SubSeq(data, 1, Least(from, n)), nextSeq |-> a - 1]
    BY <1>14 DEF cmd
  <2> QED
    BY ONLY <2>1, <2>2, ChannelUpdated
<1> QED
  BY <1>13, <1>15

(* The bytes of the first report are the first of the message.             *)
LEMMA BegunIsGot ==
  ASSUME NEW c \in Chan, IsMessage(sent[c])
  PROVE  Begun(InitReport(sent[c].cmd, sent[c].data)) = Got(c, 0)
<1> DEFINE data == sent[c].data
           n == Len(data)
<1>1. data \in Seq(Byte) /\ n \in Nat /\ InitPayload \in Nat
  BY MessageProperties, FramingAssumption
<1>2. Room(0) = InitPayload
  BY <1>1, FramingAssumption DEF Room
<1>3. /\ Least(n, InitPayload) \in Nat /\ Least(n, InitPayload) <= n
      /\ Least(n, InitPayload) <= InitPayload /\ Least(n, InitPayload) = Least(Room(0), n)
  BY <1>1, <1>2 DEF Least
<1>4. FirstOf(Padded(data, InitPayload), Least(n, InitPayload))
        = SubSeq(data, 1, Least(Room(0), n))
  <2> HIDE DEF data
  <2> QED
    BY <1>1, <1>3, FirstOfPadded
<1> QED
  BY <1>4 DEF Begun, InitReport, Got

(* Every step of the device keeps what is true of the channel it is for.   *)
LEMMA DeviceInv ==
  ASSUME IInv, NEW c \in Chan, Device(c)
  PROVE  ChanInv(c)'
<1>1. Arrives(c)
  BY DEF Device, TurnAway, HandleInit, IgnoreCont, WrongSeq, HandleCont
<1>2. PICK a \in Nat :
        /\ ArrivedUpTo(c, a) /\ a < Len(AllReports(c))
        /\ Arrived(c) = AllReports(c)[a + 1]
        /\ outgoing'[c] = SubSeq(AllReports(c), (a + 1) + 1, Len(AllReports(c)))
  BY <1>1, NextReport
<1>3. Takes(c, a) /\ IsMessage(sent[c])
  BY <1>1, <1>2, NextReport DEF Takes
<1>4. /\ a = 0 => Arrived(c) = InitReport(sent[c].cmd, sent[c].data)
      /\ a > 0 => Arrived(c) = ContReport(a - 1, Part(sent[c].data, a))
      /\ Arrived(c).number = -1 <=> a = 0
  BY <1>2, <1>3, ReportNumbers
<1>5. /\ a = 0 => Untouched(c)
      /\ a > 0 => Finished(c) \/ Collecting(c, a - 1)
  BY <1>2 DEF ArrivedUpTo
<1>6. Finished(c) => channel[c].command = NoCommand
  BY DEF Finished, IdleChannel
<1>7. CASE TurnAway(c)
  <2>1. channel'[c] = IdleChannel /\ outcomes[c] = <<>>
    BY <1>4, <1>5, <1>7 DEF TurnAway, Untouched
  <2>2. outcomes'[c] = <<Error("channelBusy")>>
    BY <1>7, <2>1 DEF TurnAway, Outcome, IInv, Shapes
  <2>3. Error("channelBusy") \in Errors /\ Error("channelBusy") # Error("invalidSeq")
    BY DEF Error, Errors
  <2> QED
    BY <1>3, <2>1, <2>2, <2>3, FinishedInv
<1>8. CASE HandleInit(c)
  <2>1. a = 0 /\ outcomes[c] = <<>> /\ a <= SeqMod
    BY <1>4, <1>5, <1>8, FramingAssumption DEF HandleInit, Untouched
  <2>2. Begun(Arrived(c)) = Got(c, a)
    BY <1>3, <1>4, <2>1, BegunIsGot
  <2>3. Collect(c, Got(c, a)) \/ Dispatch(c, Got(c, a))
    BY <1>8, <2>2 DEF HandleInit
  <2> QED
    BY <1>3, <2>1, <2>3, TakenInv
<1>9. CASE IgnoreCont(c)
  <2>1. channel[c].command = NoCommand /\ channel' = channel /\ outcomes' = outcomes /\ a > 0
    BY <1>4, <1>9 DEF IgnoreCont
  <2>2. Collecting(c, a - 1) => channel[c].command = sent[c].cmd
    BY DEF Collecting, Got
  <2>3. sent[c].cmd # NoCommand
    BY <1>3, MessageProperties DEF Command, NoCommand
  <2> QED
    BY <1>3, <1>5, <2>1, <2>2, <2>3, IgnoredInv
<1>10. CASE WrongSeq(c) \/ HandleCont(c)
  <2>1. a > 0 /\ Collecting(c, a - 1)
    BY <1>4, <1>5, <1>6, <1>10 DEF WrongSeq, HandleCont
  <2>2. /\ Arrived(c).number = (a - 1) % SeqMod /\ channel[c] = Got(c, a - 1)
        /\ channel[c].nextSeq = a - 1 /\ outcomes[c] = <<>> /\ a - 1 \in Nat
        /\ Room(a - 1) < Len(sent[c].data)
    BY <1>4, <2>1 DEF Collecting, Got, ContReport
  <2>3. CASE WrongSeq(c)
    <3>1. (a - 1) % SeqMod # a - 1
      BY <2>2, <2>3 DEF WrongSeq
    <3>2. SeqMod <= a - 1 /\ SeqMod \in Nat /\ ContPayload \in Nat /\ InitPayload \in Nat
      BY <2>2, <3>1, FramingAssumption
    <3>3. Room(SeqMod) <= Room(a - 1) /\ Room(SeqMod) \in Nat /\ Room(a - 1) \in Nat
      BY <2>2, <3>2, Monotone DEF Room
    <3>4. Room(SeqMod) < Len(sent[c].data)
      <4>1. Len(sent[c].data) \in Nat
        BY <1>3, MessageProperties
      <4> QED
        BY <2>2, <3>3, <4>1
    <3>5. channel'[c] = IdleChannel /\ outcomes'[c] = <<Error("invalidSeq")>>
      BY <2>2, <2>3 DEF WrongSeq, Outcome, IInv, Shapes
    <3>6. Error("invalidSeq") \in Errors
      BY DEF Errors
    <3> QED
      BY <1>3, <3>4, <3>5, <3>6, FinishedInv
  <2>4. CASE HandleCont(c)
    <3>1. (a - 1) % SeqMod = a - 1
      BY <2>2, <2>4 DEF HandleCont
    <3>2. a <= SeqMod
      BY <2>2, <3>1, FramingAssumption
    <3>3. Continued(channel[c], Arrived(c)) = Got(c, a)
      BY <1>3, <1>4, <2>1, <2>2, ContinuedIsGot
    <3>4. Collect(c, Got(c, a)) \/ Dispatch(c, Got(c, a))
      BY <2>4, <3>3 DEF HandleCont
    <3> QED
      BY <1>3, <2>2, <3>2, <3>4, TakenInv
  <2> QED
    BY <1>10, <2>3, <2>4
<1> QED
  BY <1>7, <1>8, <1>9, <1>10 DEF Device

(* It leaves the other channels alone.                                     *)
LEMMA DeviceShapes ==
  ASSUME IInv, NEW c \in Chan, Device(c)
  PROVE  Shapes' /\ Others(c)
<1> USE DEF IInv, Shapes, Others, Arrives, Outcome
<1>1. CASE TurnAway(c) \/ IgnoreCont(c) \/ WrongSeq(c)
  BY <1>1 DEF TurnAway, IgnoreCont, WrongSeq
<1>2. CASE HandleInit(c) \/ HandleCont(c)
  <2>1. Arrives(c) /\ \E state : Collect(c, state) \/ Dispatch(c, state)
    BY <1>2 DEF HandleInit, HandleCont
  <2>2. PICK state : Collect(c, state) \/ Dispatch(c, state)
    BY <2>1
  <2>3. /\ \E x : channel' = [channel EXCEPT ![c] = x]
        /\ outcomes' = outcomes \/ \E x : outcomes' = [outcomes EXCEPT ![c] = x]
        /\ active' \in {active, c}
    BY <2>2 DEF Collect, Dispatch
  <2> QED
    BY <2>1, <2>3
<1> QED
  BY <1>1, <1>2 DEF Device

(* When all reports have arrived, the device has made something of them.   *)
LEMMA NothingLeft ==
  ASSUME NEW c \in Chan, IsMessage(sent[c]), outgoing[c] = <<>>,
         NEW a \in Nat, ArrivedUpTo(c, a)
  PROVE  Finished(c)
<1> DEFINE all == AllReports(c)
           n == Len(sent[c].data)
<1>1. n \in Nat /\ Len(all) = 1 + Conts(n) /\ Conts(n) \in Nat
  BY MessageProperties
<1>2. SubSeq(all, a + 1, Len(all)) = <<>> /\ a <= Len(all)
  BY DEF ArrivedUpTo
<1>3. PICK T : all \in Seq(T)
  BY MessageProperties, ReportsProperties DEF AllReports
<1> HIDE DEF all, n
<1>4. a = Len(all)
  <2>1. \A i \in (a + 1)..Len(all) : all[i] \in T
    BY <1>1, <1>3, ElementOfSeq
  <2>2. Len(SubSeq(all, a + 1, Len(all))) =
          IF a + 1 <= Len(all) THEN Len(all) - (a + 1) + 1 ELSE 0
    BY <1>1, <2>1, SubSeqProperties
  <2>3. Len(<<>>) = 0
    OBVIOUS
  <2> QED
    BY <1>1, <1>2, <2>2, <2>3
<1>5. a # 0 /\ a - 1 = Conts(n) /\ a - 1 \in Nat
  BY <1>1, <1>4
<1>6. ~(Room(a - 1) < n)
  BY <1>1, <1>5, ContsProperties
<1> QED
  BY <1>5, <1>6 DEF ArrivedUpTo, Collecting, n

(* A client begins a message, or gives one up.                             *)
LEMMA ClientInv ==
  ASSUME IInv, NEW c \in Chan,
         Resync(c) \/ \E cmd \in Command, n \in 0..MaxLength : ClientBegins(c, cmd, n)
  PROVE  Shapes' /\ Others(c) /\ ChanInv(c)'
<1>1. CASE Resync(c)
  BY <1>1 DEF Resync, IInv, Shapes, Others, ChanInv, Untouched
<1>2. ASSUME NEW cmd \in Command, NEW n \in 0..MaxLength, ClientBegins(c, cmd, n)
      PROVE  Shapes' /\ Others(c) /\ ChanInv(c)'
  <2> DEFINE data == [i \in 1..n |-> <<c, 1 - serial[c], i>>]
  <2>1. /\ outgoing[c] = <<>> /\ channel' = channel
        /\ sent'[c] = [cmd |-> cmd, data |-> data]
        /\ outgoing'[c] = Reports(cmd, data) /\ outcomes'[c] = <<>>
    BY <1>2 DEF ClientBegins, IInv, Shapes
  <2>2. 1 - serial[c] \in 0..1
    BY DEF IInv, Shapes
  <2>3. n \in Nat /\ n <= MaxLength /\ data \in [1..n -> Byte]
    BY <2>2, FramingAssumption DEF Byte
  <2>4. Shapes' /\ Others(c)
    BY <1>2, <2>2 DEF ClientBegins, IInv, Shapes, Others
  <2> HIDE DEF data
  <2>5. data \in Seq(Byte) /\ Len(data) = n
    BY <2>3, SeqOfFunction
  <2>6. IsMessage(sent[c])'
    BY <2>1, <2>3, <2>5 DEF IsMessage
  <2>7. channel[c] = IdleChannel
    <3>1. CASE sent[c] = NoMessage /\ Untouched(c)
      BY <3>1 DEF Untouched
    <3>2. CASE IsMessage(sent[c]) /\ \E a \in Nat : ArrivedUpTo(c, a)
      BY <2>1, <3>2, NothingLeft DEF Finished
    <3> QED
      BY <3>1, <3>2 DEF IInv, ChanInv
  <2>8. AllReports(c)' = Reports(cmd, data)
    BY <2>1 DEF AllReports
  <2>9. ArrivedUpTo(c, 0)'
    <3> DEFINE all == Reports(cmd, data)
    <3>1. PICK T : all \in Seq(T)
      BY <2>5, ReportsProperties
    <3> HIDE DEF all
    <3>2. SubSeq(all, 1, Len(all)) = all /\ Len(all) \in Nat
      BY <3>1, SubSeqFull, LenProperties
    <3>3. Untouched(c)'
      BY <2>1, <2>7 DEF Untouched
    <3> QED
      BY <2>1, <2>8, <3>2, <3>3 DEF ArrivedUpTo, all
  <2> QED
    BY <2>4, <2>6, <2>9 DEF ChanInv
<1> QED
  BY <1>1, <1>2

(* Every step keeps the invariant.                                         *)
LEMMA StepIInv == IInv /\ [FramingNext]_framingVars => IInv'
<1> SUFFICES ASSUME IInv, [FramingNext]_framingVars PROVE IInv'
  OBVIOUS
<1>1. ASSUME UNCHANGED <<channel, sent, outgoing, outcomes, serial>>,
             active' \in Chan \cup {NoChan}
      PROVE  IInv'
  BY <1>1 DEF IInv, Shapes, ChanInv, Untouched, ArrivedUpTo, Finished, Collecting, Got,
              AllReports
<1>2. CASE WorkerEnds \/ UNCHANGED framingVars
  BY <1>1, <1>2 DEF WorkerEnds, framingVars, IInv, Shapes
<1>3. ASSUME NEW c \in Chan,
             \/ Device(c) \/ Resync(c)
             \/ \E cmd \in Command, n \in 0..MaxLength : ClientBegins(c, cmd, n)
      PROVE  IInv'
  <2>1. Shapes' /\ Others(c) /\ ChanInv(c)'
    BY <1>3, DeviceInv, DeviceShapes, ClientInv
  <2> QED
    BY <2>1, OthersKept DEF IInv
<1> QED
  BY <1>2, <1>3 DEF FramingNext

-----------------------------------------------------------------------------
(* The inductive invariant holds in every reachable state.                 *)
THEOREM Invariance == FramingSpec => []IInv
<1>1. FramingInit => IInv
  BY DEF FramingInit, IInv, Shapes, ChanInv, Untouched
<1> QED
  BY <1>1, StepIInv, PTL DEF FramingSpec

(* Every channel is idle or holds the beginning of a message; no report    *)
(* makes its number or its buffer more than they can be.                   *)
THEOREM TypeCorrect == FramingSpec => []FramingTypeOK
<1>1. IInv => FramingTypeOK
  <2> SUFFICES ASSUME IInv, NEW c \in Chan
               PROVE  /\ channel[c].command \in Command \cup {NoCommand}
                      /\ channel[c].expected \in 0..MaxLength
                      /\ channel[c].buffer \in Seq(Byte)
                      /\ channel[c].nextSeq \in 0..SeqMod
                      /\ Len(outcomes[c]) \in 0..1
    BY DEF IInv, Shapes, FramingTypeOK
  <2>1. CASE channel[c] = IdleChannel
    <3>1. 0 \in 0..MaxLength /\ 0 \in 0..SeqMod /\ <<>> \in Seq(Byte)
      BY FramingAssumption, EmptySeq
    <3>2. outcomes[c] = <<>> \/ Len(outcomes[c]) = 1
      BY DEF IInv, ChanInv, Untouched, ArrivedUpTo, Finished, Collecting
    <3> QED
      BY <2>1, <3>1, <3>2 DEF IdleChannel
  <2>2. ASSUME IsMessage(sent[c]), NEW a \in Nat, Collecting(c, a)
        PROVE  /\ channel[c].command \in Command \cup {NoCommand}
               /\ channel[c].expected \in 0..MaxLength
               /\ channel[c].buffer \in Seq(Byte)
               /\ channel[c].nextSeq \in 0..SeqMod
               /\ Len(outcomes[c]) \in 0..1
    <3>1. channel[c] = Got(c, a) /\ a \in 0..SeqMod /\ outcomes[c] = <<>>
      BY <2>2, FramingAssumption DEF Collecting
    <3>2. Got(c, a).buffer \in Seq(Byte)
      BY <2>2, GotProperties
    <3>3. Got(c, a).command = sent[c].cmd /\ Got(c, a).expected = Len(sent[c].data)
          /\ Got(c, a).nextSeq = a
      BY DEF Got
    <3>4. sent[c].cmd \in Command /\ Len(sent[c].data) \in 0..MaxLength
      BY <2>2, MessageProperties
    <3>5. Len(<<>>) = 0 /\ 0 \in 0..1
      OBVIOUS
    <3> QED
      BY <3>1, <3>2, <3>3, <3>4, <3>5
  <2>3. channel[c] = IdleChannel \/ (IsMessage(sent[c]) /\ \E a \in Nat : Collecting(c, a))
    <3>1. \A a \in Nat : a # 0 => a - 1 \in Nat
      OBVIOUS
    <3> QED
      BY <3>1 DEF IInv, ChanInv, Untouched, ArrivedUpTo, Finished
  <2> QED
    BY <2>1, <2>2, <2>3
<1> QED
  BY <1>1, Invariance, PTL

(* What the device acts on is what was sent, byte for byte, however the    *)
(* reports of the clients interleave.                                      *)
THEOREM DeliveredWasSent == FramingSpec => []DeliveredIsSent
<1>1. IInv => DeliveredIsSent
  <2> SUFFICES ASSUME IInv, NEW c \in Chan, NEW i \in 1..Len(outcomes[c])
               PROVE  outcomes[c][i] \in Errors \cup {sent[c]}
    BY DEF DeliveredIsSent
  <2>1. outcomes[c] = <<>> \/ Finished(c)
    BY DEF IInv, ChanInv, Untouched, ArrivedUpTo, Collecting
  <2> QED
    BY <2>1 DEF Finished
<1> QED
  BY <1>1, Invariance, PTL

(* No message vanishes and none counts twice; only one that is longer than *)
(* its reports can be numbered fails on a number.                          *)
THEOREM OneOutcomeEach == FramingSpec => []EveryMessageHasOneOutcome
<1>1. IInv => EveryMessageHasOneOutcome
  <2> SUFFICES ASSUME IInv, NEW c \in Chan
               PROVE  /\ outgoing[c] = <<>> /\ sent[c] # NoMessage => Len(outcomes[c]) = 1
                      /\ \A i \in 1..Len(outcomes[c]) :
                           outcomes[c][i] = Error("invalidSeq") =>
                             Len(sent[c].data) > InitPayload + SeqMod * ContPayload
    BY DEF EveryMessageHasOneOutcome
  <2>1. outcomes[c] = <<>> \/ Finished(c)
    BY DEF IInv, ChanInv, Untouched, ArrivedUpTo, Collecting
  <2>2. ASSUME outgoing[c] = <<>>, sent[c] # NoMessage PROVE Finished(c)
    BY <2>2, NothingLeft DEF IInv, ChanInv
  <2> QED
    BY <2>1, <2>2 DEF Finished, Room
<1> QED
  BY <1>1, Invariance, PTL
=============================================================================
