--------------------------- MODULE HandshakeProofs ---------------------------
(***************************************************************************)
(* Theorems about Handshake, for any number of attempts and of reads, and  *)
(* any delay or loss: when the channel is up, and what fails an attempt.   *)
(***************************************************************************)
EXTENDS Handshake, SequenceTheorems, TLAPS

USE LimitsAssumption

Limited == Atts \in Nat /\ WaitMax \in Nat /\ Atts >= 1 /\ WaitMax >= 1

\* What is assumed of the limits, one by one.
LEMMA Limits == Limited
BY DEF Limited

-----------------------------------------------------------------------------
(* The script. *)

\* The six steps of the server's side, read off the definition.
LEMMA ScriptSteps ==
    /\ Len(Script) = 6 /\ Script \in Seq({Script[i] : i \in 1 .. 6})
    /\ \A i \in {1, 3, 4, 5} : Script[i].op = "read"
    /\ \A i \in {2, 6} : Script[i].op = "write"
    /\ Script[1].recs = <<"CH">> /\ Script[2].recs = <<"SH", "SKE", "SHD">>
    /\ Script[3].recs = <<"CKE">> /\ Script[4].recs = <<"CCS">>
    /\ Script[5].recs = <<"FIN">> /\ Script[6].recs = <<"CCS", "FINISHED">>
BY DEF Script

\* What is left of the script from its j-th step on, step by step.
LEMMA LeftIs ==
    ASSUME NEW j \in 1 .. 7
    PROVE  /\ Left(j) \in Seq({Script[i] : i \in 1 .. 6}) /\ Len(Left(j)) = 7 - j
           /\ \A k \in 1 .. 7 - j : Left(j)[k] = Script[j + k - 1]
<1> DEFINE S == {Script[i] : i \in 1 .. 6}
<1>1. Script \in Seq(S) /\ Len(Script) = 6
    BY ScriptSteps
<1>2. \A k \in j .. 6 : Script[k] \in S
    BY DEF S
<1> HIDE DEF S
<1>3. /\ SubSeq(Script, j, 6) \in Seq(S)
      /\ Len(SubSeq(Script, j, 6)) = IF j <= 6 THEN 6 - j + 1 ELSE 0
      /\ \A k \in 1 .. 6 - j + 1 : SubSeq(Script, j, 6)[k] = Script[j + k - 1]
    BY <1>2, SubSeqProperties
<1> QED
    BY <1>1, <1>3 DEF Left, S

\* The script is left step by step, and no two steps leave the same.
LEMMA LeftSteps ==
    /\ Left(1) = Script /\ Left(7) = <<>>
    /\ \A i \in 1 .. 6 : Left(i) # <<>> /\ Head(Left(i)) = Script[i] /\ Tail(Left(i)) = Left(i + 1)
    /\ \A i, j \in 1 .. 7 : Left(i) = Left(j) => i = j
<1> DEFINE S == {Script[i] : i \in 1 .. 6}
<1>0. \A i \in 1 .. 7 : /\ Left(i) \in Seq(S) /\ Len(Left(i)) = 7 - i
                        /\ \A k \in 1 .. 7 - i : Left(i)[k] = Script[i + k - 1]
    BY LeftIs
<1>s. Script \in Seq(S) /\ Len(Script) = 6
    BY ScriptSteps
<1> HIDE DEF S
<1>1. Left(1) = Script
    <2>1. /\ Left(1) \in Seq(S) /\ Len(Left(1)) = 7 - 1
          /\ \A k \in 1 .. 7 - 1 : Left(1)[k] = Script[1 + k - 1]
        <3>1. 1 \in 1 .. 7
            OBVIOUS
        <3> QED
            BY <1>0, <3>1, Zenon
    <2>2. \A k \in 1 .. 6 : 1 + k - 1 = k
        OBVIOUS
    <2>3. Len(Left(1)) = 6 /\ \A k \in 1 .. 6 : Left(1)[k] = Script[k]
        BY <2>1, <2>2
    <2> QED
        BY <2>1, <2>3, <1>s
<1>2. Left(7) = <<>>
    BY <1>0
<1>3. ASSUME NEW i \in 1 .. 6
      PROVE  Left(i) # <<>> /\ Head(Left(i)) = Script[i] /\ Tail(Left(i)) = Left(i + 1)
    <2> DEFINE l == Left(i)
               m == Left(i + 1)
    <2>1. /\ l \in Seq(S) /\ Len(l) = 7 - i /\ \A k \in 1 .. 7 - i : l[k] = Script[i + k - 1]
        <3>1. i \in 1 .. 7
            OBVIOUS
        <3> QED
            BY <1>0, <3>1, Zenon
    <2>0. i + 1 \in 1 .. 7
        OBVIOUS
    <2>2. /\ m \in Seq(S) /\ Len(m) = 6 - i
          /\ \A k \in 1 .. 6 - i : m[k] = Script[i + k]
        <3>1. 7 - (i + 1) = 6 - i /\ \A k \in 1 .. 6 - i : (i + 1) + k - 1 = i + k
            OBVIOUS
        <3>2. /\ m \in Seq(S) /\ Len(m) = 7 - (i + 1)
              /\ \A k \in 1 .. 7 - (i + 1) : m[k] = Script[(i + 1) + k - 1]
            BY <1>0, <2>0, Zenon
        <3> HIDE DEF m
        <3> QED
            BY <3>1, <3>2
    <2> HIDE DEF l, m
    <2>3. l # <<>> /\ 1 \in 1 .. 7 - i
        BY <2>1
    <2>4. Head(l) = l[1] /\ l[1] = Script[i]
        BY <2>1, <2>3
    <2>5. /\ Tail(l) \in Seq(S) /\ Len(Tail(l)) = 6 - i
          /\ \A k \in 1 .. 6 - i : Tail(l)[k] = l[k + 1]
        BY <2>1, <2>3, HeadTailProperties
    <2>6. \A k \in 1 .. 6 - i : l[k + 1] = Script[i + k]
        <3> SUFFICES ASSUME NEW k \in 1 .. 6 - i PROVE l[k + 1] = Script[i + k]
            OBVIOUS
        <3>1. k + 1 \in 1 .. 7 - i /\ i + (k + 1) - 1 = i + k
            OBVIOUS
        <3> QED
            BY <2>1, <3>1
    <2>7. Tail(l) = m
        BY <2>2, <2>5, <2>6
    <2> QED
        BY <2>3, <2>4, <2>7 DEF l, m
<1>4. \A i, j \in 1 .. 7 : Left(i) = Left(j) => i = j
    <2> SUFFICES ASSUME NEW i \in 1 .. 7, NEW j \in 1 .. 7, Left(i) = Left(j) PROVE i = j
        OBVIOUS
    <2>1. 7 - i = 7 - j
        BY <1>0
    <2> QED
        BY <2>1
<1> QED
    BY <1>1, <1>2, <1>3, <1>4

\* Where the library is when it reads ...
LEMMA Reading ==
    ASSUME InScript, Step("read")
    PROVE  \E i \in {1, 3, 4, 5} : /\ At(i) /\ Head(script) = Script[i]
                                   /\ script # <<>> /\ Tail(script) = Left(i + 1)
<1>1. PICK i \in 1 .. 7 : At(i)
    <2>1. \E i \in 1 .. 7 : At(i)
        BY DEF InScript, Step
    <2> QED
        BY <2>1
<1>2. i \in 1 .. 6 /\ script = Left(i)
    BY <1>1, LeftSteps DEF At, Step
<1>3. Head(script) = Script[i] /\ Tail(script) = Left(i + 1)
    BY <1>2, LeftSteps
<1>4. i # 2 /\ i # 6
    BY <1>3, ScriptSteps DEF Step
<1> QED
    BY <1>1, <1>2, <1>3, <1>4 DEF Step

\* ... and when it writes.
LEMMA Writing ==
    ASSUME InScript, Step("write")
    PROVE  \E i \in {2, 6} : /\ At(i) /\ Head(script) = Script[i]
                             /\ script # <<>> /\ Tail(script) = Left(i + 1)
<1>1. PICK i \in 1 .. 7 : At(i)
    <2>1. \E i \in 1 .. 7 : At(i)
        BY DEF InScript, Step
    <2> QED
        BY <2>1
<1>2. i \in 1 .. 6 /\ script = Left(i)
    BY <1>1, LeftSteps DEF At, Step
<1>3. Head(script) = Script[i] /\ Tail(script) = Left(i + 1)
    BY <1>2, LeftSteps
<1>4. i \notin {1, 3, 4, 5}
    BY <1>3, ScriptSteps DEF Step
<1> QED
    BY <1>1, <1>2, <1>3, <1>4 DEF Step

-----------------------------------------------------------------------------
(* The frames on the line. *)

\* The frames under way, as a queue grows and shrinks.
LEMMA UnderTail ==
    ASSUME NEW s \in Seq(Frames), s # <<>>
    PROVE  /\ Tail(s) \in Seq(Frames) /\ Head(s) \in Frames
           /\ Under(Tail(s)) \subseteq Under(s) /\ Head(s) \in Under(s)
<1>1. Tail(s) \in Seq(Frames) /\ Len(Tail(s)) = Len(s) - 1 /\ Len(s) >= 1
    BY HeadTailProperties
<1>2. \A i \in 1 .. Len(s) - 1 : Tail(s)[i] = s[i + 1] /\ i + 1 \in 1 .. Len(s)
    BY HeadTailProperties, <1>1
<1>3. Head(s) = s[1] /\ 1 \in 1 .. Len(s)
    BY <1>1
<1>4. DOMAIN s = 1 .. Len(s) /\ DOMAIN Tail(s) = 1 .. Len(s) - 1
    BY <1>1
<1> QED
    BY <1>1, <1>2, <1>3, <1>4 DEF Under

LEMMA UnderConcat ==
    ASSUME NEW s \in Seq(Frames), NEW t \in Seq(Frames)
    PROVE  s \o t \in Seq(Frames) /\ Under(s \o t) = Under(s) \cup Under(t)
<1>1. /\ s \o t \in Seq(Frames) /\ Len(s \o t) = Len(s) + Len(t)
      /\ \A i \in 1 .. Len(s) + Len(t) :
            (s \o t)[i] = IF i <= Len(s) THEN s[i] ELSE t[i - Len(s)]
    BY ConcatProperties
<1>2. DOMAIN s = 1 .. Len(s) /\ DOMAIN t = 1 .. Len(t) /\ DOMAIN (s \o t) = 1 .. Len(s) + Len(t)
    BY <1>1
<1>3. Under(s) \subseteq Under(s \o t)
    BY <1>1, <1>2 DEF Under
<1>4. Under(t) \subseteq Under(s \o t)
    <2> SUFFICES ASSUME NEW i \in 1 .. Len(t) PROVE t[i] \in Under(s \o t)
        BY <1>2 DEF Under
    <2>1. Len(s) + i \in 1 .. Len(s) + Len(t) /\ ~(Len(s) + i <= Len(s)) /\ Len(s) + i - Len(s) = i
        OBVIOUS
    <2> QED
        BY <1>1, <1>2, <2>1 DEF Under
<1>5. Under(s \o t) \subseteq Under(s) \cup Under(t)
    <2> SUFFICES ASSUME NEW i \in 1 .. Len(s) + Len(t) PROVE (s \o t)[i] \in Under(s) \cup Under(t)
        BY <1>2 DEF Under
    <2>1. CASE i <= Len(s)
        BY <1>1, <1>2, <2>1 DEF Under
    <2>2. CASE ~(i <= Len(s))
        <3>1. i - Len(s) \in 1 .. Len(t)
            BY <2>2
        <3> QED
            BY <1>1, <1>2, <2>2, <3>1 DEF Under
    <2> QED
        BY <2>1, <2>2
<1> QED
    BY <1>1, <1>3, <1>4, <1>5

LEMMA UnderOne ==
    ASSUME NEW f \in Frames
    PROVE  <<f>> \in Seq(Frames) /\ Under(<<f>>) = {f}
BY DEF Under

LEMMA UnderNone == Under(<<>>) = {} /\ <<>> \in Seq(Frames)
BY DEF Under

\* The first frame of an ordered line is an acknowledgement, or the first to come.
LEMMA OrderedTail ==
    ASSUME NEW line \in Seq(Frames), NEW k \in Nat, NEW kinds \in Seq(Kinds), NEW a,
           Ordered(line, k, kinds, a), line # <<>>
    PROVE  /\ k >= 1 => Plain(Head(line)) /\ Ordered(Tail(line), k - 1, kinds, a)
           /\ k = 0 => /\ kinds # <<>> /\ Head(line) = Frame(kinds[1], a, a)
                       /\ Ordered(Tail(line), 0, Tail(kinds), a)
<1>1. /\ Tail(line) \in Seq(Frames) /\ Len(Tail(line)) = Len(line) - 1 /\ Len(line) >= 1
      /\ \A i \in 1 .. Len(line) - 1 : Tail(line)[i] = line[i + 1]
      /\ Head(line) = line[1]
    BY HeadTailProperties
<1>2. /\ Len(line) = k + Len(kinds) /\ \A i \in 1 .. k : Plain(line[i])
      /\ \A j \in 1 .. Len(kinds) : line[k + j] = Frame(kinds[j], a, a)
      /\ Len(kinds) \in Nat /\ Len(line) \in Nat
    BY DEF Ordered
<1>3. ASSUME k >= 1 PROVE Plain(Head(line)) /\ Ordered(Tail(line), k - 1, kinds, a)
    <2>1. 1 \in 1 .. k /\ Plain(line[1])
        BY <1>2, <1>3
    <2>2. Len(Tail(line)) = (k - 1) + Len(kinds)
        BY <1>1, <1>2
    <2>3. \A i \in 1 .. k - 1 : Plain(Tail(line)[i])
        <3> SUFFICES ASSUME NEW i \in 1 .. k - 1 PROVE Plain(Tail(line)[i])
            OBVIOUS
        <3>1. i + 1 \in 1 .. k /\ i \in 1 .. Len(line) - 1
            BY <1>2
        <3>2. Tail(line)[i] = line[i + 1] /\ Plain(line[i + 1])
            BY <1>1, <1>2, <3>1, Zenon
        <3> QED
            BY <3>2
    <2>4. \A j \in 1 .. Len(kinds) : Tail(line)[(k - 1) + j] = Frame(kinds[j], a, a)
        <3> SUFFICES ASSUME NEW j \in 1 .. Len(kinds)
                     PROVE  Tail(line)[(k - 1) + j] = Frame(kinds[j], a, a)
            OBVIOUS
        <3>1. (k - 1) + j \in 1 .. Len(line) - 1 /\ ((k - 1) + j) + 1 = k + j
            BY <1>2, <1>3
        <3>2. Tail(line)[(k - 1) + j] = line[((k - 1) + j) + 1] /\ line[k + j] = Frame(kinds[j], a, a)
            BY <1>1, <1>2, <3>1, Zenon
        <3> QED
            BY <3>1, <3>2
    <2> QED
        BY <1>1, <2>1, <2>2, <2>3, <2>4 DEF Ordered
<1>4. ASSUME k = 0
      PROVE  /\ kinds # <<>> /\ Head(line) = Frame(kinds[1], a, a)
             /\ Ordered(Tail(line), 0, Tail(kinds), a)
    <2>1. Len(kinds) = Len(line) /\ 1 \in 1 .. Len(kinds) /\ 0 + 1 = 1
        BY <1>1, <1>2, <1>4
    <2>2. kinds # <<>> /\ line[1] = Frame(kinds[1], a, a)
        <3>1. line[0 + 1] = Frame(kinds[1], a, a)
            BY <1>2, <1>4, <2>1, Zenon
        <3> QED
            BY <2>1, <3>1
    <2>3. /\ Tail(kinds) \in Seq(Kinds) /\ Len(Tail(kinds)) = Len(kinds) - 1
          /\ \A i \in 1 .. Len(kinds) - 1 : Tail(kinds)[i] = kinds[i + 1]
        BY <2>2, HeadTailProperties
    <2>4. \A j \in 1 .. Len(kinds) - 1 : Tail(line)[0 + j] = Frame(Tail(kinds)[j], a, a)
        <3> SUFFICES ASSUME NEW j \in 1 .. Len(kinds) - 1
                     PROVE  Tail(line)[0 + j] = Frame(Tail(kinds)[j], a, a)
            OBVIOUS
        <3>1. j + 1 \in 1 .. Len(kinds) /\ j \in 1 .. Len(line) - 1 /\ 0 + (j + 1) = j + 1 /\ 0 + j = j
            BY <2>1
        <3>2. Tail(line)[j] = line[j + 1] /\ line[k + (j + 1)] = Frame(kinds[j + 1], a, a)
            BY <1>1, <1>2, <3>1, Zenon
        <3> QED
            BY <1>4, <2>3, <3>1, <3>2
    <2> QED
        BY <1>1, <2>1, <2>2, <2>3, <2>4 DEF Ordered
<1> QED
    BY <1>3, <1>4

\* Frames that are put behind acknowledgements keep their order.
LEMMA OrderedConcat ==
    ASSUME NEW line \in Seq(Frames), NEW t \in Seq(Frames), NEW k \in Nat, NEW m \in Nat,
           NEW kinds \in Seq(Kinds), NEW a,
           Ordered(line, k, <<>>, a), Ordered(t, m, kinds, a)
    PROVE  Ordered(line \o t, k + m, kinds, a)
<1> DEFINE l == line \o t
<1>1. /\ l \in Seq(Frames) /\ Len(l) = Len(line) + Len(t)
      /\ \A i \in 1 .. Len(line) + Len(t) : l[i] = IF i <= Len(line) THEN line[i] ELSE t[i - Len(line)]
    BY ConcatProperties
<1>2. Len(line) = k /\ \A i \in 1 .. k : Plain(line[i])
    BY DEF Ordered
<1>3. /\ Len(t) = m + Len(kinds) /\ \A i \in 1 .. m : Plain(t[i])
      /\ \A j \in 1 .. Len(kinds) : t[m + j] = Frame(kinds[j], a, a)
      /\ Len(kinds) \in Nat
    BY DEF Ordered
<1> HIDE DEF l
<1>4. \A i \in 1 .. k + m : Plain(l[i])
    <2> SUFFICES ASSUME NEW i \in 1 .. k + m PROVE Plain(l[i])
        OBVIOUS
    <2>1. i \in 1 .. Len(line) + Len(t)
        BY <1>2, <1>3
    <2>2. CASE i <= k
        <3>1. i \in 1 .. k
            BY <2>2
        <3> QED
            BY <1>1, <1>2, <2>1, <2>2, <3>1
    <2>3. CASE ~(i <= k)
        <3>1. i - k \in 1 .. m
            BY <2>3
        <3>2. l[i] = t[i - k]
            BY <1>1, <1>2, <2>1, <2>3
        <3> QED
            BY <1>3, <3>1, <3>2
    <2> QED
        BY <2>2, <2>3
<1>5. \A j \in 1 .. Len(kinds) : l[(k + m) + j] = Frame(kinds[j], a, a)
    <2> SUFFICES ASSUME NEW j \in 1 .. Len(kinds) PROVE l[(k + m) + j] = Frame(kinds[j], a, a)
        OBVIOUS
    <2>1. /\ (k + m) + j \in 1 .. Len(line) + Len(t) /\ ~((k + m) + j <= k)
          /\ ((k + m) + j) - k = m + j
        BY <1>2, <1>3
    <2>2. l[(k + m) + j] = t[((k + m) + j) - k]
        BY <1>1, <1>2, <2>1
    <2> QED
        BY <1>3, <2>1, <2>2
<1>6. Len(l) = (k + m) + Len(kinds) /\ DOMAIN kinds = 1 .. Len(kinds)
    BY <1>1, <1>2, <1>3
<1> QED
    BY <1>4, <1>5, <1>6 DEF Ordered, l

\* The frames of the sensor, in an attempt: an acknowledgement, with the
\* ClientHello, and the answer to the hellos.
Acks(h) == Answers(<<"ack">>, h)
Hello(h) == Answers(<<"ack", "CH">>, h)
Flight(h) == Answers(<<"CKE", "CCS", "FIN">>, h)

LEMMA AnswersOnLine ==
    ASSUME att \in 1 .. Atts, NEW h \in 0 .. Atts
    PROVE  /\ {Acks(h), Hello(h), Flight(h)} \subseteq Seq(Frames)
           /\ \A f \in Under(Acks(h)) \cup Under(Hello(h)) : f.att = att /\ f.kind # "FIN"
           /\ \A f \in Under(Flight(h)) : f.att = att /\ f.hello = h
           /\ Ordered(Acks(h), 1, <<>>, att)
           /\ h = att => Ordered(Hello(h), 1, <<"CH">>, att)
           /\ h = att => Ordered(Flight(h), 0, <<"CKE", "CCS", "FIN">>, att)
<1>1. /\ Acks(h) = <<Frame("ack", att, h)>>
      /\ Hello(h) = <<Frame("ack", att, h), Frame("CH", att, h)>>
      /\ Flight(h) = <<Frame("CKE", att, h), Frame("CCS", att, h), Frame("FIN", att, h)>>
    BY DEF Acks, Hello, Flight, Answers
<1>2. \A kind \in Kinds : Frame(kind, att, h) \in Frames
    BY DEF Frame, Frames
<1>3. {"ack", "CH", "CKE", "CCS", "FIN"} \subseteq Kinds
    BY DEF Kinds
<1>4. {Acks(h), Hello(h), Flight(h)} \subseteq Seq(Frames)
    BY <1>1, <1>2, <1>3
<1>5. /\ Under(Acks(h)) = {Frame("ack", att, h)}
      /\ Under(Hello(h)) = {Frame("ack", att, h), Frame("CH", att, h)}
      /\ Under(Flight(h)) = {Frame("CKE", att, h), Frame("CCS", att, h), Frame("FIN", att, h)}
    BY <1>1 DEF Under
<1>6. Ordered(Acks(h), 1, <<>>, att)
    BY <1>1 DEF Ordered, Plain, Frame
<1>7. h = att => Ordered(Hello(h), 1, <<"CH">>, att)
    BY <1>1 DEF Ordered, Plain, Frame
<1>8. h = att => Ordered(Flight(h), 0, <<"CKE", "CCS", "FIN">>, att)
    BY <1>1 DEF Ordered, Plain, Frame
<1> QED
    BY <1>4, <1>5, <1>6, <1>7, <1>8 DEF Frame

-----------------------------------------------------------------------------
(* The steps. *)

\* The record that the library takes is the one it waits for.
Wanted(f) ==
    f.kind = Head(script).recs[1] /\ (f.kind = "FIN" => f.att = att /\ f.hello = hello)

\* The steps after which the library still shakes hands.
LEMMA Accepting ==
    ASSUME [Next]_vars, pc' = "accept"
    PROVE  /\ att' = att /\ gpio' = gpio
           /\ \/ /\ pc = "ack" /\ ~(cmd < Len(Upload)) /\ ReadAny /\ UNCHANGED <<due, sensor, reason>>
                 /\ script' = Script /\ batch' = <<>> /\ hello' = 0
                 /\ half' = Nothing /\ stash' = <<>> /\ waits' = 0
              \/ /\ pc = "accept"
                 /\ \/ BioRead \/ TakeHeader \/ (TakeBody /\ Wanted(Head(stash).rec))
                    \/ Write \/ BioSend \/ Arrive \/ Lose \/ UNCHANGED vars
<1>1. CASE UNCHANGED vars
    BY <1>1 DEF vars
<1>2. CASE Arrive \/ Lose
    BY <1>2 DEF Arrive, Lose
<1>3. CASE Session \/ Retry \/ Cancel
    BY <1>3 DEF Session, Retry, Cancel, Attempt
<1>4. CASE Command \/ CommandFails
    BY <1>4 DEF Command, CommandFails, GiveUp
<1>5. CASE ReadAck
    BY <1>5 DEF ReadAck
<1>6. CASE BioRead
    BY <1>6 DEF BioRead, Step
<1>7. CASE BioTimeout \/ BioSendFails
    BY <1>7 DEF BioTimeout, BioSendFails, GiveUp
<1>8. CASE TakeHeader
    BY <1>8 DEF TakeHeader, Step
<1>9. CASE TakeBody
    BY <1>9 DEF TakeBody, Step, GiveUp, Wanted
<1>10. CASE Write \/ BioSend
    BY <1>10 DEF Write, BioSend, Step
<1>11. CASE Accepted \/ ReadD4 \/ \E delivered \in BOOLEAN : SendD4(delivered)
    BY <1>11 DEF Accepted, ReadD4, SendD4
<1> QED
    BY <1>1, <1>2, <1>3, <1>4, <1>5, <1>6, <1>7, <1>8, <1>9, <1>10, <1>11 DEF Next, Host

\* A record leaves the stash in two pieces, header before body.
LEMMA PiecesStep ==
    ASSUME TypeOK, Pieces, [Next]_vars
    PROVE  Pieces'
<1> SUFFICES ASSUME pc' = "accept"
             PROVE  \/ stash' = <<>> /\ half' = Nothing
                    \/ \E f \in Frames : half' = Nothing /\ stash' = <<Part(f, "header"), Part(f, "body")>>
                    \/ half' \in Frames /\ stash' = <<Part(half', "body")>>
    BY DEF Pieces
<1>0. \A f \in Frames : f # Nothing
    BY DEF Frames, Nothing, Frame, Kinds
<1>1. CASE BioRead
    <2>1. half = Nothing /\ half' = half
        BY <1>0, <1>1 DEF BioRead, Step, Pieces
    <2>2. bus # <<>> => Head(bus) \in Frames
        BY UnderTail DEF TypeOK
    <2> QED
        BY <1>1, <2>1, <2>2 DEF BioRead
<1>2. CASE TakeHeader
    <2>1. PICK f \in Frames : stash = <<Part(f, "header"), Part(f, "body")>>
        BY <1>0, <1>2 DEF TakeHeader, Step, Pieces
    <2>2. Head(stash).rec = f /\ Tail(stash) = <<Part(f, "body")>>
        BY <2>1 DEF Part
    <2> QED
        BY <1>2, <2>2 DEF TakeHeader, Rest
<1>3. CASE TakeBody /\ Wanted(Head(stash).rec)
    <2>1. half \in Frames /\ stash = <<Part(half, "body")>>
        BY <1>3 DEF TakeBody, Step, Pieces
    <2>2. Tail(stash) = <<>>
        BY <2>1
    <2> QED
        BY <1>3, <2>2 DEF TakeBody, Wanted, Rest
<1>4. CASE Write \/ BioSend \/ Arrive \/ Lose \/ UNCHANGED vars
    <2>1. pc = "accept" /\ stash' = stash /\ half' = half
        BY <1>4 DEF Write, BioSend, Step, Arrive, Lose, vars, library
    <2> QED
        BY <2>1 DEF Pieces
<1> QED
    BY <1>1, <1>2, <1>3, <1>4, Accepting

\* The library stays in its script, and writes only where that says so.
LEMMA InScriptStep ==
    ASSUME InScript, [Next]_vars
    PROVE  InScript'
<1> SUFFICES ASSUME pc' = "accept"
             PROVE  /\ \E i \in 1 .. 7 : At(i)'
                    /\ batch' # <<>> => (At(3)' /\ batch' \in Hellos) \/ (At(7)' /\ batch' \in Finisheds)
    BY DEF InScript, Hellos, Finisheds
<1>1. CASE pc = "ack" /\ script' = Script /\ batch' = <<>>
    BY <1>1, LeftSteps DEF At
<1>2. CASE BioRead \/ TakeHeader \/ Arrive \/ Lose \/ UNCHANGED vars
    <2>1. pc = "accept" /\ script' = script /\ batch' = batch
        BY <1>2 DEF BioRead, TakeHeader, Step, Arrive, Lose, vars, library
    <2> QED
        BY <2>1 DEF InScript, At
<1>3. CASE TakeBody /\ Wanted(Head(stash).rec)
    <2>1. PICK i \in {1, 3, 4, 5} : Tail(script) = Left(i + 1)
        BY <1>3, Reading DEF TakeBody
    <2>2. script' = Left(i + 1) /\ batch' = <<>> /\ i + 1 \in 1 .. 7
        BY <1>3, <2>1 DEF TakeBody, Step, Wanted
    <2> QED
        BY <2>2 DEF At
<1>4. CASE Write
    <2>1. PICK i \in {2, 6} : Head(script) = Script[i] /\ Tail(script) = Left(i + 1)
        BY <1>4, Writing DEF Write
    <2>2. script' = Left(i + 1) /\ batch' = Script[i].recs
        BY <1>4, <2>1 DEF Write
    <2>3. Script[2].recs \in Hellos /\ Script[6].recs \in Finisheds
        BY ScriptSteps DEF Hellos, Finisheds
    <2> QED
        BY <2>2, <2>3 DEF At
<1>5. CASE BioSend
    <2>1. pc = "accept" /\ script' = script /\ batch' = Tail(batch) /\ batch # <<>>
        BY <1>5 DEF BioSend
    <2>2. batch \in Hellos => Tail(batch) = <<>> \/ Tail(batch) \in Hellos
        <3>1. /\ Tail(<<"SH", "SKE", "SHD">>) = <<"SKE", "SHD">>
              /\ Tail(<<"SKE", "SHD">>) = <<"SHD">> /\ Tail(<<"SHD">>) = <<>>
            OBVIOUS
        <3> QED
            BY <3>1, Zenon DEF Hellos
    <2>3. batch \in Finisheds => Tail(batch) = <<>> \/ Tail(batch) \in Finisheds
        <3>1. Tail(<<"CCS", "FINISHED">>) = <<"FINISHED">> /\ Tail(<<"FINISHED">>) = <<>>
            OBVIOUS
        <3> QED
            BY <3>1, Zenon DEF Finisheds
    <2> QED
        BY <2>1, <2>2, <2>3 DEF InScript, At
<1> QED
    BY <1>1, <1>2, <1>3, <1>4, <1>5, Accepting

\* A record that gx_bio_send writes goes to the sensor, which answers the hellos.
LEMMA Sent ==
    ASSUME Counted, InScript, BioSend
    PROVE  /\ batch # <<>> /\ Head(batch) \in Recs
           /\ sensor'.att = sensor.att /\ sensor'.got = Append(sensor.got, Head(batch))
           /\ sensor'.linked = (sensor.linked \/ sensor'.got = <<"SH", "SKE", "SHD", "CCS", "FINISHED">>)
           /\ sensor' \in [att : 0 .. Atts, got : Seq(Recs), linked : BOOLEAN]
           /\ due' = IF sensor'.got = HelloSent THEN due \o Flight(sensor.att) ELSE due
           /\ batch' = Tail(batch)
<1>1. batch # <<>> /\ batch \in Hellos \cup Finisheds /\ batch' = Tail(batch) /\ Receives(<<Head(batch)>>)
    BY DEF BioSend, InScript
<1>2. /\ Head(<<"SH", "SKE", "SHD">>) = "SH" /\ Head(<<"SKE", "SHD">>) = "SKE" /\ Head(<<"SHD">>) = "SHD"
      /\ Head(<<"CCS", "FINISHED">>) = "CCS" /\ Head(<<"FINISHED">>) = "FINISHED"
    OBVIOUS
<1>3. Head(batch) \in Recs
    BY <1>1, <1>2, Zenon DEF Hellos, Finisheds, Recs
<1> DEFINE x == Head(batch)
           got == Append(sensor.got, x)
<1>4. /\ sensor' = [sensor EXCEPT !.got = got,
                        !.linked = @ \/ got = <<"SH", "SKE", "SHD", "CCS", "FINISHED">>]
      /\ due' = IF got = HelloSent THEN due \o Flight(sensor.att) ELSE due
    <2>1. Len(<<x>>) = 1 /\ <<x>>[1] = x
        OBVIOUS
    <2> HIDE DEF x
    <2> QED
        BY <1>1, <2>1 DEF Receives, HelloSent, Flight, x
<1>5. sensor \in [att : 0 .. Atts, got : Seq(Recs), linked : BOOLEAN] /\ got \in Seq(Recs)
    BY <1>3 DEF Counted
<1> HIDE DEF x, got
<1>6. /\ sensor'.att = sensor.att /\ sensor'.got = got
      /\ sensor'.linked = (sensor.linked \/ got = <<"SH", "SKE", "SHD", "CCS", "FINISHED">>)
    BY <1>4, <1>5
<1>7. sensor' \in [att : 0 .. Atts, got : Seq(Recs), linked : BOOLEAN]
    <2>1. (sensor.linked \/ got = <<"SH", "SKE", "SHD", "CCS", "FINISHED">>) \in BOOLEAN
        OBVIOUS
    <2> QED
        BY <1>4, <1>5, <2>1
<1> QED
    BY <1>1, <1>3, <1>4, <1>6, <1>7 DEF got, x

\* What is on the line was, or is sent in this attempt; the Finished, with the
\* answer to the hellos.
Fresh(f) ==
    f.att = att /\ (f.kind = "FIN" => BioSend /\ sensor'.got = HelloSent /\ f.hello = sensor.att)

LEMMA WireStep ==
    ASSUME TypeOK, Counted, InScript, [Next]_vars
    PROVE  /\ bus' \in Seq(Frames) /\ due' \in Seq(Frames)
           /\ \A f \in Under(bus') \cup Under(due') : f \in Under(bus) \cup Under(due) \/ Fresh(f)
<1> USE DEF TypeOK
<1>0. bus \in Seq(Frames) /\ due \in Seq(Frames)
    OBVIOUS
<1>a. ASSUME NEW t \in Seq(Frames), bus' = bus, due' = due \o t, \A f \in Under(t) : Fresh(f)
      PROVE  /\ bus' \in Seq(Frames) /\ due' \in Seq(Frames)
             /\ \A f \in Under(bus') \cup Under(due') : f \in Under(bus) \cup Under(due) \/ Fresh(f)
    <2>1. due \o t \in Seq(Frames) /\ Under(due \o t) = Under(due) \cup Under(t)
        BY UnderConcat
    <2> QED
        BY <1>a, <2>1
<1>1. CASE UNCHANGED wire
    BY <1>1 DEF wire
<1>2. CASE Reset
    <2>1. (bus' = bus /\ due' = due) \/ (bus' = <<>> /\ due' = <<>>)
        BY <1>2 DEF Reset, wire
    <2> QED
        BY <2>1, UnderNone
<1>3. CASE ReadAny /\ UNCHANGED due
    BY <1>3, UnderTail DEF ReadAny
<1>4. CASE Arrive
    <2>1. due # <<>> /\ bus' = Append(bus, Head(due)) /\ due' = Tail(due)
        BY <1>4 DEF Arrive
    <2>2. /\ Tail(due) \in Seq(Frames) /\ Head(due) \in Frames
          /\ Under(Tail(due)) \subseteq Under(due) /\ Head(due) \in Under(due)
        BY <2>1, UnderTail
    <2>3. Append(bus, Head(due)) = bus \o <<Head(due)>>
        BY <2>2, AppendIsConcat
    <2>4. /\ bus \o <<Head(due)>> \in Seq(Frames)
          /\ Under(bus \o <<Head(due)>>) = Under(bus) \cup {Head(due)}
        BY <2>2, UnderConcat, UnderOne
    <2>5. bus' \in Seq(Frames) /\ Under(bus') = Under(bus) \cup {Head(due)}
        BY <2>1, <2>3, <2>4, Zenon
    <2> QED
        BY <2>1, <2>2, <2>5
<1>5. CASE Lose
    BY <1>5, UnderTail DEF Lose
<1>6. CASE Command
    <2>1. att \in 1 .. Atts /\ 0 \in 0 .. Atts /\ att \in 0 .. Atts
        BY <1>6, Limits DEF Command, Counted, Limited
    <2>2. bus' = bus /\ (due' = due \o Hello(att) \/ due' = due \o Acks(0))
        BY <1>6 DEF Command, Hello, Acks
    <2>3. /\ Hello(att) \in Seq(Frames) /\ Acks(0) \in Seq(Frames)
          /\ \A f \in Under(Hello(att)) \cup Under(Acks(0)) : Fresh(f)
        BY <2>1, AnswersOnLine DEF Fresh
    <2> QED
        BY <1>a, <2>2, <2>3
<1>7. CASE BioSend
    <2>1. att \in 1 .. Atts /\ sensor.att \in 0 .. Atts
        BY <1>7, Limits DEF BioSend, Counted, Limited
    <2>2. bus' = bus /\ (due' = due \/ (due' = due \o Flight(sensor.att) /\ sensor'.got = HelloSent))
        BY <1>7, Sent DEF BioSend
    <2>3. Flight(sensor.att) \in Seq(Frames) /\ \A f \in Under(Flight(sensor.att)) : f.att = att /\ f.hello = sensor.att
        BY <2>1, AnswersOnLine
    <2>4. CASE due' = due
        BY <2>2, <2>4
    <2>5. CASE due' = due \o Flight(sensor.att) /\ sensor'.got = HelloSent
        <3>1. \A f \in Under(Flight(sensor.att)) : Fresh(f)
            BY <1>7, <2>3, <2>5 DEF Fresh
        <3> QED
            BY <1>a, <2>2, <2>3, <2>5, <3>1
    <2> QED
        BY <2>2, <2>4, <2>5
<1>8. CASE \E delivered \in BOOLEAN : SendD4(delivered)
    <2>1. att \in 1 .. Atts /\ 0 \in 0 .. Atts
        BY <1>8, Limits DEF SendD4, Counted, Limited
    <2>2. bus' = bus /\ (due' = due \/ due' = due \o Acks(0))
        BY <1>8 DEF SendD4, Acks
    <2>3. Acks(0) \in Seq(Frames) /\ \A f \in Under(Acks(0)) : Fresh(f)
        BY <2>1, AnswersOnLine DEF Fresh
    <2> QED
        BY <1>a, <2>2, <2>3
<1>9. \/ UNCHANGED wire \/ Reset \/ (ReadAny /\ UNCHANGED due) \/ Arrive \/ Lose \/ Command \/ BioSend
      \/ \E delivered \in BOOLEAN : SendD4(delivered)
    <2>1. CASE Session \/ Retry
        BY <2>1 DEF Session, Retry, Attempt
    <2>2. CASE CommandFails \/ BioTimeout \/ BioSendFails \/ TakeBody
        BY <2>2 DEF CommandFails, BioTimeout, BioSendFails, TakeBody, GiveUp
    <2>3. CASE ReadAck \/ BioRead \/ ReadD4
        BY <2>3 DEF ReadAck, BioRead, ReadD4
    <2>4. CASE TakeHeader \/ Write \/ Accepted \/ Cancel \/ UNCHANGED vars
        BY <2>4 DEF TakeHeader, Write, Accepted, Cancel, vars
    <2> QED
        BY <2>1, <2>2, <2>3, <2>4 DEF Next, Host
<1> QED
    BY <1>1, <1>2, <1>3, <1>4, <1>5, <1>6, <1>7, <1>8, <1>9

\* The types, and the numbers of the attempts.
LEMMA TypeStep ==
    ASSUME TypeOK, Counted, Pieces, InScript, [Next]_vars
    PROVE  TypeOK' /\ Counted'
<1> USE DEF TypeOK
<1>w. bus' \in Seq(Frames) /\ due' \in Seq(Frames)
    BY WireStep
<1>p. Pieces'
    BY PiecesStep
<1>i. InScript'
    BY InScriptStep
<1>r. RecordsWhole'
    <2> SUFFICES ASSUME half' # Nothing, pc' = "accept"
                 PROVE  stash' # <<>> /\ Head(stash') = Part(half', "body")
        BY DEF RecordsWhole, Nothing, Part
    <2>1. stash' = <<Part(half', "body")>>
        BY <1>p DEF Pieces
    <2> HIDE DEF TypeOK
    <2> QED
        BY <2>1
<1>s. script' = <<>> \/ \E i \in DOMAIN Script : script' = SubSeq(Script, i, Len(Script))
    <2>1. CASE pc' = "accept"
        <3>1. PICK i \in 1 .. 7 : script' = Left(i)
            BY <1>i, <2>1 DEF InScript, At
        <3>2. DOMAIN Script = 1 .. 6
            BY ScriptSteps
        <3>3. CASE i = 7
            BY <3>1, <3>3, LeftSteps
        <3>4. CASE i # 7
            <4>1. i \in DOMAIN Script
                BY <3>2, <3>4
            <4>2. script' = SubSeq(Script, i, Len(Script))
                BY <3>1 DEF Left
            <4> HIDE DEF TypeOK
            <4> QED
                BY <4>1, <4>2
        <3> QED
            BY <3>3, <3>4
    <2>2. CASE pc' # "accept"
        <3>1. script' = script
            BY <2>2 DEF Next, Host, Session, Retry, Cancel, Attempt, Command, CommandFails, GiveUp, ReadAck,
                        BioRead, BioTimeout, TakeHeader, TakeBody, Write, BioSend, BioSendFails, Step,
                        Accepted, ReadD4, SendD4, Arrive, Lose, vars, library
        <3> QED
            BY <3>1
    <2> QED
        BY <2>1, <2>2
<1>t. \A i \in DOMAIN stash' : stash'[i].rec \in Frames /\ stash'[i].part \in {"header", "body"}
    <2>1. CASE pc' = "accept"
        <3>1. \A f \in Frames : \A part \in {"header", "body"} : Part(f, part).rec = f /\ Part(f, part).part = part
            BY DEF Part
        <3>2. \/ stash' = <<>> \/ \E f \in Frames : stash' = <<Part(f, "body")>>
              \/ \E f \in Frames : stash' = <<Part(f, "header"), Part(f, "body")>>
            BY <1>p, <2>1 DEF Pieces
        <3> HIDE DEF TypeOK
        <3> QED
            BY <3>1, <3>2
    <2>2. CASE pc' # "accept"
        <3>1. stash' = stash
            BY <2>2 DEF Next, Host, Session, Retry, Cancel, Attempt, Command, CommandFails, GiveUp, ReadAck,
                        BioRead, BioTimeout, TakeHeader, TakeBody, Write, BioSend, BioSendFails, Step,
                        Accepted, ReadD4, SendD4, Arrive, Lose, vars, library
        <3> QED
            BY <3>1
    <2> QED
        BY <2>1, <2>2
<1>n. sensor' \in [att : 0 .. Atts, got : Seq(Recs), linked : BOOLEAN]
    <2>1. CASE BioSend
        BY <2>1, Sent
    <2>r. \A a \in 0 .. Atts : [att |-> a, got |-> <<>>, linked |-> FALSE] \in
                                [att : 0 .. Atts, got : Seq(Recs), linked : BOOLEAN]
        <3>1. <<>> \in Seq(Recs)
            OBVIOUS
        <3> HIDE DEF TypeOK
        <3> QED
            BY <3>1, Zenon
    <2>2. CASE Command
        <3>1. att \in 0 .. Atts
            OBVIOUS
        <3>2. sensor' = [att |-> att, got |-> <<>>, linked |-> FALSE] \/ sensor' = sensor
            BY <2>2 DEF Command, Idle
        <3> QED
            BY <2>r, <3>1, <3>2, Zenon DEF Counted
    <2>3. CASE sensor' = sensor \/ sensor' = Idle
        <3>1. 0 \in 0 .. Atts
            BY Limits DEF Limited
        <3> QED
            BY <2>3, <2>r, <3>1, Zenon DEF Counted, Idle
    <2>4. BioSend \/ Command \/ sensor' = sensor \/ sensor' = Idle
        BY DEF Next, Host, Session, Retry, Cancel, Attempt, CommandFails, GiveUp, Reset, ReadAck,
               BioRead, BioTimeout, TakeHeader, TakeBody, Write, BioSendFails,
               Accepted, ReadD4, SendD4, Arrive, Lose, vars
    <2> QED
        BY <2>1, <2>2, <2>3, <2>4
<1>h. hello' \in 0 .. Atts /\ half' \in Frames \cup {Nothing}
    <2>1. CASE TakeBody
        <3>1. stash # <<>> => Head(stash) = stash[1] /\ 1 \in DOMAIN stash
            <4>1. half # Nothing => stash = <<Part(half, "body")>>
                BY <2>1 DEF TakeBody, Step, Pieces
            <4> HIDE DEF TypeOK
            <4> QED
                BY <2>1, <4>1 DEF TakeBody
        <3>2. Head(stash).rec \in Frames
            BY <2>1, <3>1 DEF TakeBody
        <3>3. Head(stash).rec.att \in 0 .. Atts
            BY <3>2, Limits DEF Frames, Limited
        <3>4. hello' \in {Head(stash).rec.att, hello} /\ half' \in {half, Nothing}
            BY <2>1 DEF TakeBody, GiveUp, library
        <3> QED
            BY <3>3, <3>4
    <2>2. CASE TakeHeader
        <3>1. PICK f \in Frames : stash = <<Part(f, "header"), Part(f, "body")>>
            <4>1. Nothing \notin Frames
                BY DEF Frames, Nothing, Frame, Kinds
            <4> HIDE DEF TypeOK
            <4> QED
                BY <2>2, <4>1 DEF TakeHeader, Step, Pieces
        <3>2. Head(stash).rec = f
            BY <3>1 DEF Part
        <3> QED
            BY <2>2, <3>2 DEF TakeHeader
    <2>3. CASE hello' \in {0, hello} /\ half' \in {half, Nothing}
        BY <2>3
    <2>4. TakeBody \/ TakeHeader \/ (hello' \in {0, hello} /\ half' \in {half, Nothing})
        BY DEF Next, Host, Session, Retry, Cancel, Attempt, Command, CommandFails, GiveUp, ReadAck,
               BioRead, BioTimeout, Write, BioSend, BioSendFails,
               Accepted, ReadD4, SendD4, Arrive, Lose, vars, library
    <2> QED
        BY <2>1, <2>2, <2>3, <2>4
<1>c. /\ pc' \in {"idle", "send", "ack", "accept", "d4", "d4ack", "up", "retry", "failed"}
      /\ cmd' \in 0 .. Len(Upload) /\ att' \in 0 .. Atts /\ gpio' \in BOOLEAN
      /\ reason' \in {"none", "lost", "write", "timeout", "unexpected"}
      /\ waits' \in 0 .. WaitMax
      /\ pc' \notin {"idle", "failed"} => att' >= 1
      /\ pc' = "idle" => att' = 0
      /\ pc' = "retry" => att' < Atts
      /\ pc' \in {"send", "ack"} => cmd' >= 1
    <2>0. /\ pc \in {"idle", "send", "ack", "accept", "d4", "d4ack", "up", "retry", "failed"}
          /\ cmd \in 0 .. 3 /\ att \in 0 .. Atts /\ gpio \in BOOLEAN
          /\ reason \in {"none", "lost", "write", "timeout", "unexpected"}
          /\ waits \in 0 .. WaitMax /\ Len(Upload) = 3
          /\ pc \notin {"idle", "failed"} => att >= 1
          /\ pc = "idle" => att = 0
          /\ pc = "retry" => att < Atts
          /\ pc \in {"send", "ack"} => cmd >= 1
        BY DEF Counted, Upload
    <2> HIDE DEF TypeOK
    <2>1. CASE Session \/ Retry
        BY <2>0, <2>1, Limits DEF Session, Retry, Attempt, library, Limited
    <2>2. CASE Cancel
        BY <2>0, <2>2 DEF Cancel, library
    <2>4. CASE Command
        BY <2>0, <2>4 DEF Command, library
    <2>5. CASE CommandFails
        BY <2>0, <2>5 DEF CommandFails, GiveUp, library
    <2>6. CASE ReadAck
        BY <2>0, <2>6, Limits DEF ReadAck, library, Limited
    <2>7. CASE BioRead
        BY <2>0, <2>7, Limits DEF BioRead, Limited
    <2>8. CASE BioTimeout \/ BioSendFails
        BY <2>0, <2>8 DEF BioTimeout, BioSendFails, Step, GiveUp, library
    <2>9. CASE TakeBody
        BY <2>0, <2>9, Limits DEF TakeBody, Step, GiveUp, library, Limited
    <2>10. CASE TakeHeader
        BY <2>0, <2>10, Limits DEF TakeHeader, Limited
    <2>11. CASE Write \/ BioSend
        BY <2>0, <2>11 DEF Write, BioSend
    <2>12. CASE Accepted \/ ReadD4 \/ \E delivered \in BOOLEAN : SendD4(delivered)
        BY <2>0, <2>12 DEF Accepted, ReadD4, SendD4, library
    <2>13. CASE Arrive \/ Lose \/ UNCHANGED vars
        BY <2>0, <2>13 DEF Arrive, Lose, vars, library
    <2> QED
        BY <2>1, <2>2, <2>4, <2>5, <2>6, <2>7, <2>8, <2>9, <2>10, <2>11, <2>12, <2>13 DEF Next, Host
<1> QED
    BY <1>w, <1>r, <1>s, <1>t, <1>n, <1>h, <1>c DEF Counted

\* The hellos end with ServerHelloDone.
LEMMA HelloSentEnds ==
    ASSUME NEW s \in Seq(Recs), NEW x \in Recs, Append(s, x) = HelloSent
    PROVE  x = "SHD"
<1>1. Len(Append(s, x)) = Len(s) + 1 /\ Append(s, x)[Len(s) + 1] = x
    BY AppendProperties
<1>2. Len(HelloSent) = 3 /\ HelloSent[3] = "SHD"
    BY DEF HelloSent
<1>3. Len(s) + 1 = 3
    BY <1>1, <1>2
<1> QED
    BY <1>1, <1>2, <1>3

\* It is at one step at a time.
LEMMA StepsApart ==
    ASSUME NEW i \in 1 .. 7, NEW j \in 1 .. 7
    PROVE  (At(i) /\ At(j) => i = j) /\ (At(i)' /\ At(j)' => i = j)
BY LeftSteps DEF At

\* A Finished of this attempt is under way only where the library cannot mistake it.
Answered(f) ==
    /\ \E i \in 3 .. 7 : At(i)
    /\ batch \notin Hellos
    /\ ~At(6) /\ ~At(7) => sensor.got = HelloSent /\ sensor.att = f.hello

LEMMA FinishedStep ==
    ASSUME TypeOK, Counted, Pieces, InScript, FinishedAnswers, [Next]_vars
    PROVE  FinishedAnswers'
<1> DEFINE here == Under(bus) \cup Under(due)
           there == Under(bus') \cup Under(due')
<1>w. \A f \in there : f \in here \/ Fresh(f)
    BY WireStep
<1>t. att \in 0 .. Atts /\ att' \in 0 .. Atts /\ \A f \in here : f.att \in Int
    <2>1. Under(bus) \subseteq Frames /\ Under(due) \subseteq Frames
        BY DEF TypeOK, Under
    <2>2. att' \in 0 .. Atts
        BY TypeStep DEF TypeOK
    <2> QED
        BY <2>1, <2>2 DEF TypeOK, Frames
<1>o. /\ \A f \in here : f.att <= att
      /\ pc \in {"send", "ack"} => \A f \in here : ~ThisFinished(f)
      /\ pc = "accept" => \A f \in here \cup Stashed : ThisFinished(f) => Answered(f)
    BY DEF FinishedAnswers, Answered
<1>f. \A f : Fresh(f) => f.att = att /\ (f.kind = "FIN" => pc = "accept" /\ BioSend)
    BY DEF Fresh, BioSend
<1> HIDE DEF here, there
<1>1. \A f \in there : f.att <= att'
    <2>1. att' \in {att, att + 1} \/ (pc = "idle" /\ att' = 1)
        BY DEF Next, Host, Session, Retry, Cancel, Attempt, Command, CommandFails, GiveUp, ReadAck,
               BioRead, BioTimeout, TakeHeader, TakeBody, Write, BioSend, BioSendFails,
               Accepted, ReadD4, SendD4, Arrive, Lose, vars
    <2>2. att <= att'
        BY <1>t, <2>1 DEF Counted
    <2> QED
        BY <1>t, <1>o, <1>w, <1>f, <2>2
<1>2. ASSUME pc' \in {"send", "ack"} PROVE \A f \in there : ~(f.kind = "FIN" /\ f.att = att')
    <2>1. CASE Session \/ Retry
        <3>1. att' = att + 1
            BY <2>1 DEF Session, Retry, Attempt, Counted
        <3>2. \A f \in there : f.att <= att
            BY <1>w, <1>o, <1>f, <1>t
        <3> QED
            BY <1>t, <1>o, <1>w, <1>f, <3>1, <3>2
    <2>2. CASE pc \in {"send", "ack"} /\ att' = att
        BY <1>w, <1>o, <1>f, <2>2 DEF ThisFinished
    <2>3. Session \/ Retry \/ (pc \in {"send", "ack"} /\ att' = att)
        BY <1>2 DEF Next, Host, Cancel, Command, CommandFails, GiveUp, ReadAck,
               BioRead, BioTimeout, TakeHeader, TakeBody, Write, BioSend, BioSendFails, Step,
               Accepted, ReadD4, SendD4, Arrive, Lose, vars
    <2> QED
        BY <2>1, <2>2, <2>3
<1>3. ASSUME pc' = "accept", NEW f \in there \cup Stashed', f.kind = "FIN", f.att = att'
      PROVE  /\ \E i \in 3 .. 7 : At(i)'
             /\ batch' \notin Hellos
             /\ ~At(6)' /\ ~At(7)' => sensor'.got = HelloSent /\ sensor'.att = f.hello
    <2>0. att' = att
        BY <1>3, Accepting
    <2>a. ASSUME f \in here \cup Stashed, pc = "accept" PROVE Answered(f)
        BY <1>o, <1>3, <2>0, <2>a DEF ThisFinished
    <2>b. ~BioSend => f \in here \cup Stashed'
        BY <1>3, <1>w, <1>f
    <2>1. CASE pc = "ack" /\ stash' = <<>>
        <3>1. Stashed' = {}
            BY <2>1 DEF Stashed
        <3>2. ~BioSend
            BY <2>1 DEF BioSend
        <3> QED
            BY <1>o, <1>3, <2>0, <2>1, <2>b, <3>1, <3>2 DEF ThisFinished
    <2>2. CASE /\ BioRead \/ TakeHeader \/ Arrive \/ Lose \/ UNCHANGED vars
               /\ pc = "accept"
        <3>1. script' = script /\ batch' = batch /\ sensor' = sensor
            BY <2>2 DEF BioRead, TakeHeader, Arrive, Lose, vars, library, wire
        <3>2. Stashed' \subseteq Stashed \cup here
            <4>1. CASE TakeHeader
                <5>1. PICK g \in Frames : stash = <<Part(g, "header"), Part(g, "body")>>
                    <6>1. Nothing \notin Frames
                        BY DEF Frames, Nothing, Frame, Kinds
                    <6> QED
                        BY <4>1, <6>1 DEF TakeHeader, Step, Pieces
                <5>2. stash' = <<Part(g, "body")>>
                    BY <4>1, <5>1 DEF TakeHeader, Rest
                <5> QED
                    BY <5>1, <5>2 DEF Stashed, Part
            <4>2. CASE BioRead
                <5>1. bus # <<>> => Head(bus) \in here
                    BY UnderTail DEF TypeOK, here
                <5>2. stash' = stash \/ (stash' = <<Part(Head(bus), "header"), Part(Head(bus), "body")>> /\ bus # <<>>)
                    BY <4>2 DEF BioRead
                <5> QED
                    BY <5>1, <5>2 DEF Stashed, Part
            <4>3. CASE stash' = stash
                BY <4>3 DEF Stashed
            <4> QED
                BY <2>2, <4>1, <4>2, <4>3 DEF Arrive, Lose, vars, library
        <3>3. f \in here \cup Stashed
            <4>1. ~BioSend
                <5> SUFFICES ASSUME BioSend PROVE FALSE
                    OBVIOUS
                <5>1. batch # <<>> /\ batch \in Seq(Recs) /\ batch' = Tail(batch)
                    <6>1. batch \in Hellos \cup Finisheds
                        BY <2>2, Sent DEF InScript
                    <6>2. Hellos \cup Finisheds \subseteq Seq(Recs)
                        BY DEF Hellos, Finisheds, Recs
                    <6> QED
                        BY <6>1, <6>2, Sent
                <5>2. Len(Tail(batch)) = Len(batch) - 1 /\ Len(batch) \in Nat
                    BY <5>1, HeadTailProperties
                <5> QED
                    BY <3>1, <5>1, <5>2
            <4> QED
                BY <2>b, <3>2, <4>1
        <3> QED
            BY <2>2, <2>a, <3>1, <3>3 DEF Answered, At
    <2>3. CASE TakeBody /\ Wanted(Head(stash).rec)
        <3>1. PICK i \in {1, 3, 4, 5} : At(i) /\ Tail(script) = Left(i + 1)
            BY <2>3, Reading DEF TakeBody
        <3>2. script' = Left(i + 1) /\ batch = <<>> /\ batch' = <<>> /\ sensor' = sensor /\ pc = "accept" /\ stash' = Rest
            BY <2>3, <3>1 DEF TakeBody, Step, Wanted, wire
        <3>3. Stashed' = {}
            <4>1. half \in Frames /\ stash = <<Part(half, "body")>>
                BY <2>3 DEF TakeBody, Step, Pieces
            <4>2. stash' = <<>>
                BY <3>2, <4>1 DEF Rest
            <4> QED
                BY <4>2 DEF Stashed
        <3>4. Answered(f)
            <4>1. ~BioSend
                BY <3>2 DEF BioSend
            <4> QED
                BY <2>a, <2>b, <3>2, <3>3, <4>1
        <3>5. i # 1 /\ ~At(6) /\ ~At(7)
            BY <3>1, <3>4, StepsApart DEF Answered
        <3> QED
            BY <3>1, <3>2, <3>4, <3>5 DEF Answered, At, Hellos
    <2>4. CASE Write
        <3>1. PICK i \in {2, 6} : At(i) /\ Head(script) = Script[i] /\ Tail(script) = Left(i + 1)
            BY <2>4, Writing DEF Write
        <3>2. /\ script' = Left(i + 1) /\ batch' = Script[i].recs /\ pc = "accept" /\ batch = <<>>
              /\ stash' = stash
            BY <2>4, <3>1 DEF Write, Step
        <3>3. Answered(f)
            <4>1. ~BioSend /\ Stashed' = Stashed
                BY <3>2 DEF BioSend, Stashed
            <4> QED
                BY <2>a, <2>b, <3>2, <4>1
        <3>4. i = 6
            BY <3>1, <3>3, StepsApart DEF Answered
        <3>5. script' = Left(7) /\ batch' \notin Hellos
            BY <3>2, <3>4, ScriptSteps DEF Hellos
        <3> QED
            BY <3>5 DEF At
    <2>5. CASE BioSend
        <3>1. pc = "accept" /\ script' = script /\ stash' = stash /\ batch # <<>>
            BY <2>5 DEF BioSend
        <3>2. /\ batch' = Tail(batch) /\ sensor'.att = sensor.att /\ Head(batch) \in Recs
              /\ sensor'.got = Append(sensor.got, Head(batch))
            BY <2>5, Sent
        <3>3. CASE At(7) /\ batch \in Finisheds
            <4>1. Tail(<<"CCS", "FINISHED">>) = <<"FINISHED">> /\ Tail(<<"FINISHED">>) = <<>>
                OBVIOUS
            <4>2. batch' = <<"FINISHED">> \/ batch' = <<>>
                BY <3>2, <3>3, <4>1, Zenon DEF Finisheds
            <4>3. batch' \notin Hellos
                BY <4>2 DEF Hellos
            <4> QED
                BY <3>1, <3>3, <4>3 DEF At
        <3>4. CASE At(3) /\ batch \in Hellos
            <4>1. ~Answered(f)
                BY <3>4 DEF Answered
            <4>2. Fresh(f)
                BY <1>3, <1>w, <2>a, <3>1, <4>1 DEF Stashed
            <4>3. sensor'.got = HelloSent /\ f.hello = sensor.att
                BY <1>3, <4>2 DEF Fresh
            <4>4. Head(batch) = "SHD"
                <5>1. sensor.got \in Seq(Recs)
                    BY DEF Counted
                <5> QED
                    BY <3>2, <4>3, <5>1, HelloSentEnds
            <4>5. batch' \notin Hellos
                <5>1. /\ Head(<<"SH", "SKE", "SHD">>) = "SH" /\ Head(<<"SKE", "SHD">>) = "SKE"
                      /\ Tail(<<"SHD">>) = <<>>
                    OBVIOUS
                <5>2. batch = <<"SHD">>
                    BY <3>4, <4>4, <5>1 DEF Hellos
                <5>3. batch' = <<>>
                    BY <3>2, <5>1, <5>2
                <5> QED
                    BY <5>3 DEF Hellos
            <4> QED
                BY <3>1, <3>2, <3>4, <4>3, <4>5 DEF At
        <3> QED
            BY <3>1, <3>3, <3>4 DEF InScript
    <2> QED
        BY <1>3, <2>1, <2>2, <2>3, <2>4, <2>5, Accepting
<1> QED
    BY <1>1, <1>2, <1>3 DEF FinishedAnswers, ThisFinished, here, there

\* What the sensor has got after each record.
LEMMA AppendOne ==
    ASSUME NEW s \in Seq(Recs), NEW t \in Seq(Recs), NEW x \in Recs,
           Len(t) = Len(s) + 1, \A i \in 1 .. Len(s) : s[i] = t[i], t[Len(t)] = x
    PROVE  Append(s, x) = t
<1>1. /\ Append(s, x) \in Seq(Recs) /\ Len(Append(s, x)) = Len(s) + 1
      /\ \A i \in 1 .. Len(s) : Append(s, x)[i] = s[i]
      /\ Append(s, x)[Len(s) + 1] = x
    BY AppendProperties
<1>2. \A i \in 1 .. Len(s) + 1 : i \in 1 .. Len(s) \/ i = Len(s) + 1
    OBVIOUS
<1> QED
    BY <1>1, <1>2, SeqEqual

\* What it has got after the hellos, one by one ...
LEMMA HellosSent ==
    /\ Append(<<>>, "SH") = <<"SH">> /\ Append(<<"SH">>, "SKE") = <<"SH", "SKE">>
    /\ Append(<<"SH", "SKE">>, "SHD") = HelloSent
<1>1. {<<>>, <<"SH">>, <<"SH", "SKE">>, HelloSent} \subseteq Seq(Recs)
    BY DEF Recs, HelloSent
<1>2. "SH" \in Recs /\ "SKE" \in Recs /\ "SHD" \in Recs
    BY DEF Recs
<1>3. Append(<<>>, "SH") = <<"SH">>
    OBVIOUS
<1>4. Append(<<"SH">>, "SKE") = <<"SH", "SKE">>
    <2> DEFINE s == <<"SH">>
               t == <<"SH", "SKE">>
    <2>1. Len(s) = 1 /\ Len(t) = 2 /\ s[1] = t[1] /\ t[2] = "SKE" /\ s \in Seq(Recs) /\ t \in Seq(Recs)
        BY <1>1
    <2> HIDE DEF s, t
    <2>2. Len(t) = Len(s) + 1 /\ \A i \in 1 .. Len(s) : s[i] = t[i]
        BY <2>1
    <2>3. t[Len(t)] = "SKE"
        BY <2>1
    <2>4. Append(s, "SKE") = t
        BY <1>2, <2>1, <2>2, <2>3, AppendOne, Zenon
    <2> QED
        BY <2>4 DEF s, t
<1>5. Append(<<"SH", "SKE">>, "SHD") = HelloSent
    <2> DEFINE s == <<"SH", "SKE">>
               t == HelloSent
    <2>1. /\ Len(s) = 2 /\ Len(t) = 3 /\ s[1] = t[1] /\ s[2] = t[2] /\ t[3] = "SHD"
          /\ s \in Seq(Recs) /\ t \in Seq(Recs)
        BY <1>1 DEF HelloSent
    <2> HIDE DEF s, t
    <2>2. Len(t) = Len(s) + 1 /\ \A i \in 1 .. Len(s) : s[i] = t[i]
        <3>1. \A i \in 1 .. 2 : i = 1 \/ i = 2
            OBVIOUS
        <3> QED
            BY <2>1, <3>1
    <2>3. Append(s, "SHD") = t
        BY <1>2, <2>1, <2>2, AppendOne
    <2> QED
        BY <2>3 DEF s, t
<1> QED
    BY <1>3, <1>4, <1>5

\* ... and after all that the library writes.
LEMMA WholeSent ==
    Append(Append(HelloSent, "CCS"), "FINISHED") = <<"SH", "SKE", "SHD", "CCS", "FINISHED">>
<1> DEFINE s == Append(HelloSent, "CCS")
           t == <<"SH", "SKE", "SHD", "CCS", "FINISHED">>
<1>1. /\ HelloSent \in Seq(Recs) /\ Len(HelloSent) = 3 /\ "CCS" \in Recs /\ "FINISHED" \in Recs
      /\ HelloSent[1] = "SH" /\ HelloSent[2] = "SKE" /\ HelloSent[3] = "SHD"
    BY DEF HelloSent, Recs
<1>a. \A seq \in Seq(Recs) : \A x \in Recs :
         /\ Append(seq, x) \in Seq(Recs) /\ Len(Append(seq, x)) = Len(seq) + 1
         /\ \A i \in 1 .. Len(seq) : Append(seq, x)[i] = seq[i]
         /\ Append(seq, x)[Len(seq) + 1] = x
    BY AppendProperties
<1>2. /\ s \in Seq(Recs) /\ Len(s) = 4 /\ s[4] = "CCS"
      /\ s[1] = "SH" /\ s[2] = "SKE" /\ s[3] = "SHD"
    <2>1. /\ s \in Seq(Recs) /\ Len(s) = Len(HelloSent) + 1
          /\ \A i \in 1 .. Len(HelloSent) : s[i] = HelloSent[i]
          /\ s[Len(HelloSent) + 1] = "CCS"
        BY <1>1, <1>a, Zenon
    <2> HIDE DEF s
    <2>2. 3 + 1 = 4 /\ 1 \in 1 .. 3 /\ 2 \in 1 .. 3 /\ 3 \in 1 .. 3
        OBVIOUS
    <2> QED
        BY <1>1, <2>1, <2>2
<1> HIDE DEF s
<1>3. /\ Append(s, "FINISHED") \in Seq(Recs) /\ Len(Append(s, "FINISHED")) = 5
      /\ Append(s, "FINISHED")[5] = "FINISHED"
      /\ \A i \in 1 .. 4 : Append(s, "FINISHED")[i] = s[i]
    <2>1. /\ Append(s, "FINISHED") \in Seq(Recs) /\ Len(Append(s, "FINISHED")) = Len(s) + 1
          /\ \A i \in 1 .. Len(s) : Append(s, "FINISHED")[i] = s[i]
          /\ Append(s, "FINISHED")[Len(s) + 1] = "FINISHED"
        BY <1>1, <1>2, <1>a, Zenon
    <2>2. 4 + 1 = 5
        OBVIOUS
    <2> QED
        BY <1>2, <2>1, <2>2
<1>4. /\ t \in Seq(Recs) /\ Len(t) = 5 /\ t[5] = "FINISHED" /\ t[4] = "CCS"
      /\ t[1] = "SH" /\ t[2] = "SKE" /\ t[3] = "SHD"
    BY DEF Recs
<1> HIDE DEF t
<1>5. \A i \in 1 .. 5 : Append(s, "FINISHED")[i] = t[i]
    <2>1. \A i \in 1 .. 5 : i = 1 \/ i = 2 \/ i = 3 \/ i = 4 \/ i = 5
        OBVIOUS
    <2> QED
        BY <1>2, <1>3, <1>4, <2>1
<1>6. Append(s, "FINISHED") = t
    BY <1>3, <1>4, <1>5
<1> QED
    BY <1>6 DEF s, t

\* Once the Finished is read, the sensor waits for the answer or has it.
LEMMA FinishingStep ==
    ASSUME TypeOK, Counted, Pieces, InScript, FinishedAnswers, Finishing, [Next]_vars
    PROVE  Finishing'
<1> SUFFICES ASSUME pc' = "accept", At(6)' \/ At(7)'
             PROVE  /\ sensor'.att = hello'
                    /\ sensor'.linked \/ \/ At(6)' /\ sensor'.got = HelloSent
                                         \/ At(7)' /\ <<sensor'.got, batch'>> \in
                                              {<<HelloSent, <<"CCS", "FINISHED">>>>,
                                               <<Append(HelloSent, "CCS"), <<"FINISHED">>>>}
    BY DEF Finishing, HelloSent
<1>1. CASE pc = "ack" /\ script' = Script
    BY <1>1, LeftSteps DEF At
<1>2. CASE /\ BioRead \/ TakeHeader \/ Arrive \/ Lose \/ UNCHANGED vars
           /\ pc = "accept"
    <2>1. script' = script /\ batch' = batch /\ sensor' = sensor /\ hello' = hello
        BY <1>2 DEF BioRead, TakeHeader, Arrive, Lose, vars, library, wire
    <2> QED
        BY <1>2, <2>1 DEF Finishing, At
<1>3. CASE TakeBody /\ Wanted(Head(stash).rec)
    <2>1. PICK i \in {1, 3, 4, 5} : At(i) /\ Head(script) = Script[i] /\ Tail(script) = Left(i + 1)
        BY <1>3, Reading DEF TakeBody
    <2>2. /\ script' = Left(i + 1) /\ sensor' = sensor /\ pc = "accept" /\ stash # <<>>
          /\ Head(stash).rec.kind # "CH" => hello' = hello
        BY <1>3, <2>1 DEF TakeBody, Step, Wanted
    <2>3. i = 5
        <3>1. i + 1 \in 1 .. 7
            OBVIOUS
        <3>3. \A j \in 1 .. 7 : Left(i + 1) = Left(j) => i + 1 = j
            BY <3>1, LeftSteps, Zenon
        <3>2. i + 1 = 6 \/ i + 1 = 7
            BY <2>2, <3>3 DEF At
        <3> QED
            BY <3>2
    <2> DEFINE f == Head(stash).rec
    <2>4. f.kind = "FIN" /\ f.att = att /\ f.hello = hello
        BY <1>3, <2>1, <2>3, ScriptSteps DEF Wanted
    <2>5. f \in Stashed
        <3>1. half \in Frames /\ stash = <<Part(half, "body")>>
            BY <1>3 DEF TakeBody, Step, Pieces
        <3> QED
            BY <3>1 DEF Stashed
    <2>6. ~At(6) /\ ~At(7)
        BY <2>1, <2>3, StepsApart
    <2>7. sensor.got = HelloSent /\ sensor.att = f.hello
        BY <2>2, <2>4, <2>5, <2>6 DEF FinishedAnswers, ThisFinished
    <2> QED
        BY <2>2, <2>3, <2>4, <2>7 DEF At
<1>4. CASE Write
    <2>1. PICK i \in {2, 6} : At(i) /\ Head(script) = Script[i] /\ Tail(script) = Left(i + 1)
        BY <1>4, Writing DEF Write
    <2>2. /\ script' = Left(i + 1) /\ batch' = Script[i].recs /\ pc = "accept"
          /\ sensor' = sensor /\ hello' = hello
        BY <1>4, <2>1 DEF Write, Step
    <2>3. i = 6
        <3>1. i + 1 \in 1 .. 7
            OBVIOUS
        <3>3. \A j \in 1 .. 7 : Left(i + 1) = Left(j) => i + 1 = j
            BY <3>1, LeftSteps, Zenon
        <3>2. i + 1 = 6 \/ i + 1 = 7
            BY <2>2, <3>3 DEF At
        <3> QED
            BY <3>2
    <2>4. batch' = <<"CCS", "FINISHED">> /\ At(6) /\ ~At(7) /\ At(7)'
        BY <2>1, <2>2, <2>3, StepsApart, ScriptSteps DEF At
    <2> QED
        BY <2>2, <2>4 DEF Finishing
<1>5. CASE BioSend
    <2>1. pc = "accept" /\ script' = script /\ hello' = hello
        BY <1>5 DEF BioSend
    <2>2. /\ batch' = Tail(batch) /\ sensor'.att = sensor.att /\ batch # <<>>
          /\ sensor'.got = Append(sensor.got, Head(batch))
          /\ sensor'.linked = (sensor.linked \/ sensor'.got = <<"SH", "SKE", "SHD", "CCS", "FINISHED">>)
        BY <1>5, Sent
    <2>3. At(7) /\ ~At(6) /\ At(7)'
        <3>1. At(6) \/ At(7)
            BY <2>1 DEF At
        <3>2. ~At(3)
            BY <3>1, StepsApart
        <3> QED
            BY <2>1, <2>2, <3>2, StepsApart DEF InScript, At
    <2>4. CASE sensor.linked
        BY <2>1, <2>2, <2>3, <2>4 DEF Finishing
    <2>5. CASE sensor.got = HelloSent /\ batch = <<"CCS", "FINISHED">>
        <3>1. sensor'.got = Append(HelloSent, "CCS") /\ batch' = <<"FINISHED">>
            BY <2>2, <2>5
        <3> QED
            BY <2>1, <2>2, <2>3, <3>1 DEF Finishing
    <2>6. CASE sensor.got = Append(HelloSent, "CCS") /\ batch = <<"FINISHED">>
        <3>1. sensor'.got = <<"SH", "SKE", "SHD", "CCS", "FINISHED">>
            <4>1. Head(batch) = "FINISHED"
                BY <2>6
            <4> QED
                BY <2>2, <2>6, <4>1, WholeSent
        <3> QED
            BY <2>1, <2>2, <2>3, <3>1 DEF Finishing
    <2> QED
        <3>1. \/ sensor.linked
              \/ <<sensor.got, batch>> \in {<<HelloSent, <<"CCS", "FINISHED">>>>,
                                           <<Append(HelloSent, "CCS"), <<"FINISHED">>>>}
            BY <2>1, <2>3 DEF Finishing
        <3> QED
            BY <2>4, <2>5, <2>6, <3>1, Zenon
<1> QED
    BY <1>1, <1>2, <1>3, <1>4, <1>5, Accepting

\* The call goes on to 0xD4 only after the last step of the script.
LEMMA UpStep ==
    ASSUME InScript, Finishing, UpOnBothSides, [Next]_vars
    PROVE  UpOnBothSides'
<1> SUFFICES ASSUME pc' \in {"d4", "d4ack", "up"}
             PROVE  sensor'.linked /\ sensor'.att = hello'
    BY DEF UpOnBothSides
<1>1. CASE Accepted
    <2>1. pc = "accept" /\ script = <<>> /\ batch = <<>> /\ sensor' = sensor /\ hello' = hello
        BY <1>1 DEF Accepted, library
    <2>2. At(7) /\ ~At(6)
        BY <2>1, LeftSteps DEF At
    <2>3. <<sensor.got, batch>> \notin {<<HelloSent, <<"CCS", "FINISHED">>>>,
                                       <<Append(HelloSent, "CCS"), <<"FINISHED">>>>}
        BY <2>1
    <2> QED
        BY <2>1, <2>2, <2>3 DEF Finishing
<1>2. CASE pc \in {"d4", "d4ack", "up"} /\ sensor' = sensor /\ hello' = hello
    BY <1>2 DEF UpOnBothSides
<1>3. Accepted \/ (pc \in {"d4", "d4ack", "up"} /\ sensor' = sensor /\ hello' = hello)
    BY DEF Next, Host, Session, Retry, Cancel, Attempt, Command, CommandFails, GiveUp, ReadAck,
           BioRead, BioTimeout, TakeHeader, TakeBody, Write, BioSend, BioSendFails, Step,
           ReadD4, SendD4, Arrive, Lose, vars, library
<1> QED
    BY <1>1, <1>2, <1>3

-----------------------------------------------------------------------------
(* The line, with a reset line and nothing gone wrong. *)

\* The line when a frame is taken from the bus, when one arrives, and after a reset.
LEMMA LineHead ==
    ASSUME NEW b \in Seq(Frames), NEW d \in Seq(Frames), b # <<>>
    PROVE  b \o d # <<>> /\ Head(b \o d) = Head(b) /\ Tail(b) \o d = Tail(b \o d)
<1>1. /\ b \o d \in Seq(Frames) /\ Len(b \o d) = Len(b) + Len(d)
      /\ \A i \in 1 .. Len(b) + Len(d) : (b \o d)[i] = IF i <= Len(b) THEN b[i] ELSE d[i - Len(b)]
    BY ConcatProperties
<1>2. /\ Tail(b) \in Seq(Frames) /\ Len(Tail(b)) = Len(b) - 1 /\ Len(b) >= 1
      /\ \A i \in 1 .. Len(b) - 1 : Tail(b)[i] = b[i + 1]
      /\ Len(b) \in Nat /\ Len(d) \in Nat /\ Head(b) = b[1]
    BY HeadTailProperties
<1>3. b \o d # <<>> /\ 1 \in 1 .. Len(b) + Len(d) /\ 1 <= Len(b)
    BY <1>1, <1>2
<1>4. Head(b \o d) = (b \o d)[1] /\ (b \o d)[1] = b[1]
    BY <1>1, <1>3
<1>5. /\ Tail(b) \o d \in Seq(Frames) /\ Len(Tail(b) \o d) = Len(b) - 1 + Len(d)
      /\ \A i \in 1 .. Len(b) - 1 + Len(d) :
            (Tail(b) \o d)[i] = IF i <= Len(b) - 1 THEN Tail(b)[i] ELSE d[i - (Len(b) - 1)]
    BY <1>2, ConcatProperties
<1> DEFINE c == b \o d
           e == Tail(b) \o d
<1>6. /\ Tail(c) \in Seq(Frames) /\ Len(Tail(c)) = Len(b) + Len(d) - 1
      /\ \A i \in 1 .. Len(b) + Len(d) - 1 : Tail(c)[i] = c[i + 1]
    BY <1>1, <1>3, HeadTailProperties
<1> HIDE DEF c, e
<1>7. \A i \in 1 .. Len(b) - 1 + Len(d) : e[i] = Tail(c)[i]
    <2> SUFFICES ASSUME NEW i \in 1 .. Len(b) - 1 + Len(d) PROVE e[i] = Tail(c)[i]
        OBVIOUS
    <2>1. i \in 1 .. Len(b) + Len(d) - 1 /\ i + 1 \in 1 .. Len(b) + Len(d)
        BY <1>2
    <2>2. Tail(c)[i] = IF i + 1 <= Len(b) THEN b[i + 1] ELSE d[i + 1 - Len(b)]
        BY <1>1, <1>6, <2>1 DEF c
    <2>3. CASE i <= Len(b) - 1
        <3>1. i \in 1 .. Len(b) - 1 /\ i + 1 <= Len(b)
            BY <1>2, <2>3
        <3> QED
            BY <1>2, <1>5, <2>2, <2>3, <3>1 DEF e
    <2>4. CASE ~(i <= Len(b) - 1)
        <3>1. ~(i + 1 <= Len(b)) /\ i - (Len(b) - 1) = i + 1 - Len(b)
            BY <1>2, <2>4
        <3> QED
            BY <1>5, <2>2, <2>4, <3>1 DEF e
    <2> QED
        BY <2>3, <2>4
<1>8. e = Tail(c)
    <2>1. e \in Seq(Frames) /\ Len(e) = Len(Tail(c)) /\ Len(e) = Len(b) - 1 + Len(d)
        BY <1>2, <1>5, <1>6 DEF e
    <2> QED
        BY <1>6, <1>7, <2>1, SeqEqual
<1> QED
    BY <1>2, <1>3, <1>4, <1>8 DEF c, e

LEMMA LineArrives ==
    ASSUME NEW b \in Seq(Frames), NEW d \in Seq(Frames), d # <<>>
    PROVE  Append(b, Head(d)) \o Tail(d) = b \o d
<1>1. Head(d) \in Frames /\ Tail(d) \in Seq(Frames) /\ <<Head(d)>> \in Seq(Frames)
    BY UnderTail, UnderOne
<1>2. Append(b, Head(d)) = b \o <<Head(d)>>
    BY <1>1, AppendIsConcat
<1>3. (b \o <<Head(d)>>) \o Tail(d) = b \o (<<Head(d)>> \o Tail(d))
    BY <1>1, ConcatAssociative
<1>4. <<Head(d)>> \o Tail(d) = d
    BY ConcatSimplifications, HeadTailProperties
<1> QED
    BY <1>2, <1>3, <1>4

LEMMA LineEmpty ==
    ASSUME NEW d \in Seq(Frames)
    PROVE  <<>> \o d = d
BY ConcatEmptySeq

\* The order on the line after the steps that change it.
OnWire(line, kinds, a) == \E k \in 0 .. Len(line) : Ordered(line, k, kinds, a)

LEMMA OnWireIs ==
    ASSUME NEW kinds
    PROVE  /\ OnLine(kinds) => OnWire(Line, kinds, att)
           /\ pc # "ack" /\ OnWire(Line, kinds, att) => OnLine(kinds)
           /\ pc' # "ack" /\ OnWire(Line', kinds, att') => OnLine(kinds)'
BY DEF OnLine, OnWire

\* What is still to come, step by step.
LEMMA ToComeSteps ==
    /\ \A i \in 1 .. 7 : ToCome[i] \in Seq(Kinds)
    /\ \A i \in {1, 3, 4, 5} : /\ ToCome[i] # <<>> /\ Tail(ToCome[i]) = ToCome[i + 1]
                                 /\ ToCome[i][1] = Script[i].recs[1] /\ ToCome[i][1] # "ack"
    /\ ToCome[2] = <<>> /\ ToCome[6] = <<>> /\ ToCome[7] = <<>>
    /\ ToCome[1] = <<"CH">> /\ ToCome[3] = <<"CKE", "CCS", "FIN">>
    /\ ToCome[1][1] = "CH" /\ ToCome[3][1] = "CKE" /\ ToCome[4][1] = "CCS" /\ ToCome[5][1] = "FIN"
<1>1. /\ ToCome[1] = <<"CH">> /\ ToCome[2] = <<>> /\ ToCome[3] = <<"CKE", "CCS", "FIN">>
      /\ ToCome[4] = <<"CCS", "FIN">> /\ ToCome[5] = <<"FIN">> /\ ToCome[6] = <<>> /\ ToCome[7] = <<>>
    BY DEF ToCome
<1>2. {"CH", "CKE", "CCS", "FIN"} \subseteq Kinds
    BY DEF Kinds
<1>3. \A i \in 1 .. 7 : ToCome[i] \in Seq(Kinds)
    <2>1. {<<"CH">>, <<>>, <<"CKE", "CCS", "FIN">>, <<"CCS", "FIN">>, <<"FIN">>} \subseteq Seq(Kinds)
        BY <1>2
    <2>2. \A i \in 1 .. 7 : i = 1 \/ i = 2 \/ i = 3 \/ i = 4 \/ i = 5 \/ i = 6 \/ i = 7
        OBVIOUS
    <2> QED
        BY <1>1, <2>1, <2>2
<1>4. \A i \in {1, 3, 4, 5} : ToCome[i] # <<>> /\ Tail(ToCome[i]) = ToCome[i + 1]
    <2>1. /\ Tail(<<"CH">>) = <<>> /\ Tail(<<"CKE", "CCS", "FIN">>) = <<"CCS", "FIN">>
          /\ Tail(<<"CCS", "FIN">>) = <<"FIN">> /\ Tail(<<"FIN">>) = <<>>
        OBVIOUS
    <2>2. /\ Tail(ToCome[1]) = ToCome[2] /\ Tail(ToCome[3]) = ToCome[4]
          /\ Tail(ToCome[4]) = ToCome[5] /\ Tail(ToCome[5]) = ToCome[6]
        BY <1>1, <2>1, Zenon
    <2>3. \A i \in {1, 3, 4, 5} : ToCome[i] # <<>>
        BY <1>1
    <2>4. ASSUME NEW i \in {1, 3, 4, 5} PROVE Tail(ToCome[i]) = ToCome[i + 1]
        <3>1. \/ (i = 1 /\ i + 1 = 2) \/ (i = 3 /\ i + 1 = 4)
              \/ (i = 4 /\ i + 1 = 5) \/ (i = 5 /\ i + 1 = 6)
            OBVIOUS
        <3> QED
            BY <2>2, <3>1, Zenon
    <2> QED
        BY <2>3, <2>4
<1>5. \A i \in {1, 3, 4, 5} : ToCome[i][1] = Script[i].recs[1] /\ ToCome[i][1] # "ack"
    BY <1>1, ScriptSteps
<1>6. ToCome[1][1] = "CH" /\ ToCome[3][1] = "CKE" /\ ToCome[4][1] = "CCS" /\ ToCome[5][1] = "FIN"
    BY <1>1
<1> QED
    BY <1>1, <1>3, <1>4, <1>5, <1>6

\* What the library reads after its hellos.
LEMMA AfterHellos == ToCome[3] \in Seq(Kinds)
<1>1. 3 \in 1 .. 7
    OBVIOUS
<1> QED
    BY <1>1, ToComeSteps, Zenon

\* OnScript, at a given step.
Scripted(i) ==
    /\ sensor.att = att
    /\ i \in {1, 2} => sensor.got = <<>>
    /\ i = 3 => <<sensor.got, batch>> \in
                  {<<(<<>>), HelloSent>>, <<(<<"SH">>), <<"SKE", "SHD">>>>,
                   <<(<<"SH", "SKE">>), <<"SHD">>>>, <<HelloSent, <<>>>>}
    /\ i = 1 \/ hello = att
    /\ IF batch # <<>> THEN stash = <<>> /\ OnLine(<<>>)
       ELSE IF stash = <<>> THEN OnLine(ToCome[i])
       ELSE /\ ToCome[i] # <<>> /\ OnLine(ToCome[i + 1])
            /\ Head(stash).rec = Frame(ToCome[i][1], att, att)

LEMMA ScriptedHere ==
    ASSUME OnScript, NEW i \in 1 .. 7, At(i)
    PROVE  Scripted(i)
<1>1. i = 1 => At(1)
    OBVIOUS
<1>2. (i = 2 => At(2)) /\ (i = 3 => At(3))
    OBVIOUS
<1>3. At(1) => i = 1
    BY StepsApart
<1> QED
    BY <1>1, <1>2, <1>3 DEF OnScript, Scripted

LEMMA ScriptedThere ==
    ASSUME NEW i \in 1 .. 7, At(i)', Scripted(i)'
    PROVE  OnScript'
<1>1. \A j \in 1 .. 7 : At(j)' => j = i
    BY StepsApart
<1>2. (At(1)' => i = 1) /\ (At(2)' => i = 2) /\ (At(3)' => i = 3) /\ (i = 1 => At(1)')
    BY <1>1
<1> QED
    BY <1>1, <1>2 DEF OnScript, Scripted

\* A read of the bus takes the first frame of the line, or none.
LEMMA LineRead ==
    ASSUME TypeOK, ReadAny, due' = due
    PROVE  /\ Line \in Seq(Frames)
           /\ bus = <<>> => Line' = Line
           /\ bus # <<>> => Line # <<>> /\ Head(Line) = Head(bus) /\ Line' = Tail(Line)
<1>1. bus \in Seq(Frames) /\ due \in Seq(Frames)
    BY DEF TypeOK
<1>2. Line = bus \o due /\ Line' = bus' \o due
    BY DEF Line
<1>3. Line \in Seq(Frames)
    BY <1>1, <1>2, ConcatProperties
<1>4. bus = <<>> => bus' = bus
    BY DEF ReadAny
<1>5. bus # <<>> => bus' = Tail(bus)
    BY DEF ReadAny
<1>6. bus # <<>> => Line # <<>> /\ Head(Line) = Head(bus) /\ Tail(bus) \o due = Tail(Line)
    BY <1>1, <1>2, LineHead
<1> QED
    BY <1>2, <1>3, <1>4, <1>5, <1>6

\* An acknowledgement that is waited for is read, or still on its way.
LEMMA AckRead ==
    ASSUME TypeOK, ReadAny, due' = due, NEW k \in Nat, NEW kinds \in Seq(Kinds), NEW a,
           Ordered(Line, k, kinds, a), k >= 1
    PROVE  OnWire(Line', kinds, a)
<1>1. Line \in Seq(Frames) /\ Len(Line) \in Nat /\ Len(kinds) \in Nat
    BY LineRead
<1>2. CASE bus = <<>>
    <2>1. Line' = Line /\ k \in 0 .. Len(Line)
        BY <1>1, <1>2, LineRead DEF Ordered
    <2> QED
        BY <2>1 DEF OnWire
<1>3. CASE bus # <<>>
    <2>1. Line' = Tail(Line) /\ Ordered(Tail(Line), k - 1, kinds, a)
        BY <1>1, <1>3, LineRead, OrderedTail
    <2>2. k - 1 \in 0 .. Len(Line')
        <3>1. Len(Line') = k - 1 + Len(kinds)
            BY <2>1 DEF Ordered
        <3> QED
            BY <1>1, <3>1
    <2> QED
        BY <2>1, <2>2 DEF OnWire
<1> QED
    BY <1>2, <1>3

\* Frames that are sent come behind the acknowledgements.
LEMMA LineSent ==
    ASSUME TypeOK, bus' = bus, NEW t \in Seq(Frames), due' = due \o t,
           NEW k \in Nat, NEW m \in Nat, NEW kinds \in Seq(Kinds), NEW a,
           Ordered(Line, k, <<>>, a), Ordered(t, m, kinds, a)
    PROVE  Ordered(Line', k + m, kinds, a) /\ k + m \in 0 .. Len(Line')
<1>1. bus \in Seq(Frames) /\ due \in Seq(Frames) /\ Line = bus \o due /\ Line \in Seq(Frames)
    BY ConcatProperties DEF TypeOK, Line
<1>2. Line' = bus \o (due \o t)
    BY DEF Line
<1>3. Line' = Line \o t
    <2>1. (bus \o due) \o t = bus \o (due \o t)
        BY <1>1, ConcatAssociative, SMTT(30)
    <2> QED
        BY <1>1, <1>2, <2>1
<1>4. Ordered(Line', k + m, kinds, a)
    BY <1>1, <1>3, OrderedConcat
<1>5. Len(Line') = k + m + Len(kinds) /\ Len(kinds) \in Nat
    BY <1>4 DEF Ordered
<1> QED
    BY <1>4, <1>5

\* The script goes on in order.
LEMMA OnScriptStep ==
    ASSUME TypeOK, Counted, Pieces, InScript, Finishing, OnScript,
           pc = "accept", pc' = "accept", [Next]_vars, ~Lose
    PROVE  OnScript'
<1>0. att' = att
    BY Accepting
<1>e. \A kinds : OnWire(Line', kinds, att) => OnLine(kinds)'
    BY <1>0, OnWireIs
<1>1. CASE UNCHANGED vars
    BY <1>1 DEF vars, library, wire, OnScript, At, OnLine, Line
<1>2. CASE Arrive
    <2>1. Line' = Line
        <3>1. bus \in Seq(Frames) /\ due \in Seq(Frames) /\ due # <<>>
            BY <1>2 DEF TypeOK, Arrive
        <3> QED
            BY <1>2, <3>1, LineArrives DEF Arrive, Line
    <2>2. /\ script' = script /\ batch' = batch /\ hello' = hello /\ stash' = stash
          /\ sensor' = sensor /\ pc' = pc
        BY <1>2 DEF Arrive, library
    <2> QED
        BY <1>0, <2>1, <2>2 DEF OnScript, At, OnLine
<1>3. CASE BioRead
    <2>1. PICK i \in {1, 3, 4, 5} : At(i)
        BY <1>3, Reading DEF BioRead
    <2>2. /\ script' = script /\ batch = <<>> /\ batch' = <<>> /\ hello' = hello /\ sensor' = sensor
          /\ stash = <<>> /\ ReadAny /\ due' = due
        BY <1>3 DEF BioRead, Step
    <2>3. Scripted(i) /\ OnLine(ToCome[i])
        BY <2>1, <2>2, ScriptedHere DEF Scripted
    <2>4. PICK k \in 0 .. Len(Line) : Ordered(Line, k, ToCome[i], att)
        BY <2>3 DEF OnLine
    <2>5. Line \in Seq(Frames) /\ k \in Nat /\ ToCome[i] \in Seq(Kinds)
        <3>1. Line \in Seq(Frames)
            BY <2>2, LineRead
        <3>2. k \in Nat
            OBVIOUS
        <3>3. ToCome[i] \in Seq(Kinds)
            <4>1. i \in 1 .. 7
                OBVIOUS
            <4> QED
                BY <4>1, ToComeSteps, Zenon
        <3> QED
            BY <3>1, <3>2, <3>3
    <2>6. IF stash' = <<>> THEN OnLine(ToCome[i])'
          ELSE OnLine(ToCome[i + 1])' /\ Head(stash').rec = Frame(ToCome[i][1], att, att)
        <3>1. CASE bus = <<>>
            <4>1. stash' = <<>> /\ Line' = Line
                BY <1>3, <2>2, <3>1, LineRead DEF BioRead
            <4> QED
                BY <1>e, <2>4, <4>1 DEF OnWire
        <3>2. CASE bus # <<>> /\ k >= 1
            <4>1. Plain(Head(bus))
                BY <2>2, <2>4, <2>5, <3>2, LineRead, OrderedTail
            <4>2. stash' = <<>>
                BY <1>3, <2>2, <4>1 DEF BioRead
            <4>3. OnWire(Line', ToCome[i], att)
                BY <2>2, <2>4, <2>5, <3>2, AckRead
            <4> QED
                BY <1>e, <4>2, <4>3
        <3>3. CASE bus # <<>> /\ k = 0
            <4>1. /\ Head(bus) = Frame(ToCome[i][1], att, att)
                  /\ Ordered(Line', 0, Tail(ToCome[i]), att)
                BY <2>2, <2>4, <2>5, <3>3, LineRead, OrderedTail
            <4>2. ~Plain(Head(bus))
                <5>1. ToCome[i][1] # "ack"
                    BY ToComeSteps, Zenon
                <5> QED
                    BY <4>1, <5>1 DEF Plain, Frame
            <4>3. stash' = <<Part(Head(bus), "header"), Part(Head(bus), "body")>>
                BY <1>3, <3>3, <4>2 DEF BioRead
            <4>4. OnWire(Line', ToCome[i + 1], att)
                <5>1. Tail(ToCome[i]) = ToCome[i + 1]
                    BY ToComeSteps
                <5>2. 0 \in 0 .. Len(Line')
                    <6>1. Line' \in Seq(Frames)
                        BY <2>2, <2>5, <3>3, LineRead, HeadTailProperties
                    <6> QED
                        BY <6>1
                <5> QED
                    BY <4>1, <5>1, <5>2 DEF OnWire
            <4> QED
                BY <1>e, <4>1, <4>3, <4>4 DEF Part
        <3> QED
            BY <2>5, <3>1, <3>2, <3>3
    <2>7. At(i)' /\ Scripted(i)'
        BY <1>0, <2>1, <2>2, <2>3, <2>6, ToComeSteps DEF At, Scripted
    <2> QED
        BY <2>7, ScriptedThere
<1>4. CASE TakeHeader
    <2>1. PICK i \in {1, 3, 4, 5} : At(i)
        BY <1>4, Reading DEF TakeHeader
    <2>2. /\ script' = script /\ batch = <<>> /\ batch' = <<>> /\ hello' = hello /\ sensor' = sensor
          /\ stash # <<>> /\ bus' = bus /\ due' = due /\ stash' = Tail(stash)
        BY <1>4 DEF TakeHeader, Step, wire, Rest
    <2>3. PICK f \in Frames : stash = <<Part(f, "header"), Part(f, "body")>>
        <3>1. Nothing \notin Frames
            BY DEF Frames, Nothing, Frame, Kinds
        <3> QED
            BY <1>4, <3>1 DEF TakeHeader, Step, Pieces
    <2>4. stash' # <<>> /\ Head(stash').rec = Head(stash).rec
        <3>1. stash' = <<Part(f, "body")>>
            BY <2>2, <2>3
        <3> QED
            BY <2>3, <3>1 DEF Part
    <2>5. Scripted(i) /\ OnLine(ToCome[i + 1]) /\ Head(stash).rec = Frame(ToCome[i][1], att, att)
        BY <2>1, <2>2, ScriptedHere DEF Scripted
    <2>6. OnLine(ToCome[i + 1])'
        BY <1>0, <2>2, <2>5 DEF OnLine, Line
    <2>7. At(i)' /\ Scripted(i)'
        BY <1>0, <2>1, <2>2, <2>4, <2>5, <2>6, ToComeSteps DEF At, Scripted
    <2> QED
        BY <2>7, ScriptedThere
<1>5. CASE TakeBody /\ Wanted(Head(stash).rec)
    <2>1. PICK i \in {1, 3, 4, 5} : At(i) /\ Tail(script) = Left(i + 1)
        BY <1>5, Reading DEF TakeBody
    <2>2. /\ batch = <<>> /\ batch' = <<>> /\ sensor' = sensor /\ stash # <<>>
          /\ bus' = bus /\ due' = due /\ script' = Left(i + 1) /\ stash' = Tail(stash)
          /\ hello' = (IF Head(stash).rec.kind = "CH" THEN Head(stash).rec.att ELSE hello)
        BY <1>5, <2>1 DEF TakeBody, Step, Wanted, wire, Rest
    <2>3. stash' = <<>>
        <3>1. half \in Frames /\ stash = <<Part(half, "body")>>
            BY <1>5 DEF TakeBody, Step, Pieces
        <3> QED
            BY <2>2, <3>1
    <2>4. Scripted(i) /\ OnLine(ToCome[i + 1]) /\ Head(stash).rec = Frame(ToCome[i][1], att, att)
        BY <2>1, <2>2, ScriptedHere DEF Scripted
    <2>5. OnLine(ToCome[i + 1])'
        BY <1>0, <2>2, <2>4 DEF OnLine, Line
    <2>6. hello' = att
        <3>1. CASE i = 1
            BY <2>2, <2>4, <3>1, ToComeSteps DEF Frame
        <3>2. CASE i # 1
            <4>1. ToCome[i][1] # "CH" /\ hello = att
                <5>1. i \in {3, 4, 5}
                    BY <3>2
                <5>2. ToCome[i][1] # "CH"
                    BY <5>1, ToComeSteps
                <5> QED
                    BY <2>4, <3>2, <5>2 DEF Scripted
            <4>2. Head(stash).rec.kind # "CH"
                BY <2>4, <4>1 DEF Frame
            <4> QED
                BY <2>2, <4>1, <4>2
        <3> QED
            BY <3>1, <3>2
    <2> DEFINE j == i + 1
    <2>7. j \in {2, 4, 5, 6} /\ (j = 2 => i = 1)
        OBVIOUS
    <2>8. At(j)' /\ OnLine(ToCome[j])'
        BY <2>2, <2>5 DEF At
    <2> HIDE DEF j
    <2>9. Scripted(j)'
        BY <1>0, <2>2, <2>3, <2>4, <2>6, <2>7, <2>8 DEF Scripted
    <2> QED
        BY <2>7, <2>8, <2>9, ScriptedThere
<1>6. CASE Write
    <2>1. PICK i \in {2, 6} : At(i) /\ Head(script) = Script[i] /\ Tail(script) = Left(i + 1)
        BY <1>6, Writing DEF Write
    <2>2. /\ batch = <<>> /\ batch' = Script[i].recs /\ script' = Left(i + 1) /\ stash' = stash
          /\ hello' = hello /\ sensor' = sensor /\ bus' = bus /\ due' = due
        BY <1>6, <2>1 DEF Write, Step, wire
    <2>3. Scripted(i) /\ stash = <<>> /\ OnLine(<<>>)
        <3>1. Scripted(i)
            BY <2>1, ScriptedHere
        <3>2. ToCome[i] = <<>>
            BY ToComeSteps
        <3> QED
            BY <2>2, <3>1, <3>2 DEF Scripted
    <2>4. OnLine(<<>>)'
        BY <1>0, <2>2, <2>3 DEF OnLine, Line
    <2>5. CASE i = 2
        <3>1. At(3)' /\ batch' = HelloSent
            BY <2>2, <2>5, ScriptSteps DEF At, HelloSent
        <3>2. batch' # <<>>
            BY <3>1 DEF HelloSent
        <3>3. Scripted(3)'
            BY <1>0, <2>2, <2>3, <2>4, <2>5, <3>1, <3>2 DEF Scripted
        <3> QED
            BY <3>1, <3>3, ScriptedThere
    <2>6. CASE i = 6
        <3>1. At(7)' /\ batch' # <<>>
            BY <2>2, <2>6, ScriptSteps DEF At
        <3>2. Scripted(7)'
            BY <1>0, <2>2, <2>3, <2>4, <2>6, <3>1 DEF Scripted
        <3> QED
            BY <3>1, <3>2, ScriptedThere
    <2> QED
        BY <2>5, <2>6
<1>7. CASE BioSend
    <2>1. /\ script' = script /\ hello' = hello /\ stash' = stash /\ bus' = bus
        BY <1>7 DEF BioSend
    <2>2. /\ batch' = Tail(batch) /\ sensor'.att = sensor.att /\ batch # <<>> /\ Head(batch) \in Recs
          /\ sensor'.got = Append(sensor.got, Head(batch))
          /\ due' = IF sensor'.got = HelloSent THEN due \o Flight(sensor.att) ELSE due
        BY <1>7, Sent
    <2>r. sensor.got \in Seq(Recs)
        BY DEF Counted
    <2>3. ASSUME due' = due PROVE Line' = Line
        BY <2>1, <2>3 DEF Line
    <2>4. CASE At(3) /\ batch \in Hellos
        <3>1. Scripted(3) /\ stash = <<>> /\ OnLine(<<>>)
            BY <2>2, <2>4, ScriptedHere DEF Scripted
        <3>2. PICK k \in 0 .. Len(Line) : Ordered(Line, k, <<>>, att)
            BY <3>1 DEF OnLine
        <3>3. \/ sensor.got = <<>> /\ batch = HelloSent
              \/ sensor.got = <<"SH">> /\ batch = <<"SKE", "SHD">>
              \/ sensor.got = <<"SH", "SKE">> /\ batch = <<"SHD">>
            BY <2>2, <3>1 DEF Scripted
        <3>4. \/ sensor'.got = <<"SH">> /\ batch' = <<"SKE", "SHD">>
              \/ sensor'.got = <<"SH", "SKE">> /\ batch' = <<"SHD">>
              \/ sensor'.got = HelloSent /\ batch' = <<>>
            <4>h. /\ Head(HelloSent) = "SH" /\ Tail(HelloSent) = <<"SKE", "SHD">>
                  /\ Head(<<"SKE", "SHD">>) = "SKE" /\ Tail(<<"SKE", "SHD">>) = <<"SHD">>
                BY DEF HelloSent
            <4>t. Head(<<"SHD">>) = "SHD" /\ Tail(<<"SHD">>) = <<>>
                OBVIOUS
            <4>1. CASE sensor.got = <<>> /\ batch = HelloSent
                BY <2>2, <4>1, <4>h, HellosSent, Zenon
            <4>2. CASE sensor.got = <<"SH">> /\ batch = <<"SKE", "SHD">>
                BY <2>2, <4>2, <4>h, HellosSent, Zenon
            <4>3. CASE sensor.got = <<"SH", "SKE">> /\ batch = <<"SHD">>
                BY <2>2, <4>3, <4>t, HellosSent, Zenon
            <4> QED
                BY <3>3, <4>1, <4>2, <4>3
        <3>5. IF batch' # <<>> THEN OnLine(<<>>)' ELSE OnLine(ToCome[3])'
            <4>1. CASE batch' # <<>>
                <5>1. sensor'.got # HelloSent
                    BY <3>4, <4>1 DEF HelloSent
                <5> QED
                    BY <1>e, <2>2, <2>3, <3>2, <4>1, <5>1 DEF OnWire
            <4>2. CASE batch' = <<>>
                <5>1. sensor'.got = HelloSent /\ sensor.att = att
                    BY <3>1, <3>4, <4>2 DEF Scripted
                <5>2. att \in 1 .. Atts /\ att \in 0 .. Atts
                    BY Limits DEF TypeOK, Counted, Limited
                <5>3. /\ Flight(att) \in Seq(Frames) /\ due' = due \o Flight(att)
                      /\ Ordered(Flight(att), 0, ToCome[3], att)
                    BY <2>2, <5>1, <5>2, AnswersOnLine, ToComeSteps
                <5>4. k \in Nat /\ 0 \in Nat
                    <6>1. Len(Line) \in Nat
                        BY <2>1, ConcatProperties, LenProperties DEF TypeOK, Line
                    <6> QED
                        BY <6>1
                <5>5. bus' = bus /\ TypeOK
                    BY <2>1, <2>2
                <5>6. Ordered(Line', k + 0, ToCome[3], att) /\ k + 0 \in 0 .. Len(Line')
                    BY <3>2, <5>3, <5>4, <5>5, AfterHellos, LineSent, Zenon
                <5> QED
                    BY <1>e, <4>2, <5>6 DEF OnWire
            <4> QED
                BY <4>1, <4>2
        <3>6. At(3)' /\ Scripted(3)'
            BY <1>0, <2>1, <2>2, <2>4, <3>1, <3>4, <3>5 DEF At, Scripted
        <3> QED
            BY <3>6, ScriptedThere
    <2>5. CASE At(7) /\ batch \in Finisheds
        <3>1. Scripted(7) /\ stash = <<>> /\ OnLine(<<>>)
            BY <2>2, <2>5, ScriptedHere DEF Scripted
        <3>2. Head(batch) # "SHD"
            <4>1. Head(<<"CCS", "FINISHED">>) = "CCS" /\ Head(<<"FINISHED">>) = "FINISHED"
                OBVIOUS
            <4> QED
                BY <2>5, <4>1 DEF Finisheds
        <3>3. due' = due
            BY <2>2, <2>r, <3>2, HelloSentEnds
        <3>4. OnLine(<<>>)'
            BY <1>0, <2>3, <3>1, <3>3 DEF OnLine
        <3>5. At(7)' /\ Scripted(7)'
            BY <1>0, <2>1, <2>2, <2>5, <3>1, <3>4, ToComeSteps DEF At, Scripted
        <3> QED
            BY <3>5, ScriptedThere
    <2> QED
        BY <2>2, <2>4, <2>5 DEF InScript
<1> QED
    BY <1>1, <1>2, <1>3, <1>4, <1>5, <1>6, <1>7, Accepting

\* The line through the attempts, the upload and the handshake.
LEMMA OrderlyStep ==
    ASSUME TypeOK, Counted, Pieces, InScript, Finishing, Orderly, [Next]_vars
    PROVE  Orderly'
<1> SUFFICES ASSUME gpio', reason' = "none"
             PROVE  /\ pc' = "send" \/ (pc' = "ack" /\ cmd' < Len(Upload)) => OnLine(<<>>)'
                    /\ pc' = "ack" /\ cmd' = Len(Upload) =>
                          OnLine(<<"CH">>)' /\ sensor' = [Idle EXCEPT !.att = att']
                    /\ pc' = "accept" => OnScript'
    BY DEF Orderly
<1>0. gpio /\ bus \in Seq(Frames) /\ due \in Seq(Frames) /\ <<>> \in Seq(Kinds) /\ Len(Upload) = 3
    <2>1. gpio' = gpio
        BY DEF Next, Host, Session, Retry, Cancel, Attempt, Command, CommandFails, GiveUp, ReadAck,
               BioRead, BioTimeout, TakeHeader, TakeBody, Write, BioSend, BioSendFails,
               Accepted, ReadD4, SendD4, Arrive, Lose, vars
    <2> QED
        BY <2>1 DEF TypeOK, Upload
<1>1. CASE Session \/ Retry
    <2>1. pc' = "send" /\ bus' = <<>> /\ due' = <<>>
        BY <1>0, <1>1 DEF Session, Retry, Attempt, Reset
    <2>2. Line' = <<>>
        BY <2>1 DEF Line
    <2>3. OnWire(<<>>, <<>>, att')
        BY DEF OnWire, Ordered
    <2>4. OnLine(<<>>)'
        BY <2>1, <2>2, <2>3, OnWireIs
    <2> QED
        BY <2>1, <2>4
<1>2. CASE reason = "none" /\ pc' = "accept"
    <2>1. CASE pc = "accept"
        <3>1. ~Lose
            BY DEF Lose
        <3> QED
            BY <1>0, <1>2, <2>1, <3>1, OnScriptStep DEF Orderly
    <2>2. CASE pc = "ack"
        <3>1. /\ ~(cmd < Len(Upload)) /\ ReadAny /\ due' = due /\ sensor' = sensor /\ att' = att
              /\ script' = Script /\ batch' = <<>> /\ hello' = 0 /\ stash' = <<>>
            BY <1>2, <2>2, Accepting
        <3>2. cmd = Len(Upload)
            BY <1>0, <3>1 DEF TypeOK
        <3>3. OnLine(<<"CH">>) /\ sensor = [Idle EXCEPT !.att = att]
            BY <1>0, <1>2, <2>2, <3>2 DEF Orderly
        <3>4. PICK k \in 0 .. Len(Line) : Ordered(Line, k, <<"CH">>, att) /\ k >= 1
            BY <2>2, <3>3 DEF OnLine
        <3>5. k \in Nat /\ <<"CH">> \in Seq(Kinds) /\ ToCome[1] = <<"CH">>
            BY ToComeSteps DEF Kinds
        <3>6. OnWire(Line', ToCome[1], att')
            BY <3>1, <3>4, <3>5, AckRead
        <3>7. OnLine(ToCome[1])'
            BY <1>2, <3>6, OnWireIs
        <3>8. sensor'.att = att' /\ sensor'.got = <<>>
            BY <3>1, <3>3 DEF Idle
        <3>9. At(1)' /\ Scripted(1)'
            BY <3>1, <3>7, <3>8, LeftSteps DEF At, Scripted
        <3> QED
            BY <1>2, <3>9, ScriptedThere
    <2> QED
        BY <1>2, <2>1, <2>2, Accepting
<1>3. CASE Command /\ reason = "none"
    <2>1. pc = "send" /\ pc' = "ack" /\ bus' = bus /\ cmd' = cmd /\ att' = att
        BY <1>3 DEF Command
    <2>2. PICK k \in 0 .. Len(Line) : Ordered(Line, k, <<>>, att)
        BY <1>0, <1>3, <2>1 DEF Orderly, OnLine
    <2>3. k \in Nat /\ k + 1 >= 1 /\ 1 \in Nat
        OBVIOUS
    <2>4. att \in 1 .. Atts /\ 0 \in 0 .. Atts /\ att \in 0 .. Atts
        BY <2>1, Limits DEF TypeOK, Counted, Limited
    <2>5. cmd \in 1 .. 3
        BY <1>0, <2>1 DEF TypeOK, Counted
    <2>6. CASE cmd = 3
        <3>1. due' = due \o Hello(att) /\ sensor' = [Idle EXCEPT !.att = att]
            BY <1>3, <2>6 DEF Command, Upload, Hello
        <3>2. Hello(att) \in Seq(Frames) /\ Ordered(Hello(att), 1, <<"CH">>, att) /\ <<"CH">> \in Seq(Kinds)
            BY <2>4, AnswersOnLine DEF Kinds
        <3>3. Ordered(Line', k + 1, <<"CH">>, att) /\ k + 1 \in 0 .. Len(Line')
            BY <2>1, <2>2, <2>3, <3>1, <3>2, LineSent
        <3>4. OnLine(<<"CH">>)'
            BY <2>1, <2>3, <3>3 DEF OnLine
        <3> QED
            BY <1>0, <2>1, <2>6, <3>1, <3>4
    <2>7. CASE cmd # 3
        <3>1. due' = due \o Acks(0)
            BY <1>3, <2>5, <2>7 DEF Command, Upload, Acks
        <3>2. Acks(0) \in Seq(Frames) /\ Ordered(Acks(0), 1, <<>>, att)
            BY <2>4, AnswersOnLine
        <3>3. Ordered(Line', k + 1, <<>>, att) /\ k + 1 \in 0 .. Len(Line')
            BY <1>0, <2>1, <2>2, <2>3, <3>1, <3>2, LineSent
        <3>4. OnLine(<<>>)'
            BY <2>1, <2>3, <3>3 DEF OnLine
        <3> QED
            BY <1>0, <2>1, <2>7, <3>4
    <2> QED
        BY <2>6, <2>7
<1>4. CASE ReadAck /\ reason = "none" /\ pc' # "accept"
    <2>1. /\ pc = "ack" /\ cmd < Len(Upload) /\ pc' = "send" /\ ReadAny /\ due' = due /\ att' = att
        BY <1>4 DEF ReadAck
    <2>2. PICK k \in 0 .. Len(Line) : Ordered(Line, k, <<>>, att) /\ k >= 1
        BY <1>0, <1>4, <2>1 DEF Orderly, OnLine
    <2>3. OnWire(Line', <<>>, att')
        <3>1. k \in Nat
            OBVIOUS
        <3> QED
            BY <1>0, <2>1, <2>2, <3>1, AckRead
    <2>4. OnLine(<<>>)'
        BY <2>1, <2>3, OnWireIs
    <2> QED
        BY <2>1, <2>4
<1>5. CASE Arrive /\ reason = "none" /\ pc' # "accept"
    <2>1. Line' = Line
        <3>1. due # <<>>
            BY <1>5 DEF Arrive
        <3> QED
            BY <1>0, <1>5, <3>1, LineArrives DEF Arrive, Line
    <2>2. pc' = pc /\ cmd' = cmd /\ att' = att /\ sensor' = sensor
        BY <1>5 DEF Arrive
    <2> QED
        BY <1>0, <1>5, <2>1, <2>2 DEF Orderly, OnLine
<1>6. CASE UNCHANGED vars /\ pc' # "accept"
    BY <1>0, <1>6 DEF vars, wire, Orderly, OnLine, Line
<1>7. CASE pc' \notin {"send", "ack", "accept"}
    BY <1>7
<1>8. /\ Session \/ Retry \/ reason = "none" \/ pc' \notin {"send", "ack", "accept"}
      /\ \/ Session \/ Retry \/ Command \/ ReadAck \/ Arrive \/ UNCHANGED vars
         \/ pc' = "accept" \/ pc' \notin {"send", "ack", "accept"}
    <2>1. CASE CommandFails \/ BioTimeout \/ BioSendFails \/ TakeBody
        BY <2>1 DEF CommandFails, BioTimeout, BioSendFails, TakeBody, Step, GiveUp
    <2>2. CASE Command \/ ReadAck \/ Arrive \/ Lose
        BY <2>2 DEF Command, ReadAck, Arrive, Lose
    <2>3. CASE BioRead \/ TakeHeader \/ Write \/ BioSend
        BY <2>3 DEF BioRead, TakeHeader, Write, BioSend, Step
    <2>4. CASE Cancel \/ Accepted \/ ReadD4 \/ \E delivered \in BOOLEAN : SendD4(delivered)
        BY <2>4 DEF Cancel, Accepted, ReadD4, SendD4
    <2>5. CASE Session \/ Retry
        BY <2>5
    <2>6. CASE UNCHANGED vars
        BY <2>6 DEF vars
    <2> QED
        BY <2>5, <2>6, <2>1, <2>2, <2>3, <2>4 DEF Next, Host
<1> QED
    BY <1>1, <1>2, <1>3, <1>4, <1>5, <1>6, <1>7, <1>8

\* A record that is not the one waited for is never of an orderly line.
LEMMA StrayStep ==
    ASSUME TypeOK, Counted, Pieces, InScript, Orderly, NoStrayFrames, [Next]_vars
    PROVE  NoStrayFrames'
<1> SUFFICES ASSUME gpio', reason' = "unexpected" PROVE FALSE
    BY DEF NoStrayFrames
<1>1. \/ gpio /\ reason = "unexpected"
      \/ TakeBody /\ GiveUp("unexpected") /\ ~Wanted(Head(stash).rec) /\ gpio /\ reason = "none"
    <2>1. CASE TakeBody
        BY <2>1 DEF TakeBody, GiveUp, Wanted
    <2>2. CASE CommandFails \/ BioTimeout \/ BioSendFails
        BY <2>2 DEF CommandFails, BioTimeout, BioSendFails, GiveUp
    <2>3. CASE Session \/ Retry \/ Cancel \/ Command \/ ReadAck \/ Arrive \/ Lose \/ UNCHANGED vars
        BY <2>3 DEF Session, Retry, Attempt, Cancel, Command, ReadAck, Arrive, Lose, vars
    <2>4. CASE BioRead \/ TakeHeader \/ Write \/ BioSend
        BY <2>4 DEF BioRead, TakeHeader, Write, BioSend
    <2>5. CASE Accepted \/ ReadD4 \/ \E delivered \in BOOLEAN : SendD4(delivered)
        BY <2>5 DEF Accepted, ReadD4, SendD4
    <2> QED
        BY <2>1, <2>2, <2>3, <2>4, <2>5 DEF Next, Host
<1>2. CASE gpio /\ reason = "unexpected"
    BY <1>2 DEF NoStrayFrames
<1>3. CASE TakeBody /\ ~Wanted(Head(stash).rec) /\ gpio /\ reason = "none"
    <2>1. PICK i \in {1, 3, 4, 5} : At(i) /\ Head(script) = Script[i]
        BY <1>3, Reading DEF TakeBody
    <2>2. pc = "accept" /\ batch = <<>> /\ stash # <<>>
        BY <1>3 DEF TakeBody, Step
    <2>3. Scripted(i)
        BY <1>3, <2>1, <2>2, ScriptedHere DEF Orderly
    <2>4. Head(stash).rec = Frame(ToCome[i][1], att, att)
        BY <2>2, <2>3 DEF Scripted
    <2>5. ToCome[i][1] = Script[i].recs[1] /\ ToCome[1][1] # "FIN"
        BY ToComeSteps
    <2>6. i = 1 \/ hello = att
        BY <2>3 DEF Scripted
    <2> QED
        BY <1>3, <2>1, <2>4, <2>5, <2>6 DEF Wanted, Frame
<1> QED
    BY <1>1, <1>2, <1>3

-----------------------------------------------------------------------------
\* Nothing is sent before the first attempt.
LEMMA InitIInv == Init => IInv
<1> SUFFICES ASSUME Init PROVE IInv
    OBVIOUS
<1>1. TypeOK
    BY Limits DEF Init, TypeOK, RecordsWhole, Idle, Limited, Upload
<1>2. Counted
    <2>1. 0 \in 0 .. Atts /\ <<>> \in Seq(Recs) /\ FALSE \in BOOLEAN
        BY Limits DEF Limited
    <2> QED
        BY <2>1 DEF Init, Counted, Idle
<1>3. Pieces /\ InScript /\ Finishing /\ Orderly /\ UpOnBothSides /\ NoStrayFrames
    BY DEF Init, Pieces, InScript, Finishing, Orderly, UpOnBothSides, NoStrayFrames
<1>4. FinishedAnswers
    BY UnderNone DEF Init, FinishedAnswers
<1> QED
    BY <1>1, <1>2, <1>3, <1>4 DEF IInv

\* Each step of the driver, the library and the sensor preserves the invariant.
LEMMA NextIInv == IInv /\ [Next]_vars => IInv'
<1> SUFFICES ASSUME IInv, [Next]_vars PROVE IInv'
    OBVIOUS
<1>0. /\ TypeOK /\ Counted /\ Pieces /\ InScript /\ FinishedAnswers /\ Finishing /\ Orderly
      /\ UpOnBothSides /\ NoStrayFrames
    BY DEF IInv
<1>1. TypeOK' /\ Counted'
    BY <1>0, TypeStep
<1>2. Pieces' /\ InScript'
    BY <1>0, PiecesStep, InScriptStep
<1>3. FinishedAnswers' /\ Finishing'
    BY <1>0, FinishedStep, FinishingStep
<1>4. Orderly' /\ NoStrayFrames'
    BY <1>0, OrderlyStep, StrayStep
<1>5. UpOnBothSides'
    BY <1>0, UpStep
<1> QED
    BY <1>1, <1>2, <1>3, <1>4, <1>5 DEF IInv

\* The inductive invariant holds of every behaviour, whatever comes late or is lost.
THEOREM Invariance == Spec => []IInv
<1> QED
    BY InitIInv, NextIInv, PTL DEF Spec

\* Every variable has its type, and what is read after a header is the body of that
\* record.
THEOREM TypeCorrect == Spec => []TypeOK
<1>1. IInv => TypeOK
    BY DEF IInv
<1> QED
    BY <1>1, Invariance, PTL

\* The channel is up on our side only when it is on the sensor's, for the same
\* handshake.
THEOREM UpTogether == Spec => []UpOnBothSides
<1>1. IInv => UpOnBothSides
    BY DEF IInv
<1> QED
    BY <1>1, Invariance, PTL

\* After a reset, no late acknowledgement and no frame of an attempt before fails an
\* attempt.
THEOREM StrayFramesHarmless == Spec => []NoStrayFrames
<1>1. IInv => NoStrayFrames
    BY DEF IInv
<1> QED
    BY <1>1, Invariance, PTL

\* A wait runs out, nothing lost and nothing failed, only with a frame still to come.
THEOREM TimeoutIsLate == Spec => TimeoutMeansLate
<1>1. ASSUME IInv, [Next]_vars
      PROVE  [gpio /\ reason = "none" /\ reason' = "timeout" => bus \o due # <<>>]_vars
    <2> SUFFICES ASSUME gpio, reason = "none", reason' = "timeout" PROVE bus \o due # <<>>
        OBVIOUS
    <2>0. TypeOK /\ InScript /\ Orderly
        BY <1>1 DEF IInv
    <2>1. BioTimeout
        <3>1. ~(TakeBody \/ CommandFails \/ BioSendFails)
            BY DEF TakeBody, CommandFails, BioSendFails, GiveUp
        <3>2. ~(Session \/ Retry \/ Cancel \/ Command \/ ReadAck \/ Arrive \/ Lose \/ UNCHANGED vars)
            BY DEF Session, Retry, Attempt, Cancel, Command, ReadAck, Arrive, Lose, vars
        <3>3. ~(BioRead \/ TakeHeader \/ Write \/ BioSend)
            BY DEF BioRead, TakeHeader, Write, BioSend
        <3>4. ~(Accepted \/ ReadD4 \/ \E delivered \in BOOLEAN : SendD4(delivered))
            BY DEF Accepted, ReadD4, SendD4
        <3> QED
            BY <1>1, <3>1, <3>2, <3>3, <3>4 DEF Next, Host
    <2>2. PICK i \in {1, 3, 4, 5} : At(i)
        BY <2>0, <2>1, Reading DEF BioTimeout
    <2>3. pc = "accept" /\ batch = <<>> /\ stash = <<>>
        BY <2>1 DEF BioTimeout, Step
    <2>4. OnLine(ToCome[i])
        BY <2>0, <2>2, <2>3, ScriptedHere DEF Orderly, Scripted
    <2>5. PICK k \in 0 .. Len(Line) : Len(Line) = k + Len(ToCome[i])
        BY <2>4 DEF OnLine, Ordered
    <2>6. Len(ToCome[i]) \in Nat /\ Len(ToCome[i]) # 0
        <3>1. i \in 1 .. 7
            OBVIOUS
        <3>2. ToCome[i] \in Seq(Kinds) /\ ToCome[i] # <<>>
            BY <3>1, ToComeSteps, Zenon
        <3> QED
            BY <3>2, EmptySeq
    <2> QED
        BY <2>5, <2>6 DEF Line
<1> QED
    BY <1>1, Invariance, PTL DEF Spec, TimeoutMeansLate
=============================================================================
