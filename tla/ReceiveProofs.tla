---------------------------- MODULE ReceiveProofs ----------------------------
(***************************************************************************)
(* Proofs about Receive, for every width of the request identifier, every  *)
(* depth of the FIFO, every size of a batch and of a superframe: the reply *)
(* a command takes is its own, the driver never latches a transport        *)
(* failure of its own making, and the data frames reach CywReceive in      *)
(* order and once.                                                         *)
(***************************************************************************)
EXTENDS Receive, TLAPS

Index == 1..Len(fifo)
(* A request that is still unanswered, or whose reply is in the FIFO. *)
Asked(req) ==
    /\ req \in Nat /\ req <= serial
    /\ pc \in {"credit", "reply"} => serial - req < IdMod
    /\ pc = "credit" => req < serial

(* Every reply that may still come is to a request so recent that its       *)
(* identifier is not in use again; no request is answered twice.            *)
RequestInv ==
    /\ \A c \in held : Asked(c.req)
    /\ \A c, d \in held : c.req = d.req => c = d
    /\ \A i \in Index : fifo[i].chan = "reply" =>
         /\ Asked(fifo[i].n)
         /\ \A c \in held : c.req # fifo[i].n
    /\ ReplyIsOwn

(* Nothing that is on its way, and nothing the firmware may do, gloms. *)
NoDescriptor == \A i \in Index : fifo[i].chan # "descriptor"
NoGlomming == ~fwGlom /\ NoDescriptor /\ \A c \in held : c.what # "on"

(* The parser is on before the firmware is asked to glom, and off again     *)
(* only where the firmware has refused to.                                  *)
ParserInv ==
    /\ pc # "down" /\ ~glomEnabled => NoGlomming
    /\ pc # "down" => (stage = "glomOn" => glomEnabled)
    /\ pc # "down" => (stage \in {"txOff", "rxOff", "align", "undo"} => ~glomEnabled)
    /\ pc \in {"loop", "batch"} => stage = "run"
    /\ stage = "glomOn" /\ pc \in {"configure", "credit"} => NoGlomming
    /\ stage = "glomOn" /\ pc = "reply" =>
         /\ \A c \in held : c.what = "on" => c.req = serial
         /\ (\E c \in held : c.req = serial /\ c.what # "done") => ~fwGlom /\ NoDescriptor
         /\ (\E i \in Index : fifo[i].chan = "reply" /\ fifo[i].n = serial /\ fifo[i].refused)
              => NoGlomming

(* What the driver keeps of a superframe and of a hint matches the FIFO: a  *)
(* superframe is behind its descriptor, or first once the descriptor is     *)
(* read, and a hint is the length of the data frame that is first.          *)
Hints(length) ==
    length = 0 \/ (fifo # <<>> /\ fifo[1].chan = "data" /\ fifo[1].len = length)
ShapeInv ==
    /\ \A i \in Index : fifo[i].chan = "descriptor" =>
         fifo[i].kids > 0 /\ i + 1 \in Index /\ fifo[i + 1].chan = "super"
    /\ \A i \in Index : fifo[i].chan = "super" =>
         i = 1 \/ fifo[i - 1].chan = "descriptor"
    /\ rx.glom.pending <=> fifo # <<>> /\ fifo[1].chan = "super"
    /\ \A i \in Index : ~fifo[i].ok => fault
    /\ rx.glom.pending => rx.glom.count > 0 /\ rx.glom.index = 0
    /\ rx.glom.count > 0 /\ ~rx.glom.pending =>
         /\ 0 < rx.glom.index /\ rx.glom.index < rx.glom.count
         /\ rx.glom.first + rx.glom.index = delivered + 1
         /\ Hints(rx.glom.next)
    /\ rx.glom.count > 0 => rx.hint = 0
    /\ Hints(rx.hint)

(* The children of the superframe that are still to be handed up. *)
Left == IF rx.glom.count > 0 /\ ~rx.glom.pending THEN rx.glom.count - rx.glom.index ELSE 0
(* The data frames of the FIFO go on where CywReceive has come to: `upto'   *)
(* numbers the last data frame before each place of the FIFO.               *)
Kids(i) == IF i = 1 THEN rx.glom.count ELSE fifo[i - 1].kids
Carries(i, a, b) ==
    IF fifo[i].ok /\ fifo[i].chan = "data" THEN fifo[i].n = a + 1 /\ b = a + 1
    ELSE IF fifo[i].ok /\ fifo[i].chan = "super" THEN fifo[i].n = a + 1 /\ b = a + Kids(i)
    ELSE b = a
Numbers(upto) ==
    /\ upto[1] = delivered + Left
    /\ upto[Len(fifo) + 1] = posted
    /\ \A i \in Index : Carries(i, upto[i], upto[i + 1])
Numbered == \E upto \in [1..(Len(fifo) + 1) -> Nat] : Numbers(upto)
StreamInv == ~rx.failed => ShapeInv /\ Numbered
Chans  == {"data", "descriptor", "super", "reply"}
Frames == [chan : Chans, n : Nat, kids : Nat, len : Nat, ok : BOOLEAN, refused : BOOLEAN]
Gloms  == [count : Nat, index : Nat, pending : BOOLEAN, first : Nat, next : Nat]
Rxs    == [glom : Gloms, hint : Nat, pending : BOOLEAN, serviced : BOOLEAN, failed : BOOLEAN]
Stages == {"txOff", "rxOff", "align", "glomOn", "undo", "run"}

(* The types of the variables. *)
TypeOK ==
    /\ fifo \in Seq(Frames) /\ rx \in Rxs
    /\ posted \in Nat /\ serial \in Nat /\ delivered \in Nat /\ count \in Nat
    /\ fwGlom \in BOOLEAN /\ glomEnabled \in BOOLEAN /\ fault \in BOOLEAN
    /\ held \subseteq [req : Nat, what : {"on", "off", "other", "done"}]
    /\ pc \in {"configure", "loop", "batch", "credit", "reply", "down"} /\ stage \in Stages

ReceiveInv == TypeOK /\ RequestInv /\ ParserInv /\ StreamInv /\ NoOwnLatch
-----------------------------------------------------------------------------
(* What CywPoll does. *)

(* A poll that changes nothing of the stream. *)
Idles(o) ==
    /\ o.status \in {"error", "none"}
    /\ o.fifo = fifo /\ o.delivered = delivered /\ o.fault = fault
    /\ o.rx.glom = rx.glom /\ o.rx.failed = rx.failed /\ o.rx.hint \in {0, rx.hint}

(* A poll that latches the failure: something has gone wrong. *)
Fails(o) ==
    /\ o.status = "error" /\ o.fault /\ o.rx.failed
    /\ o.fifo = fifo /\ o.delivered = delivered

(* What is left of a superframe after a child of it: `next' is the hint of  *)
(* its header.                                                              *)
Moves(o, index, first, next) ==
    IF index + 1 = rx.glom.count
    THEN o.rx.glom = NoGlom /\ o.rx.hint = next
    ELSE /\ o.rx.glom.count = rx.glom.count /\ ~o.rx.glom.pending
         /\ o.rx.glom.index = index + 1
         /\ o.rx.glom.first = first /\ o.rx.glom.next = next /\ o.rx.hint = 0

(* A further child of the superframe. *)
Continues(o) ==
    /\ o.status = "frame" /\ rx.glom.count > 0 /\ ~rx.glom.pending
    /\ o.fifo = fifo /\ o.delivered = rx.glom.first + rx.glom.index
    /\ Moves(o, rx.glom.index, rx.glom.first, rx.glom.next)

(* A hint for the frame behind the first one. *)
HintsSecond(length) ==
    length = 0 \/ (2 \in Index /\ fifo[2].chan = "data" /\ fifo[2].len = length)

(* The first frame is taken: a superframe with its first child, a           *)
(* descriptor, a data frame or a reply.                                     *)
Takes(o) ==
    /\ fifo # <<>> /\ fifo[1].ok /\ o.fifo = Tail(fifo)
    /\ \/ /\ fifo[1].chan = "super" /\ rx.glom.pending
          /\ o.status = "frame" /\ o.delivered = fifo[1].n
          /\ \E next \in Nat : HintsSecond(next) /\ Moves(o, 0, fifo[1].n, next)
       \/ /\ fifo[1].chan = "descriptor" /\ rx.glom.count = 0
          /\ o.status = "frame" /\ o.delivered = delivered
          /\ o.rx.glom.count = fifo[1].kids /\ o.rx.glom.index = 0 /\ o.rx.glom.pending
          /\ o.rx.hint = 0
       \/ /\ fifo[1].chan \in {"data", "reply"} /\ rx.glom.count = 0
          /\ o.rx.glom = rx.glom /\ HintsSecond(o.rx.hint)
          /\ IF fifo[1].chan = "data"
             THEN o.status = "frame" /\ o.delivered = fifo[1].n
             ELSE o.status = "reply" /\ o.delivered = delivered /\ o.reply = fifo[1]

Effect(o) ==
    /\ o.rx \in Rxs
    /\ \/ Idles(o) \/ Fails(o)
       \/ ~rx.failed /\ ~o.rx.failed /\ o.fault = fault /\ (Continues(o) \/ Takes(o))

(* The service looks at the status and leaves the frames alone. *)
LEMMA ServicedIs ==
    ASSUME TypeOK, NEW batch, NEW r \in Serviced(batch)
    PROVE  r \in Rxs /\ r.glom = rx.glom /\ r.hint = rx.hint /\ r.failed = rx.failed
<1>1. CASE r = rx BY <1>1 DEF TypeOK, Rxs
<1>2. CASE \E p \in BOOLEAN : r = [rx EXCEPT !.serviced = TRUE, !.pending = p]
      BY <1>2 DEF TypeOK, Rxs
<1>3. QED BY <1>1, <1>2 DEF Serviced

(* A hint names the length of the data frame behind. *)
LEMMA HintIs ==
    ASSUME TypeOK, fifo # <<>>, NEW h \in NextLengths(Tail(fifo))
    PROVE  h \in Nat /\ HintsSecond(h)
<1>1. CASE h = 0 BY <1>1 DEF HintsSecond
<1>2. CASE Tail(fifo) # <<>> /\ Head(Tail(fifo)).chan = "data" /\ h = Head(Tail(fifo)).len
  <2>1. 2 \in Index /\ Head(Tail(fifo)) = fifo[2] BY <1>2 DEF TypeOK, Index
  <2>2. fifo[2] \in Frames BY <2>1 DEF TypeOK, Index
  <2>3. fifo[2].len \in Nat BY <2>2 DEF Frames
  <2>4. QED BY <1>2, <2>1, <2>3 DEF HintsSecond
<1>3. QED BY <1>1, <1>2 DEF NextLengths

(* Both ways to give up leave the failure latched. *)
LEMMA FailsIs ==
    ASSUME TypeOK
    PROVE  /\ Effect(Refused)
           /\ Effect(TransferFails)
           /\ fault => Effect(Latched)
<1> USE DEF Outcome, Refused, TransferFails, Latched, Fresh, NoGlom, Effect, Idles, Fails, TypeOK,
            Rxs, Gloms
<1>1. Effect(Refused) OBVIOUS
<1>2. Effect(TransferFails) OBVIOUS
<1>3. fault => Effect(Latched) OBVIOUS
<1>4. QED BY <1>1, <1>2, <1>3

(* A child is the next one, and the superframe moves on. *)
LEMMA ChildIs ==
    ASSUME TypeOK, NEW glom \in Gloms, NEW behind,
           glom.count = rx.glom.count, ~glom.pending, rx.hint = 0
    PROVE  LET o == Child(glom, behind)
           IN  /\ o.rx \in Rxs /\ o.rx.failed = rx.failed /\ o.status = "frame"
               /\ o.fault = fault /\ o.fifo = behind
               /\ o.delivered = glom.first + glom.index
               /\ Moves(o, glom.index, glom.first, glom.next)
<1>1. CASE glom.index + 1 = glom.count
      BY <1>1 DEF Child, Outcome, Moves, NoGlom, TypeOK, Rxs, Gloms
<1>2. CASE glom.index + 1 # glom.count
  <2> DEFINE g == [glom EXCEPT !.index = @ + 1]
             r == [rx EXCEPT !.glom = g, !.hint = @]
  <2>1. /\ g \in Gloms /\ ~g.pending /\ g.count = glom.count /\ g.index = glom.index + 1
        /\ g.first = glom.first /\ g.next = glom.next
        BY DEF Gloms
  <2>2. Child(glom, behind) = Outcome("frame", r, behind, glom.first + glom.index)
        BY <1>2 DEF Child
  <2> HIDE DEF g
  <2>3. r \in Rxs /\ r.failed = rx.failed /\ r.glom = g /\ r.hint = rx.hint
        BY <2>1 DEF TypeOK, Rxs
  <2> HIDE DEF r
  <2>4. QED BY <1>2, <2>1, <2>2, <2>3 DEF Outcome, Moves
<1>3. QED BY <1>1, <1>2

(* The superframe a descriptor announced, and then its other children.     *)
LEMMA GlomIs ==
    ASSUME ReceiveInv, ~rx.failed, rx.glom.count # 0, NEW o \in PollGlom
    PROVE  Effect(o)
<1>1. ShapeInv /\ rx.glom \in Gloms /\ rx.hint = 0
      BY DEF ReceiveInv, StreamInv, ShapeInv, TypeOK, Rxs, Gloms
<1>2. CASE ~rx.glom.pending
  <2>1. o = Child(rx.glom, fifo) BY <1>2 DEF PollGlom
  <2>2. QED BY <1>1, <1>2, <2>1, ChildIs DEF Effect, Continues, ReceiveInv, Gloms
<1>3. CASE rx.glom.pending
  <2>1. /\ fifo # <<>> /\ fifo[1].chan = "super"
        /\ Head(fifo) = fifo[1] /\ fifo[1] \in Frames
    <3>1. fifo # <<>> /\ fifo[1].chan = "super" BY <1>1, <1>3 DEF ShapeInv
    <3>2. QED BY <3>1 DEF ReceiveInv, TypeOK
  <2>2. CASE o = TransferFails BY <2>2, FailsIs DEF ReceiveInv
  <2>3. CASE o = Latched /\ ~CywRxGlomValidate(Head(fifo))
    <3>1. fault BY <1>1, <2>1, <2>3 DEF CywRxGlomValidate, ShapeInv, ReceiveInv, TypeOK, Index
    <3>2. QED BY <2>3, <3>1, FailsIs DEF ReceiveInv
  <2>4. ASSUME CywRxGlomValidate(Head(fifo)), NEW h \in NextLengths(Tail(fifo)),
               o = Child([rx.glom EXCEPT !.pending = FALSE, !.first = Head(fifo).n, !.next = h],
                         Tail(fifo))
        PROVE  Effect(o)
    <3> DEFINE g == [rx.glom EXCEPT !.pending = FALSE, !.first = Head(fifo).n, !.next = h]
    <3>1. h \in Nat /\ HintsSecond(h) BY <2>1, <2>4, HintIs DEF ReceiveInv
    <3>2. /\ g \in Gloms /\ g.count = rx.glom.count /\ ~g.pending
          /\ g.index = 0 /\ g.first = fifo[1].n /\ g.next = h
          BY <1>1, <1>3, <2>1, <3>1 DEF Gloms, Frames, ShapeInv
    <3>3. o = Child(g, Tail(fifo)) /\ fifo[1].ok BY <2>1, <2>4 DEF CywRxGlomValidate
    <3> HIDE DEF g
    <3>4. /\ o.rx \in Rxs /\ o.rx.failed = rx.failed /\ o.status = "frame"
          /\ o.fault = fault /\ o.fifo = Tail(fifo) /\ o.delivered = g.first + g.index
          /\ Moves(o, g.index, g.first, g.next)
          BY <1>1, <3>2, <3>3, ChildIs DEF ReceiveInv
    <3>5. g.first + g.index = fifo[1].n BY <2>1, <3>2 DEF Frames
    <3>6. QED BY <1>3, <2>1, <3>1, <3>2, <3>3, <3>4, <3>5 DEF Effect, Takes
  <2>5. QED BY <1>3, <2>2, <2>3, <2>4 DEF PollGlom
<1>4. QED BY <1>2, <1>3

(* Any other frame, with a hint of its length or without: the parser is on  *)
(* when a descriptor comes, and a hint does not outlive its frame.          *)
LEMMA FrameIs ==
    ASSUME ReceiveInv, pc # "down", ~rx.failed, rx.glom.count = 0, fifo # <<>>,
           NEW r \in Rxs, r.glom = rx.glom, r.hint = rx.hint, ~r.failed,
           NEW hint \in {0, r.hint}, NEW o \in FrameRead(r, hint)
    PROVE  Effect(o)
<1>1. ShapeInv /\ TypeOK /\ rx.glom \in Gloms
      BY DEF ReceiveInv, StreamInv, TypeOK, Rxs
<1>2. Head(fifo) = fifo[1] /\ fifo[1] \in Frames /\ 1 \in Index /\ ~rx.glom.pending
      BY <1>1 DEF TypeOK, Index, ShapeInv
<1>3. fifo[1].chan # "super" BY <1>1, <1>2 DEF ShapeInv
<1>4. hint # 0 => CywRxReadAheadValid(hint, fifo[1])
      BY <1>1, <1>2 DEF ShapeInv, Hints, CywRxReadAheadValid
<1>5. fifo[1].chan = "descriptor" => glomEnabled
      BY <1>2 DEF ReceiveInv, ParserInv, NoGlomming, NoDescriptor
<1>6. CASE o = Latched /\ ~fifo[1].ok
  <2>1. fault BY <1>1, <1>2, <1>6 DEF ShapeInv
  <2>2. QED BY <1>1, <1>6, <2>1, FailsIs
<1> DEFINE kept == [r EXCEPT !.hint = 0]
<1>7. kept \in Rxs /\ kept.glom = rx.glom /\ kept.hint = 0 /\ ~kept.failed BY DEF Rxs
<1>8. ASSUME NEW k \in {[kept EXCEPT !.hint = h] : h \in NextLengths(Tail(fifo))}
      PROVE  k \in Rxs /\ k.glom = rx.glom /\ ~k.failed /\ HintsSecond(k.hint)
  <2>1. PICK h \in NextLengths(Tail(fifo)) : k = [kept EXCEPT !.hint = h] OBVIOUS
  <2>2. h \in Nat /\ HintsSecond(h) BY <1>1, HintIs
  <2> HIDE DEF kept
  <2>3. k \in Rxs /\ k.glom = rx.glom /\ ~k.failed /\ k.hint = h BY <1>7, <2>1, <2>2 DEF Rxs
  <2>4. QED BY <2>2, <2>3
<1>9. ASSUME fifo[1].ok, fifo[1].chan = "descriptor",
             o = Outcome("frame", [kept EXCEPT !.glom = [NoGlom EXCEPT !.count = fifo[1].kids,
                                                                      !.pending = TRUE]],
                         Tail(fifo), delivered)
      PROVE  Effect(o)
  <2> DEFINE g == [NoGlom EXCEPT !.count = fifo[1].kids, !.pending = TRUE]
             q == [kept EXCEPT !.glom = g]
  <2>1. g \in Gloms /\ g.count = fifo[1].kids /\ g.index = 0 /\ g.pending
        BY <1>2 DEF Gloms, NoGlom, Frames
  <2>2. o = Outcome("frame", q, Tail(fifo), delivered) BY <1>9
  <2> HIDE DEF kept, g
  <2>3. q \in Rxs /\ q.glom = g /\ q.hint = 0 /\ ~q.failed BY <1>7, <2>1 DEF Rxs
  <2> HIDE DEF q
  <2>4. /\ o.rx = q /\ o.status = "frame" /\ o.fifo = Tail(fifo) /\ o.delivered = delivered
        /\ o.fault = fault
        BY <2>2 DEF Outcome
  <2>5. Takes(o) BY <1>9, <2>1, <2>3, <2>4 DEF Takes
  <2>6. QED BY <2>3, <2>4, <2>5 DEF Effect
<1>10. ASSUME fifo[1].ok, fifo[1].chan \in {"data", "reply"},
              NEW k \in {[kept EXCEPT !.hint = h] : h \in NextLengths(Tail(fifo))},
              o = IF fifo[1].chan = "data" THEN Outcome("frame", k, Tail(fifo), fifo[1].n)
                  ELSE [Outcome("reply", k, Tail(fifo), delivered) EXCEPT !.reply = fifo[1]]
       PROVE  Effect(o)
  <2>1. k \in Rxs /\ k.glom = rx.glom /\ ~k.failed /\ HintsSecond(k.hint) BY <1>8
  <2> HIDE DEF kept
  <2>2. CASE fifo[1].chan = "data" BY <1>10, <2>1, <2>2 DEF Outcome, Effect, Takes
  <2>3. CASE fifo[1].chan = "reply" BY <1>10, <2>1, <2>3 DEF Outcome, Effect, Takes
  <2>4. QED BY <1>10, <2>2, <2>3
<1>11. fifo[1].chan \in Chans BY <1>2 DEF Frames
<1> HIDE DEF kept
<1>12. QED
  BY <1>2, <1>3, <1>4, <1>5, <1>6, <1>9, <1>10, <1>11 DEF FrameRead, Chans, kept

(* Whatever a poll comes to, it is one of these. *)
LEMMA PollIs ==
    ASSUME ReceiveInv, pc # "down", NEW batch \in BOOLEAN, NEW o \in CywPoll(batch)
    PROVE  Effect(o)
<1>1. CASE o = Refused BY <1>1, FailsIs DEF ReceiveInv
<1>2. CASE ~rx.failed /\ rx.glom.count # 0 /\ o \in PollGlom BY <1>2, GlomIs
<1>3. ASSUME ~rx.failed, rx.glom.count = 0, NEW r \in Serviced(batch), o \in FifoRead(r, batch)
      PROVE  Effect(o)
  <2>1. r \in Rxs /\ r.glom = rx.glom /\ r.hint = rx.hint /\ r.failed = rx.failed
        BY ServicedIs DEF ReceiveInv
  <2>2. CASE o = TransferFails BY <2>2, FailsIs DEF ReceiveInv
  <2>3. CASE o = Outcome("none", r, fifo, delivered)
        BY <2>1, <2>3 DEF Outcome, Effect, Idles
  <2>4. CASE o = Outcome("none", [r EXCEPT !.hint = 0, !.pending = FALSE, !.serviced = FALSE],
                         fifo, delivered)
    <3> DEFINE q == [r EXCEPT !.hint = 0, !.pending = FALSE, !.serviced = FALSE]
    <3>1. q \in Rxs /\ q.glom = rx.glom /\ q.hint = 0 /\ q.failed = rx.failed
          BY <2>1 DEF Rxs
    <3> HIDE DEF q
    <3>2. o = Outcome("none", q, fifo, delivered) BY <2>4 DEF q
    <3>3. QED BY <3>1, <3>2 DEF Outcome, Effect, Idles
  <2>5. CASE fifo # <<>> /\ o \in FrameRead(r, IF batch THEN r.hint ELSE 0)
        BY <1>3, <2>1, <2>5, FrameIs
  <2>6. QED BY <1>3, <2>2, <2>3, <2>4, <2>5 DEF FifoRead
<1>4. QED BY <1>1, <1>2, <1>3 DEF CywPoll
-----------------------------------------------------------------------------
(* What moves in the FIFO, and where a command ends. *)

(* The FIFO without its first frame. *)
LEMMA TailIs ==
    ASSUME TypeOK, fifo # <<>>, fifo' = Tail(fifo)
    PROVE  /\ fifo' \in Seq(Frames) /\ Len(fifo') = Len(fifo) - 1
           /\ \A i \in Index' : i + 1 \in Index /\ fifo'[i] = fifo[i + 1]
BY DEF TypeOK, Index

(* The FIFO with one more frame. *)
LEMMA AppendIs ==
    ASSUME TypeOK, NEW f \in Frames, fifo' = Append(fifo, f)
    PROVE  /\ fifo' \in Seq(Frames) /\ Len(fifo') = Len(fifo) + 1
           /\ \A i \in Index : fifo'[i] = fifo[i]
           /\ fifo'[Len(fifo) + 1] = f
           /\ \A i \in Index' : i \in Index \/ i = Len(fifo) + 1
BY DEF TypeOK, Index

(* The FIFO with a descriptor and its superframe. *)
LEMMA PairIs ==
    ASSUME TypeOK, NEW f \in Frames, NEW g \in Frames, fifo' = fifo \o <<f, g>>
    PROVE  /\ fifo' \in Seq(Frames) /\ Len(fifo') = Len(fifo) + 2
           /\ \A i \in Index : fifo'[i] = fifo[i]
           /\ fifo'[Len(fifo) + 1] = f /\ fifo'[Len(fifo) + 2] = g
           /\ \A i \in Index' : i \in Index \/ i = Len(fifo) + 1 \/ i = Len(fifo) + 2
<1>1. <<f, g>> \in Seq(Frames) /\ Len(<<f, g>>) = 2 /\ <<f, g>>[1] = f /\ <<f, g>>[2] = g
      OBVIOUS
<1>2. QED BY <1>1 DEF TypeOK, Index

(* A frame the firmware makes is a frame. *)
LEMMA FrameTyped ==
    ASSUME NEW n \in Nat, NEW kids \in Nat, NEW len \in Nat, NEW ok \in BOOLEAN,
           NEW refused \in BOOLEAN, NEW chan \in Chans
    PROVE  /\ [Frame EXCEPT !.n = n, !.len = len] \in Frames
           /\ [Frame EXCEPT !.chan = chan, !.kids = kids] \in Frames
           /\ [Frame EXCEPT !.chan = chan, !.ok = ok, !.n = n] \in Frames
           /\ [Frame EXCEPT !.ok = ok] \in Frames
           /\ [Frame EXCEPT !.chan = chan, !.n = n, !.refused = refused] \in Frames
BY DEF Frame, Frames, Chans

(* What PostData, PostMalformed and FirmwareReplies append, and PostGlom. *)
LEMMA DataPosted ==
    ASSUME TypeOK, PostData
    PROVE  \E f \in Frames : /\ fifo' = Append(fifo, f) /\ f.chan = "data" /\ f.ok
                             /\ f.n = posted + 1 /\ posted' = posted + 1
<1>1. PICK len \in Lens : fifo' = Append(fifo, [Frame EXCEPT !.n = posted + 1, !.len = len])
      BY DEF PostData
<1>2. len \in Nat /\ posted + 1 \in Nat BY ReceiveAssumption DEF TypeOK
<1> DEFINE f == [Frame EXCEPT !.n = posted + 1, !.len = len]
<1>3. f \in Frames BY <1>2, FrameTyped DEF Chans
<1>4. f.chan = "data" /\ f.ok /\ f.n = posted + 1 BY DEF Frame
<1>5. QED BY <1>1, <1>3, <1>4 DEF PostData

(* PostMalformed makes a frame that is not sound, and says so. *)
LEMMA MalformedPosted ==
    ASSUME TypeOK, PostMalformed
    PROVE  \E f \in Frames : fifo' = Append(fifo, f) /\ f.chan = "data" /\ ~f.ok
<1> DEFINE f == [Frame EXCEPT !.ok = FALSE]
<1>1. f \in Frames BY DEF Frame, Frames, Chans
<1>2. f.chan = "data" /\ ~f.ok BY DEF Frame
<1>3. QED BY <1>1, <1>2 DEF PostMalformed

(* FirmwareReplies answers a command it held. *)
LEMMA ReplyPosted ==
    ASSUME TypeOK, FirmwareReplies
    PROVE  \E c \in held, f \in Frames :
              /\ held' = held \ {c} /\ fifo' = Append(fifo, f)
              /\ f.chan = "reply" /\ f.ok /\ f.n = c.req /\ (f.refused => c.what # "done")
<1>1. PICK c \in held, refused \in BOOLEAN :
         /\ IF refused THEN c.what # "done" ELSE c.what \in {"done", "other"}
         /\ held' = held \ {c}
         /\ fifo' = Append(fifo, [Frame EXCEPT !.chan = "reply", !.n = c.req, !.refused = refused])
      BY DEF FirmwareReplies
<1> DEFINE f == [Frame EXCEPT !.chan = "reply", !.n = c.req, !.refused = refused]
<1>2. c.req \in Nat BY DEF TypeOK
<1>3. f \in Frames BY <1>2, FrameTyped DEF Chans
<1>4. f.chan = "reply" /\ f.ok /\ f.n = c.req /\ f.refused = refused BY DEF Frame
<1> HIDE DEF f
<1>5. fifo' = Append(fifo, f) BY <1>1 DEF f
<1>6. QED BY <1>1, <1>3, <1>4, <1>5

(* PostGlom makes a descriptor and its superframe. *)
LEMMA GlomPosted ==
    ASSUME TypeOK, PostGlom
    PROVE  \E f \in Frames, g \in Frames :
              /\ fifo' = fifo \o <<f, g>>
              /\ f.chan = "descriptor" /\ f.ok /\ f.kids > 0
              /\ g.chan = "super" /\ (g.ok => g.n = posted + 1)
              /\ posted' = IF g.ok THEN posted + f.kids ELSE posted
              /\ fault' = (fault \/ ~g.ok)
<1>1. PICK kids \in 1..GlomMax, ok \in BOOLEAN :
         /\ fifo' = fifo \o <<[Frame EXCEPT !.chan = "descriptor", !.kids = kids],
                              [Frame EXCEPT !.chan = "super", !.ok = ok,
                                            !.n = IF ok THEN posted + 1 ELSE posted + 2]>>
         /\ posted' = IF ok THEN posted + kids ELSE posted
         /\ fault' = (fault \/ ~ok)
      BY DEF PostGlom
<1> DEFINE n == IF ok THEN posted + 1 ELSE posted + 2
           f == [Frame EXCEPT !.chan = "descriptor", !.kids = kids]
           g == [Frame EXCEPT !.chan = "super", !.ok = ok, !.n = n]
<1>2. kids \in Nat /\ kids > 0 /\ n \in Nat BY ReceiveAssumption DEF TypeOK
<1>3. fifo' = fifo \o <<f, g>> BY <1>1
<1>4. ok => n = posted + 1 OBVIOUS
<1> HIDE DEF n
<1>5. f \in Frames /\ g \in Frames BY <1>2, FrameTyped DEF Chans
<1>6. f.chan = "descriptor" /\ f.ok /\ f.kids = kids BY DEF Frame
<1>7. g.chan = "super" /\ g.ok = ok /\ g.n = n BY DEF Frame
<1> HIDE DEF f, g
<1>8. QED BY <1>1, <1>2, <1>3, <1>4, <1>5, <1>6, <1>7

(* A command ends the worker, or leaves it at the loop or at the next step  *)
(* of the configuration; the parser is on in the step that asks the         *)
(* firmware to glom, and stays on if the firmware agreed.                   *)
LEMMA EndsIs ==
    ASSUME NEW verdict \in {"ok", "refused", "error"}, TypeOK, CommandEnds(verdict)
    PROVE  /\ stage' \in Stages /\ glomEnabled' \in BOOLEAN
           /\ pc' \in {"configure", "loop", "down"}
           /\ pc' = "loop" => stage' = "run"
           /\ stage = "run" => pc' = "loop" /\ glomEnabled' = glomEnabled
           /\ pc' # "down" /\ stage # "run" =>
                /\ verdict # "error" /\ stage' # stage /\ stage' # "txOff"
                /\ stage' = "glomOn" => stage = "align"
                /\ glomEnabled' = (stage' = "glomOn" \/ (stage = "glomOn" /\ stage' = "run"))
                /\ stage = "glomOn" => IF verdict = "ok" THEN stage' = "run" ELSE stage' = "undo"
<1>1. PICK after \in AfterCommand(verdict) :
         /\ glomEnabled' = ParserOn(after)
         /\ stage' = IF after = "down" THEN stage ELSE after
         /\ pc' = IF after = "down" THEN "down" ELSE IF after = "run" THEN "loop" ELSE "configure"
      BY DEF CommandEnds
<1>2. QED BY <1>1 DEF AfterCommand, ParserOn, TypeOK, Stages
-----------------------------------------------------------------------------
(* Every step keeps the types. *)
LEMMA TypeKept == ReceiveInv /\ [Next]_vars => TypeOK'
<1> SUFFICES ASSUME ReceiveInv, [Next]_vars PROVE TypeOK' OBVIOUS
<1> USE ReceiveAssumption
<1>1. TypeOK BY DEF ReceiveInv
<1>2. CASE PostData
  <2>1. fifo' \in Seq(Frames) /\ posted' \in Nat BY <1>1, <1>2, DataPosted, AppendIs DEF TypeOK
  <2>2. QED BY <1>1, <1>2, <2>1 DEF PostData, TypeOK, firmware, command
<1>3. CASE PostGlom
  <2>1. PICK f \in Frames, g \in Frames :
           /\ fifo' = fifo \o <<f, g>>
           /\ posted' = IF g.ok THEN posted + f.kids ELSE posted
           /\ fault' = (fault \/ ~g.ok)
        BY <1>1, <1>3, GlomPosted
  <2>2. fifo' \in Seq(Frames) BY <1>1, <2>1, PairIs
  <2>3. f.kids \in Nat BY DEF Frames
  <2>4. posted' \in Nat BY <1>1, <2>1, <2>3 DEF TypeOK
  <2>5. fault' \in BOOLEAN BY <2>1
  <2>6. QED BY <1>1, <1>3, <2>2, <2>4, <2>5 DEF PostGlom, TypeOK, firmware, command
<1>4. CASE PostMalformed
  <2>1. fifo' \in Seq(Frames) BY <1>1, <1>4, MalformedPosted, AppendIs
  <2>2. QED BY <1>1, <1>4, <2>1 DEF PostMalformed, TypeOK, firmware, command
<1>5. CASE FirmwareActs BY <1>1, <1>5 DEF FirmwareActs, TypeOK, command
<1>6. CASE FirmwareReplies
  <2>1. fifo' \in Seq(Frames) BY <1>1, <1>6, ReplyPosted, AppendIs
  <2>2. held' \subseteq held BY <1>6 DEF FirmwareReplies
  <2>3. QED BY <1>1, <1>6, <2>1, <2>2 DEF FirmwareReplies, TypeOK, command
<1>7. ASSUME NEW o, Effect(o), fifo' = o.fifo, delivered' = o.delivered, fault' = o.fault
      PROVE  fifo' \in Seq(Frames) /\ delivered' \in Nat /\ fault' \in BOOLEAN
  <2>1. fifo' = fifo \/ (fifo # <<>> /\ fifo' = Tail(fifo))
        BY <1>7 DEF Effect, Idles, Fails, Continues, Takes
  <2>2. fifo' \in Seq(Frames) BY <1>1, <2>1, TailIs DEF TypeOK
  <2>3. delivered' \in Nat
    <3>1. rx.glom \in Gloms BY <1>1 DEF TypeOK, Rxs
    <3>2. rx.glom.first + rx.glom.index \in Nat BY <3>1 DEF Gloms
    <3>3. fifo # <<>> => fifo[1].n \in Nat
      <4>1. fifo # <<>> => fifo[1] \in Frames BY <1>1 DEF TypeOK
      <4>2. QED BY <4>1 DEF Frames
    <3>4. QED BY <1>1, <1>7, <3>2, <3>3 DEF Effect, Idles, Fails, Continues, Takes, TypeOK
  <2>4. fault' \in BOOLEAN BY <1>1, <1>7 DEF Effect, Idles, Fails, TypeOK
  <2>5. QED BY <2>2, <2>3, <2>4
<1>8. CASE BatchStarts \/ BatchEnds
  <2>1. rx' \in Rxs BY <1>1, <1>8 DEF BatchStarts, BatchEnds, TypeOK, Rxs
  <2>2. QED BY <1>1, <1>8, <2>1 DEF BatchStarts, BatchEnds, TypeOK, firmware, command
<1>9. CASE BatchPolls
  <2>1. PICK o \in CywPoll(TRUE) :
           IF o.status \in {"frame", "reply"}
           THEN Polled(o, o.rx) /\ count' = count + 1 /\ UNCHANGED pc
           ELSE /\ Polled(o, [o.rx EXCEPT !.serviced = FALSE])
                /\ count' = 0
                /\ pc' = IF o.status = "none" THEN "loop" ELSE "down"
        BY <1>9 DEF BatchPolls
  <2>2. Effect(o) BY <1>9, PollIs DEF BatchPolls
  <2>3. rx' \in Rxs BY <2>1, <2>2 DEF Polled, Effect, Rxs
  <2>4. fifo' \in Seq(Frames) /\ delivered' \in Nat /\ fault' \in BOOLEAN
        BY <1>7, <2>1, <2>2 DEF Polled
  <2>5. QED BY <1>1, <1>9, <2>1, <2>3, <2>4 DEF BatchPolls, TypeOK, firmware, command
<1>10. CASE CommandStarts BY <1>1, <1>10 DEF CommandStarts, TypeOK, firmware
<1>11. CASE CreditPolls
  <2>1. PICK o \in CywPoll(FALSE) :
           /\ Polled(o, o.rx)
           /\ IF o.status = "error" THEN CommandEnds("error")
              ELSE UNCHANGED <<pc, stage, glomEnabled>>
        BY <1>11 DEF CreditPolls
  <2>2. Effect(o) BY <1>11, PollIs DEF CreditPolls
  <2>3. fifo' \in Seq(Frames) /\ delivered' \in Nat /\ fault' \in BOOLEAN /\ rx' \in Rxs
        BY <1>7, <2>1, <2>2 DEF Polled, Effect
  <2>4. QED BY <1>1, <1>11, <2>1, <2>3, EndsIs DEF CreditPolls, TypeOK, firmware
<1>12. CASE CommandSends
  <2>1. [req |-> serial, what |-> What] \in [req : Nat, what : {"on", "off", "other", "done"}]
        BY <1>1 DEF What, TypeOK
  <2>2. held' \subseteq [req : Nat, what : {"on", "off", "other", "done"}]
        BY <1>1, <1>12, <2>1 DEF CommandSends, TypeOK
  <2>3. rx' \in Rxs /\ fault' \in BOOLEAN BY <1>1, <1>12 DEF CommandSends, TypeOK, Rxs
  <2>4. QED BY <1>1, <1>12, <2>2, <2>3, EndsIs DEF CommandSends, TypeOK
<1>13. CASE ReplyPolls
  <2>1. PICK o \in CywPoll(FALSE) :
           /\ Polled(o, o.rx)
           /\ \/ CommandEnds("error") \/ UNCHANGED <<pc, stage, glomEnabled>>
              \/ CommandEnds("ok") \/ CommandEnds("refused")
        BY <1>13 DEF ReplyPolls
  <2>2. Effect(o) BY <1>13, PollIs DEF ReplyPolls
  <2>3. fifo' \in Seq(Frames) /\ delivered' \in Nat /\ fault' \in BOOLEAN /\ rx' \in Rxs
        BY <1>7, <2>1, <2>2 DEF Polled, Effect
  <2>4. QED BY <1>1, <1>13, <2>1, <2>3, EndsIs DEF ReplyPolls, TypeOK, firmware
<1>14. CASE CommandTimesOut BY <1>1, <1>14, EndsIs DEF CommandTimesOut, TypeOK, firmware
<1>15. CASE Restarts
  <2>1. Fresh \in Rxs BY DEF Fresh, NoGlom, Rxs, Gloms
  <2>2. fifo' \in Seq(Frames) BY <1>15 DEF Restarts
  <2>3. rx' \in Rxs BY <1>15, <2>1 DEF Restarts
  <2>4. QED BY <1>1, <1>15, <2>2, <2>3 DEF Restarts, TypeOK, Stages
<1>16. CASE UNCHANGED vars BY <1>1, <1>16 DEF vars, firmware, command, TypeOK
<1> QED
  BY <1>2, <1>3, <1>4, <1>5, <1>6, <1>8, <1>9, <1>10, <1>11, <1>12, <1>13, <1>14, <1>15, <1>16
     DEF Next, Firmware, Worker
-----------------------------------------------------------------------------
(* A poll, of whichever caller, keeps what it finds or takes the first frame. *)
LEMMA PollMoves ==
    ASSUME ReceiveInv, BatchPolls \/ CreditPolls \/ ReplyPolls
    PROVE  /\ UNCHANGED <<posted, firmware, serial, restarts>>
           /\ \E o : /\ Effect(o) /\ fifo' = o.fifo /\ delivered' = o.delivered
                     /\ fault' = o.fault /\ rx'.glom = o.rx.glom /\ rx'.hint = o.rx.hint
                     /\ rx'.failed = o.rx.failed
                     /\ IF ReplyPolls
                        THEN \/ UNCHANGED answer /\ CommandEnds("error")
                             \/ UNCHANGED <<answer, pc, stage, glomEnabled>>
                             \/ /\ o.status = "reply" /\ ReplyMatches(o.reply)
                                /\ CommandEnds(IF o.reply.refused THEN "refused" ELSE "ok")
                                /\ answer' = <<serial, o.reply.n>>
                        ELSE /\ UNCHANGED answer
                             /\ \/ UNCHANGED <<pc, stage, glomEnabled>>
                                \/ CreditPolls /\ CommandEnds("error")
                                \/ /\ pc' \in {"loop", "down"} /\ pc = "batch"
                                   /\ UNCHANGED <<stage, glomEnabled>>
<1>1. CASE BatchPolls
  <2>1. PICK o \in CywPoll(TRUE) :
           IF o.status \in {"frame", "reply"}
           THEN Polled(o, o.rx) /\ count' = count + 1 /\ UNCHANGED pc
           ELSE /\ Polled(o, [o.rx EXCEPT !.serviced = FALSE])
                /\ count' = 0
                /\ pc' = IF o.status = "none" THEN "loop" ELSE "down"
        BY <1>1 DEF BatchPolls
  <2>2. Effect(o) BY <1>1, PollIs DEF BatchPolls
  <2>3. /\ rx'.glom = o.rx.glom /\ rx'.hint = o.rx.hint /\ rx'.failed = o.rx.failed
        /\ fifo' = o.fifo /\ delivered' = o.delivered /\ fault' = o.fault
        BY <2>1, <2>2 DEF Polled, Effect, Rxs
  <2>4. ~ReplyPolls BY <1>1 DEF BatchPolls, ReplyPolls
  <2>5. pc' = pc \/ pc' \in {"loop", "down"} BY <2>1
  <2>6. pc = "batch" /\ UNCHANGED <<posted, firmware, command, restarts>>
        BY <1>1 DEF BatchPolls
  <2>7. QED BY <2>2, <2>3, <2>4, <2>5, <2>6 DEF command
<1>2. CASE CreditPolls
  <2>1. PICK o \in CywPoll(FALSE) :
           /\ Polled(o, o.rx)
           /\ CommandEnds("error") \/ UNCHANGED <<pc, stage, glomEnabled>>
        BY <1>2 DEF CreditPolls
  <2>2. Effect(o) BY <1>2, PollIs DEF CreditPolls
  <2>3. ~ReplyPolls /\ UNCHANGED <<posted, firmware, serial, answer, restarts>>
        BY <1>2 DEF CreditPolls, ReplyPolls
  <2>4. QED BY <1>2, <2>1, <2>2, <2>3 DEF Polled
<1>3. CASE ReplyPolls
  <2>1. PICK o \in CywPoll(FALSE) :
           /\ Polled(o, o.rx)
           /\ \/ UNCHANGED answer /\ CommandEnds("error")
              \/ UNCHANGED <<answer, pc, stage, glomEnabled>>
              \/ /\ o.status = "reply" /\ ReplyMatches(o.reply)
                 /\ CommandEnds(IF o.reply.refused THEN "refused" ELSE "ok")
                 /\ answer' = <<serial, o.reply.n>>
        BY <1>3 DEF ReplyPolls
  <2>2. Effect(o) BY <1>3, PollIs DEF ReplyPolls
  <2>3. UNCHANGED <<posted, firmware, serial, restarts>> BY <1>3 DEF ReplyPolls
  <2>4. QED BY <1>3, <2>1, <2>2, <2>3 DEF Polled
<1>4. QED BY <1>1, <1>2, <1>3

(* Identifiers that agree and are less than a period apart are of the same  *)
(* request.                                                                 *)
LEMMA SameRequest ==
    ASSUME NEW m \in Nat \ {0}, NEW a \in Nat, NEW b \in Nat, a <= b, b - a < m, a % m = b % m
    PROVE  a = b
<1>1. /\ a = m * (a \div m) + (a % m) /\ b = m * (b \div m) + (b % m)
      /\ a \div m \in Int /\ b \div m \in Int
      OBVIOUS
<1> DEFINE q == (b \div m) - (a \div m)
<1>2. q \in Int /\ b - a = m * q BY <1>1
<1> HIDE DEF q
<1>3. q <= 0 BY <1>2
<1>4. QED BY <1>2, <1>3

(* Where only frames are taken and no command begins, the requests are as   *)
(* they were.                                                               *)
LEMMA RequestsStand ==
    ASSUME ReceiveInv, UNCHANGED <<held, serial>>, ReplyIsOwn',
           fifo' = fifo \/ (fifo # <<>> /\ fifo' = Tail(fifo)),
           pc' = pc \/ pc' \notin {"credit", "reply"}
    PROVE  RequestInv'
<1> USE DEF ReceiveInv, RequestInv, Asked
<1>1. CASE fifo' = fifo BY <1>1 DEF Index
<1>2. CASE fifo # <<>> /\ fifo' = Tail(fifo)
  <2>1. \A i \in Index' : i + 1 \in Index /\ fifo'[i] = fifo[i + 1] BY <1>2, TailIs
  <2>2. QED BY <2>1
<1>3. QED BY <1>1, <1>2

(* Every step keeps the requests apart: CywFirmwareCommand takes its own    *)
(* reply only.                                                              *)
LEMMA RequestKept == ReceiveInv /\ [Next]_vars => RequestInv'
<1> SUFFICES ASSUME ReceiveInv, [Next]_vars PROVE RequestInv' OBVIOUS
<1> USE ReceiveAssumption
<1>1. TypeOK /\ RequestInv BY DEF ReceiveInv
<1>2. ASSUME NEW f \in Frames, fifo' = Append(fifo, f), f.chan # "reply",
             UNCHANGED <<held, serial, answer, pc>>
      PROVE  RequestInv'
  <2>1. \A i \in Index' : (i \in Index /\ fifo'[i] = fifo[i]) \/ fifo'[i] = f
        BY <1>1, <1>2, AppendIs
  <2>2. QED BY <1>1, <1>2, <2>1 DEF RequestInv, Asked, ReplyIsOwn
<1>3. CASE PostData
  <2>1. UNCHANGED <<held, serial, answer, pc>> BY <1>3 DEF PostData, firmware, command
  <2>2. QED BY <1>1, <1>2, <1>3, <2>1, DataPosted
<1>4. CASE PostMalformed
  <2>1. UNCHANGED <<held, serial, answer, pc>> BY <1>4 DEF PostMalformed, firmware, command
  <2>2. QED BY <1>1, <1>2, <1>4, <2>1, MalformedPosted
<1>5. CASE PostGlom
  <2>1. PICK f \in Frames, g \in Frames :
           fifo' = fifo \o <<f, g>> /\ f.chan = "descriptor" /\ g.chan = "super"
        BY <1>1, <1>5, GlomPosted
  <2>2. \A i \in Index' : \/ i \in Index /\ fifo'[i] = fifo[i]
                          \/ fifo'[i] = f \/ fifo'[i] = g
        BY <1>1, <2>1, PairIs
  <2>3. UNCHANGED <<held, serial, answer, pc>> BY <1>5 DEF PostGlom, firmware, command
  <2>4. QED BY <1>1, <2>1, <2>2, <2>3 DEF RequestInv, Asked, ReplyIsOwn
<1>6. CASE FirmwareActs
  <2>1. PICK c \in held : held' = (held \ {c}) \cup {[c EXCEPT !.what = "done"]}
        BY <1>6 DEF FirmwareActs
  <2>2. [c EXCEPT !.what = "done"].req = c.req BY <1>1 DEF TypeOK
  <2>3. \A d \in held' : \E e \in held : d.req = e.req /\ (d = e \/ e = c)
        BY <2>1, <2>2
  <2>4. \A d, e \in held' : d.req = e.req => d = e
        BY <1>1, <2>1, <2>2 DEF RequestInv
  <2>5. UNCHANGED <<fifo, serial, answer, pc>> BY <1>6 DEF FirmwareActs, command
  <2>6. QED BY <1>1, <2>3, <2>4, <2>5 DEF RequestInv, Asked, ReplyIsOwn, Index
<1>7. CASE FirmwareReplies
  <2>1. PICK c \in held, f \in Frames :
           /\ held' = held \ {c} /\ fifo' = Append(fifo, f)
           /\ f.chan = "reply" /\ f.n = c.req
        BY <1>1, <1>7, ReplyPosted
  <2>2. \A i \in Index' : (i \in Index /\ fifo'[i] = fifo[i]) \/ fifo'[i] = f
        BY <1>1, <2>1, AppendIs
  <2>3. UNCHANGED <<serial, answer, pc>> BY <1>7 DEF FirmwareReplies, command
  <2>4. QED BY <1>1, <2>1, <2>2, <2>3 DEF RequestInv, Asked, ReplyIsOwn
<1>8. CASE BatchStarts \/ BatchEnds
      BY <1>1, <1>8, RequestsStand
         DEF BatchStarts, BatchEnds, firmware, command, RequestInv, ReplyIsOwn
<1>9. CASE BatchPolls \/ CreditPolls \/ ReplyPolls
  <2>1. PICK o :
          /\ Effect(o) /\ fifo' = o.fifo
          /\ IF ReplyPolls
             THEN \/ UNCHANGED answer /\ CommandEnds("error")
                  \/ UNCHANGED <<answer, pc, stage, glomEnabled>>
                  \/ /\ o.status = "reply" /\ ReplyMatches(o.reply)
                     /\ CommandEnds(IF o.reply.refused THEN "refused" ELSE "ok")
                     /\ answer' = <<serial, o.reply.n>>
             ELSE /\ UNCHANGED answer
                  /\ \/ UNCHANGED <<pc, stage, glomEnabled>>
                     \/ CreditPolls /\ CommandEnds("error")
                     \/ pc' \in {"loop", "down"}
        BY <1>9, PollMoves
  <2>2. UNCHANGED <<held, serial>> BY <1>9, PollMoves DEF firmware
  <2>3. fifo' = fifo \/ (fifo # <<>> /\ fifo' = Tail(fifo))
        BY <2>1 DEF Effect, Idles, Fails, Continues, Takes
  <2>4. pc' = pc \/ pc' \notin {"credit", "reply"}
        BY <1>1, <2>1, EndsIs
  <2>5. CASE UNCHANGED answer
        BY <1>1, <2>2, <2>3, <2>4, <2>5, RequestsStand DEF RequestInv, ReplyIsOwn
  <2>6. ASSUME ReplyPolls, o.status = "reply", ReplyMatches(o.reply),
               CommandEnds(IF o.reply.refused THEN "refused" ELSE "ok"),
               answer' = <<serial, o.reply.n>>
        PROVE  RequestInv'
    <3>1. fifo # <<>> /\ fifo[1].chan = "reply" /\ o.reply = fifo[1]
          BY <2>1, <2>6 DEF Effect, Idles, Fails, Continues, Takes
    <3>2. Asked(fifo[1].n) /\ pc = "reply"
          BY <1>1, <2>6, <3>1 DEF RequestInv, Index, TypeOK, ReplyPolls
    <3>3. fifo[1].n = serial
          BY <1>1, <2>6, <3>1, <3>2, SameRequest DEF Asked, ReplyMatches, TypeOK
    <3>4. ReplyIsOwn' BY <2>6, <3>1, <3>3 DEF ReplyIsOwn
    <3>5. QED BY <2>2, <2>3, <2>4, <3>4, RequestsStand
  <2>7. QED BY <2>1, <2>5, <2>6
<1>10. CASE CommandStarts
  <2>1. /\ serial' = serial + 1 /\ pc' = "credit" /\ UNCHANGED <<held, fifo, answer>>
        BY <1>10 DEF CommandStarts, firmware
  <2>2. /\ \A c \in held : c.req <= serial /\ serial + 1 - c.req < IdMod /\ c.req \in Nat
        /\ \A i \in Index : fifo[i].chan = "reply" =>
              fifo[i].n <= serial /\ serial + 1 - fifo[i].n < IdMod /\ fifo[i].n \in Nat
        BY <1>1, <1>10 DEF CommandStarts, IdsOutlastReplies, Awaited, RequestInv, Asked, Index
  <2>3. ASSUME NEW req \in Nat, req <= serial, serial + 1 - req < IdMod PROVE Asked(req)'
        BY <1>1, <2>1, <2>3 DEF Asked, TypeOK
  <2>4. QED BY <1>1, <2>1, <2>2, <2>3 DEF RequestInv, ReplyIsOwn, Index
<1>11. CASE CommandSends
  <2>1. CASE pc' = "reply" /\ held' = held \cup {[req |-> serial, what |-> What]}
    <3>1. \A c \in held' : c \in held \/ (c.req = serial /\ c = [req |-> serial, what |-> What])
          BY <2>1
    <3>2. UNCHANGED <<fifo, serial, answer>> /\ pc = "credit" BY <1>11 DEF CommandSends
    <3>3. QED BY <1>1, <2>1, <3>1, <3>2 DEF RequestInv, Asked, ReplyIsOwn, Index, TypeOK
  <2>2. CASE CommandEnds("error") /\ UNCHANGED held
    <3>1. pc' \notin {"credit", "reply"} BY <1>1, <2>2, EndsIs
    <3>2. QED BY <1>1, <1>11, <2>2, <3>1, RequestsStand DEF CommandSends, RequestInv, ReplyIsOwn
  <2>3. QED BY <1>11, <2>1, <2>2 DEF CommandSends
<1>12. CASE CommandTimesOut
  <2>1. pc' \notin {"credit", "reply"} BY <1>1, <1>12, EndsIs DEF CommandTimesOut
  <2>2. QED BY <1>1, <1>12, <2>1, RequestsStand
          DEF CommandTimesOut, firmware, RequestInv, ReplyIsOwn
<1>13. CASE Restarts BY <1>1, <1>13 DEF Restarts, RequestInv, ReplyIsOwn, Index
<1>14. CASE UNCHANGED vars
  BY <1>1, <1>14, RequestsStand DEF vars, firmware, command, RequestInv, ReplyIsOwn
<1> QED
  BY <1>3, <1>4, <1>5, <1>6, <1>7, <1>8, <1>9, <1>10, <1>11, <1>12, <1>13, <1>14
     DEF Next, Firmware, Worker
-----------------------------------------------------------------------------
(* Frames that leave the FIFO bring no descriptor and no reply. *)
LEMMA TakenBringsNone ==
    ASSUME TypeOK, fifo' = fifo \/ (fifo # <<>> /\ fifo' = Tail(fifo))
    PROVE  \A i \in Index' : \E j \in Index : fifo'[i] = fifo[j]
<1>1. CASE fifo' = fifo BY <1>1 DEF Index
<1>2. CASE fifo # <<>> /\ fifo' = Tail(fifo) BY <1>2, TailIs
<1>3. QED BY <1>1, <1>2

(* The parser where only frames are taken, or data or other replies come.   *)
LEMMA ParserStands ==
    ASSUME ParserInv, UNCHANGED <<firmware, serial, pc, stage, glomEnabled>>,
           \A i \in Index' : \/ \E j \in Index : fifo'[i] = fifo[j]
                             \/ fifo'[i].chan = "data"
    PROVE  ParserInv'
<1>1. NoDescriptor => NoDescriptor' BY DEF NoDescriptor
<1>2. NoGlomming => NoGlomming' BY <1>1 DEF NoGlomming, firmware
<1>3. (\E i \in Index' : fifo'[i].chan = "reply" /\ fifo'[i].n = serial /\ fifo'[i].refused)
        => \E i \in Index : fifo[i].chan = "reply" /\ fifo[i].n = serial /\ fifo[i].refused
      OBVIOUS
<1>4. QED BY <1>1, <1>2, <1>3 DEF ParserInv, firmware

(* The parser where a command ends: it is switched off only if the firmware *)
(* refused to glom, and then nothing gloms.                                 *)
LEMMA ParserEnds ==
    ASSUME TypeOK, ParserInv, UNCHANGED firmware, NEW verdict \in {"ok", "refused", "error"},
           CommandEnds(verdict), pc # "down",
           \A i \in Index' : \E j \in Index : fifo'[i] = fifo[j],
           stage = "glomOn" /\ verdict = "refused" => NoGlomming
    PROVE  ParserInv'
<1>1. NoGlomming => NoGlomming' BY DEF NoGlomming, NoDescriptor, firmware
<1>2. pc' \notin {"credit", "reply", "batch"} BY EndsIs
<1>3. CASE stage = "run"
  <2>1. stage' = "run" /\ glomEnabled' = glomEnabled BY <1>3, EndsIs
  <2>2. QED BY <1>1, <1>2, <2>1 DEF ParserInv
<1>4. CASE pc' = "down" BY <1>4 DEF ParserInv
<1>5. CASE stage # "run" /\ pc' # "down"
  <2>1. /\ verdict # "error" /\ stage' # "txOff" /\ (pc' = "loop" => stage' = "run")
        /\ stage' = "glomOn" => stage = "align"
        /\ glomEnabled' = (stage' = "glomOn" \/ (stage = "glomOn" /\ stage' = "run"))
        /\ stage = "glomOn" => IF verdict = "ok" THEN stage' = "run" ELSE stage' = "undo"
        BY <1>5, EndsIs
  <2>2. CASE stage = "glomOn"
    <3>1. CASE verdict = "ok" BY <1>2, <2>1, <2>2, <3>1 DEF ParserInv
    <3>2. CASE verdict = "refused" BY <1>1, <1>2, <2>1, <2>2, <3>2 DEF ParserInv
    <3>3. QED BY <2>1, <3>1, <3>2
  <2>3. CASE stage # "glomOn"
    <3>1. NoGlomming BY <1>5, <2>3 DEF ParserInv, TypeOK, Stages
    <3>2. QED BY <1>1, <1>2, <2>1, <2>3, <3>1 DEF ParserInv
  <2>4. QED BY <2>2, <2>3
<1>6. QED BY <1>3, <1>4, <1>5

(* Every step keeps the parser on wherever a descriptor may come.          *)
LEMMA ParserKept == ReceiveInv /\ [Next]_vars => ParserInv'
<1> SUFFICES ASSUME ReceiveInv, [Next]_vars PROVE ParserInv' OBVIOUS
<1>1. TypeOK /\ RequestInv /\ ParserInv BY DEF ReceiveInv
<1>2. CASE PostData \/ PostMalformed
  <2>1. PICK f \in Frames : fifo' = Append(fifo, f) /\ f.chan = "data"
        BY <1>1, <1>2, DataPosted, MalformedPosted
  <2>2. \A i \in Index' : (\E j \in Index : fifo'[i] = fifo[j]) \/ fifo'[i].chan = "data"
        BY <1>1, <2>1, AppendIs
  <2>3. UNCHANGED <<firmware, serial, pc, stage, glomEnabled>>
        BY <1>2 DEF PostData, PostMalformed, command
  <2>4. QED BY <1>1, <2>2, <2>3, ParserStands
<1>3. CASE PostGlom
  <2>1. fwGlom /\ ~NoGlomming BY <1>3 DEF PostGlom, NoGlomming
  <2>2. PICK f \in Frames, g \in Frames :
           fifo' = fifo \o <<f, g>> /\ f.chan = "descriptor" /\ g.chan = "super"
        BY <1>1, <1>3, GlomPosted
  <2>3. \A i \in Index' : fifo'[i].chan = "reply" => \E j \in Index : fifo'[i] = fifo[j]
        BY <1>1, <2>2, PairIs
  <2>4. UNCHANGED <<firmware, serial, pc, stage, glomEnabled>> BY <1>3 DEF PostGlom, command
  <2>5. QED BY <1>1, <2>1, <2>3, <2>4 DEF ParserInv, firmware
<1>4. CASE FirmwareActs
  <2>1. PICK c \in held :
           /\ c.what \in {"on", "off"} /\ fwGlom' = (c.what = "on")
           /\ held' = (held \ {c}) \cup {[c EXCEPT !.what = "done"]}
        BY <1>4 DEF FirmwareActs
  <2>2. [c EXCEPT !.what = "done"].req = c.req /\ [c EXCEPT !.what = "done"].what = "done"
        BY <1>1 DEF TypeOK
  <2>3. \A d \in held' : d.what # "done" => d \in held /\ d # c BY <2>1, <2>2
  <2>4. UNCHANGED <<fifo, serial, pc, stage, glomEnabled>> BY <1>4 DEF FirmwareActs, command
  <2>5. NoDescriptor' = NoDescriptor BY <2>4 DEF NoDescriptor, Index
  <2>6. NoGlomming => NoGlomming' BY <2>1, <2>3, <2>5 DEF NoGlomming
  <2>7. \A d \in held : d.req = c.req => d = c BY <1>1 DEF RequestInv
  <2>8. QED BY <1>1, <2>1, <2>3, <2>4, <2>5, <2>6, <2>7 DEF ParserInv, Index
<1>5. CASE FirmwareReplies
  <2>1. PICK c \in held, f \in Frames :
           /\ held' = held \ {c} /\ fifo' = Append(fifo, f)
           /\ f.chan = "reply" /\ f.n = c.req /\ (f.refused => c.what # "done")
        BY <1>1, <1>5, ReplyPosted
  <2>2. \A i \in Index' : (\E j \in Index : fifo'[i] = fifo[j]) \/ fifo'[i] = f
        BY <1>1, <2>1, AppendIs
  <2>3. UNCHANGED <<fwGlom, serial, pc, stage, glomEnabled>>
        BY <1>5 DEF FirmwareReplies, command
  <2>4. NoDescriptor => NoDescriptor' BY <2>1, <2>2 DEF NoDescriptor
  <2>5. NoGlomming => NoGlomming' BY <2>1, <2>3, <2>4 DEF NoGlomming
  <2>6. \A d \in held : d.req = c.req => d = c BY <1>1 DEF RequestInv
  <2>7. ASSUME stage = "glomOn", pc = "reply",
               NEW i \in Index', fifo'[i].chan = "reply", fifo'[i].n = serial, fifo'[i].refused
        PROVE  NoGlomming'
    <3>1. CASE fifo'[i] = f
      <4>1. ~fwGlom /\ NoDescriptor BY <1>1, <2>1, <2>7, <3>1 DEF ParserInv
      <4>2. \A d \in held' : d.what # "on" BY <1>1, <2>1, <2>6, <2>7, <3>1 DEF ParserInv
      <4>3. QED BY <2>3, <2>4, <4>1, <4>2 DEF NoGlomming
    <3>2. CASE \E j \in Index : fifo'[i] = fifo[j]
          BY <1>1, <2>5, <2>7, <3>2 DEF ParserInv
    <3>3. QED BY <2>2, <3>1, <3>2
  <2>8. QED BY <1>1, <2>1, <2>3, <2>4, <2>5, <2>7 DEF ParserInv
<1>6. CASE BatchStarts \/ BatchEnds
  <2>1. /\ pc \in {"loop", "batch"} /\ pc' \in {"loop", "batch"}
        /\ UNCHANGED <<fifo, firmware, serial, stage, glomEnabled>>
        BY <1>6 DEF BatchStarts, BatchEnds, command
  <2>2. QED BY <1>1, <2>1 DEF ParserInv, NoGlomming, NoDescriptor, Index, firmware
<1>7. CASE BatchPolls \/ CreditPolls \/ ReplyPolls
  <2>1. PICK o :
          /\ Effect(o) /\ fifo' = o.fifo
          /\ IF ReplyPolls
             THEN \/ UNCHANGED answer /\ CommandEnds("error")
                  \/ UNCHANGED <<answer, pc, stage, glomEnabled>>
                  \/ /\ o.status = "reply" /\ ReplyMatches(o.reply)
                     /\ CommandEnds(IF o.reply.refused THEN "refused" ELSE "ok")
             ELSE \/ UNCHANGED <<pc, stage, glomEnabled>>
                  \/ CreditPolls /\ CommandEnds("error")
                  \/ /\ pc' \in {"loop", "down"} /\ pc = "batch"
                     /\ UNCHANGED <<stage, glomEnabled>>
        BY <1>7, PollMoves
  <2>2. UNCHANGED <<firmware, serial>> BY <1>7, PollMoves
  <2>3. \A i \in Index' : \E j \in Index : fifo'[i] = fifo[j]
        BY <1>1, <2>1, TakenBringsNone DEF Effect, Idles, Fails, Continues, Takes
  <2>4. pc # "down" BY <1>7 DEF BatchPolls, CreditPolls, ReplyPolls
  <2>5. CASE UNCHANGED <<pc, stage, glomEnabled>> BY <1>1, <2>2, <2>3, <2>5, ParserStands
  <2>6. CASE CommandEnds("error") BY <1>1, <2>2, <2>3, <2>4, <2>6, ParserEnds
  <2>7. CASE pc' \in {"loop", "down"} /\ pc = "batch" /\ UNCHANGED <<stage, glomEnabled>>
    <3>1. NoGlomming => NoGlomming' BY <2>2, <2>3 DEF NoGlomming, NoDescriptor, firmware
    <3>2. QED BY <1>1, <2>7, <3>1 DEF ParserInv
  <2>8. ASSUME ReplyPolls, o.status = "reply", ReplyMatches(o.reply),
               CommandEnds(IF o.reply.refused THEN "refused" ELSE "ok")
        PROVE  ParserInv'
    <3>1. /\ fifo # <<>> /\ fifo[1].chan = "reply" /\ o.reply = fifo[1]
          /\ 1 \in Index /\ pc = "reply"
          BY <1>1, <2>1, <2>8
             DEF Effect, Idles, Fails, Continues, Takes, ReplyPolls, Index, TypeOK
    <3>2. fifo[1].n = serial
          BY <1>1, <2>8, <3>1, SameRequest, ReceiveAssumption
             DEF RequestInv, Asked, ReplyMatches, TypeOK
    <3>3. stage = "glomOn" /\ o.reply.refused => NoGlomming
          BY <1>1, <3>1, <3>2 DEF ParserInv
    <3>4. CASE o.reply.refused BY <1>1, <2>2, <2>3, <2>4, <2>8, <3>3, <3>4, ParserEnds
    <3>5. CASE ~o.reply.refused BY <1>1, <2>2, <2>3, <2>4, <2>8, <3>5, ParserEnds
    <3>6. QED BY <3>4, <3>5
  <2>9. QED BY <2>1, <2>5, <2>6, <2>7, <2>8
<1>8. CASE CommandStarts
  <2>1. /\ pc \in {"configure", "loop"} /\ pc' = "credit"
        /\ UNCHANGED <<fifo, firmware, stage, glomEnabled>>
        BY <1>8 DEF CommandStarts
  <2>2. NoGlomming' = NoGlomming BY <2>1 DEF NoGlomming, NoDescriptor, Index, firmware
  <2>3. QED BY <1>1, <2>1, <2>2 DEF ParserInv
<1>9. CASE CommandSends
  <2>1. pc = "credit" /\ UNCHANGED <<fifo, fwGlom, serial>> BY <1>9 DEF CommandSends
  <2>2. ASSUME pc' = "reply", held' = held \cup {[req |-> serial, what |-> What]},
               UNCHANGED <<stage, glomEnabled>>
        PROVE  ParserInv'
    <3>1. \A c \in held' : c \in held \/ (c.req = serial /\ c.what = What) BY <2>2
    <3>2. NoDescriptor' = NoDescriptor BY <2>1 DEF NoDescriptor, Index
    <3>3. CASE stage = "glomOn"
      <4>1. NoGlomming /\ glomEnabled BY <1>1, <2>1, <3>3 DEF ParserInv
      <4>2. \A i \in Index : ~(fifo[i].chan = "reply" /\ fifo[i].n = serial)
            BY <1>1, <2>1 DEF RequestInv, Asked, TypeOK
      <4>3. QED
        BY <2>1, <2>2, <3>1, <3>2, <3>3, <4>1, <4>2 DEF ParserInv, NoGlomming, Index
    <3>4. CASE stage # "glomOn"
      <4>1. What # "on" BY <3>4 DEF What
      <4>2. NoGlomming => NoGlomming' BY <2>1, <3>1, <3>2, <4>1 DEF NoGlomming
      <4>3. QED BY <1>1, <2>1, <2>2, <3>4, <4>2 DEF ParserInv
    <3>5. QED BY <3>3, <3>4
  <2>3. CASE CommandEnds("error") /\ UNCHANGED held
    <3>1. \A i \in Index' : \E j \in Index : fifo'[i] = fifo[j] BY <2>1 DEF Index
    <3>2. QED BY <1>1, <2>1, <2>3, <3>1, ParserEnds DEF firmware
  <2>4. QED BY <1>9, <2>2, <2>3 DEF CommandSends
<1>10. CASE CommandTimesOut
  <2>1. pc = "reply" /\ CommandEnds("error") /\ UNCHANGED <<fifo, firmware>>
        BY <1>10 DEF CommandTimesOut
  <2>2. \A i \in Index' : \E j \in Index : fifo'[i] = fifo[j] BY <2>1 DEF Index
  <2>3. QED BY <1>1, <2>1, <2>2, ParserEnds
<1>11. CASE Restarts
  <2>1. /\ fifo' = <<>> /\ fwGlom' = FALSE /\ held' = {} /\ stage' = "txOff"
        /\ pc' = "configure" /\ glomEnabled' = FALSE
        BY <1>11 DEF Restarts
  <2>2. NoGlomming' BY <2>1 DEF NoGlomming, NoDescriptor, Index
  <2>3. QED BY <2>1, <2>2 DEF ParserInv
<1>12. CASE UNCHANGED vars
  <2>1. UNCHANGED <<fifo, firmware, serial, pc, stage, glomEnabled>>
        BY <1>12 DEF vars, firmware, command
  <2>2. \A i \in Index' : \E j \in Index : fifo'[i] = fifo[j] BY <2>1 DEF Index
  <2>3. QED BY <1>1, <2>1, <2>2, ParserStands
<1> QED
  BY <1>2, <1>3, <1>4, <1>5, <1>6, <1>7, <1>8, <1>9, <1>10, <1>11, <1>12
     DEF Next, Firmware, Worker
-----------------------------------------------------------------------------
(* The stream where the FIFO is as it was and the driver keeps its place. *)
LEMMA StreamStands ==
    ASSUME ReceiveInv, ~rx.failed, UNCHANGED <<fifo, posted, delivered>>, fault => fault',
           rx'.glom = rx.glom, rx'.hint \in {0, rx.hint}
    PROVE  (ShapeInv /\ Numbered)'
<1>1. ShapeInv /\ Numbered BY DEF ReceiveInv, StreamInv
<1>2. ShapeInv' BY <1>1 DEF ShapeInv, Hints, Index
<1>3. Numbered' BY <1>1 DEF Numbered, Numbers, Carries, Kids, Left, Index
<1>4. QED BY <1>2, <1>3

(* A numbering with one more place. *)
LEMMA Longer ==
    ASSUME NEW n \in Nat, NEW u \in [1..(n + 1) -> Nat], NEW p \in Nat
    PROVE  \E t \in [1..(n + 2) -> Nat] :
              (\A i \in 1..(n + 1) : t[i] = u[i]) /\ t[n + 2] = p
<1> DEFINE t == [i \in 1..(n + 2) |-> IF i <= n + 1 THEN u[i] ELSE p]
<1>1. t \in [1..(n + 2) -> Nat] OBVIOUS
<1>2. (\A i \in 1..(n + 1) : t[i] = u[i]) /\ t[n + 2] = p OBVIOUS
<1> HIDE DEF t
<1>3. QED BY <1>1, <1>2

(* A numbering without its first place. *)
LEMMA Shorter ==
    ASSUME NEW n \in Nat \ {0}, NEW u \in [1..(n + 1) -> Nat]
    PROVE  \E t \in [1..n -> Nat] : \A i \in 1..n : t[i] = u[i + 1]
<1> DEFINE t == [i \in 1..n |-> u[i + 1]]
<1>1. t \in [1..n -> Nat] OBVIOUS
<1>2. \A i \in 1..n : t[i] = u[i + 1] OBVIOUS
<1> HIDE DEF t
<1>3. QED BY <1>1, <1>2

(* The stream where the firmware queues a frame. *)
LEMMA StreamAppends ==
    ASSUME ReceiveInv, ~rx.failed, UNCHANGED <<rx, delivered>>, fault => fault',
           NEW f \in Frames, fifo' = Append(fifo, f),
           \/ f.chan = "data" /\ f.ok /\ f.n = posted + 1 /\ posted' = posted + 1
           \/ f.chan = "data" /\ ~f.ok /\ fault' /\ posted' = posted
           \/ f.chan = "reply" /\ f.ok /\ posted' = posted
    PROVE  (ShapeInv /\ Numbered)'
<1>1. TypeOK /\ ShapeInv /\ Numbered BY DEF ReceiveInv, StreamInv
<1>2. /\ Len(fifo') = Len(fifo) + 1 /\ Len(fifo) \in Nat
      /\ \A i \in Index : fifo'[i] = fifo[i]
      /\ fifo'[Len(fifo) + 1] = f
      /\ \A i \in Index' : i \in Index \/ i = Len(fifo) + 1
  <2>1. Len(fifo) \in Nat BY <1>1 DEF TypeOK
  <2>2. QED BY <1>1, <2>1, AppendIs
<1>3. \A i \in Index : i \in Index' /\ (i + 1 \in Index => i + 1 \in Index') BY <1>2 DEF Index
<1>4. fifo = <<>> \/ (1 \in Index /\ fifo'[1] = fifo[1]) BY <1>1, <1>2 DEF TypeOK, Index
<1>5. fifo' # <<>> BY <1>1, <1>2 DEF TypeOK
<1>6. fifo = <<>> => fifo'[1] = f BY <1>2
<1>7. \A i \in Index : i = 1 \/ i - 1 \in Index BY <1>2 DEF Index
<1>8. ShapeInv'
  <2>1. ASSUME NEW i \in Index', fifo'[i].chan = "descriptor"
        PROVE  fifo'[i].kids > 0 /\ i + 1 \in Index' /\ fifo'[i + 1].chan = "super"
    <3>1. i \in Index /\ fifo'[i] = fifo[i] BY <1>2, <2>1
    <3>2. fifo[i].kids > 0 /\ i + 1 \in Index /\ fifo[i + 1].chan = "super"
          BY <1>1, <2>1, <3>1 DEF ShapeInv
    <3>3. QED BY <1>2, <1>3, <3>1, <3>2
  <2>2. ASSUME NEW i \in Index', fifo'[i].chan = "super"
        PROVE  i = 1 \/ fifo'[i - 1].chan = "descriptor"
    <3>1. i \in Index /\ fifo'[i] = fifo[i] BY <1>2, <2>2
    <3>2. i = 1 \/ fifo[i - 1].chan = "descriptor" BY <1>1, <2>2, <3>1 DEF ShapeInv
    <3>3. QED BY <1>2, <1>7, <3>1, <3>2
  <2>3. rx.glom.pending <=> fifo' # <<>> /\ fifo'[1].chan = "super"
        BY <1>1, <1>4, <1>5, <1>6 DEF ShapeInv
  <2>4. \A i \in Index' : ~fifo'[i].ok => fault' BY <1>1, <1>2 DEF ShapeInv
  <2>5. \A length : Hints(length) => Hints(length)' BY <1>4, <1>5 DEF Hints
  <2>6. QED BY <1>1, <2>1, <2>2, <2>3, <2>4, <2>5 DEF ShapeInv
<1>9. Numbered'
  <2>1. PICK upto \in [1..(Len(fifo) + 1) -> Nat] : Numbers(upto) BY <1>1 DEF Numbered
  <2>2. PICK p \in Nat : p = posted' BY <1>1 DEF TypeOK
  <2>3. PICK to \in [1..(Len(fifo) + 2) -> Nat] :
           /\ \A i \in 1..(Len(fifo) + 1) : to[i] = upto[i]
           /\ to[Len(fifo) + 2] = p
        BY <1>2, Longer
  <2>4. to[1] = upto[1] /\ to[Len(fifo) + 1] = posted BY <1>2, <2>1, <2>3 DEF Numbers
  <2>5. \A i \in Index : to[i] = upto[i] /\ to[i + 1] = upto[i + 1] BY <1>2, <2>3 DEF Index
  <2>6. Left' = Left BY DEF Left
  <2>7. \A i \in Index : Kids(i)' = Kids(i) BY <1>2, <1>7 DEF Kids
  <2>8. ASSUME NEW i \in Index PROVE Carries(i, to[i], to[i + 1])'
    <3>1. Carries(i, to[i], to[i + 1]) BY <2>1, <2>5 DEF Numbers
    <3>2. QED BY <1>2, <2>7, <3>1 DEF Carries
  <2>9. PICK m \in Nat : m = Len(fifo) BY <1>2
  <2>10. ASSUME NEW i \in Index' PROVE Carries(i, to[i], to[i + 1])'
    <3>1. CASE i \in Index BY <2>8, <3>1
    <3>2. CASE i = m + 1
      <4>1. to[i] = posted /\ to[i + 1] = posted' /\ fifo'[i] = f
            BY <1>2, <2>2, <2>3, <2>4, <2>9, <3>2
      <4>2. QED BY <4>1 DEF Carries
    <3>3. QED BY <1>2, <2>9, <3>1, <3>2
  <2>11. Numbers(to)'
    <3>1. Len(fifo') + 1 = Len(fifo) + 2 BY <1>2
    <3>2. to[1] = delivered' + Left' BY <2>1, <2>4, <2>6 DEF Numbers
    <3>3. QED BY <2>2, <2>3, <2>10, <3>1, <3>2 DEF Numbers
  <2>12. Len(fifo') + 1 = Len(fifo) + 2 BY <1>2
  <2>13. QED BY <2>11, <2>12 DEF Numbered
<1>10. QED BY <1>8, <1>9

(* The stream where the firmware queues a descriptor and its superframe. *)
LEMMA StreamGloms ==
    ASSUME ReceiveInv, ~rx.failed, PostGlom
    PROVE  (ShapeInv /\ Numbered)'
<1>1. TypeOK /\ ShapeInv /\ Numbered BY DEF ReceiveInv, StreamInv
<1>2. PICK f \in Frames, g \in Frames :
         /\ fifo' = fifo \o <<f, g>>
         /\ f.chan = "descriptor" /\ f.ok /\ f.kids > 0
         /\ g.chan = "super" /\ (g.ok => g.n = posted + 1)
         /\ posted' = IF g.ok THEN posted + f.kids ELSE posted
         /\ fault' = (fault \/ ~g.ok)
      BY <1>1, GlomPosted
<1>3. PICK m \in Nat : m = Len(fifo) BY <1>1 DEF TypeOK
<1>4. /\ Len(fifo') = m + 2
      /\ \A i \in Index : fifo'[i] = fifo[i]
      /\ fifo'[m + 1] = f /\ fifo'[m + 2] = g
      /\ \A i \in Index' : i \in Index \/ i = m + 1 \/ i = m + 2
      BY <1>1, <1>2, <1>3, PairIs
<1>5. /\ \A i \in Index : i \in Index' /\ (i = 1 \/ i - 1 \in Index)
      /\ m + 1 \in Index' /\ m + 2 \in Index' /\ (m + 2) - 1 = m + 1 /\ (m + 1) + 1 = m + 2
      BY <1>3, <1>4 DEF Index
<1>6. /\ fifo = <<>> \/ (1 \in Index /\ fifo'[1] = fifo[1])
      /\ fifo = <<>> => fifo'[1] = f
      BY <1>1, <1>3, <1>4 DEF TypeOK, Index
<1>7. fifo' # <<>> BY <1>4
<1>8. UNCHANGED <<rx, delivered>> BY DEF PostGlom
<1>9. ShapeInv'
  <2>1. ASSUME NEW i \in Index', fifo'[i].chan = "descriptor"
        PROVE  fifo'[i].kids > 0 /\ i + 1 \in Index' /\ fifo'[i + 1].chan = "super"
    <3>1. CASE i \in Index
      <4>1. fifo[i].kids > 0 /\ i + 1 \in Index /\ fifo[i + 1].chan = "super"
            BY <1>1, <1>4, <2>1, <3>1 DEF ShapeInv
      <4>2. QED BY <1>4, <1>5, <3>1, <4>1
    <3>2. CASE i = m + 1 BY <1>2, <1>4, <1>5, <3>2
    <3>3. QED BY <1>2, <1>4, <2>1, <3>1, <3>2
  <2>2. ASSUME NEW i \in Index', fifo'[i].chan = "super"
        PROVE  i = 1 \/ fifo'[i - 1].chan = "descriptor"
    <3>1. CASE i \in Index
      <4>1. i = 1 \/ fifo[i - 1].chan = "descriptor" BY <1>1, <1>4, <2>2, <3>1 DEF ShapeInv
      <4>2. QED BY <1>4, <1>5, <3>1, <4>1
    <3>2. CASE i = m + 2 BY <1>2, <1>4, <1>5, <3>2
    <3>3. QED BY <1>2, <1>4, <2>2, <3>1, <3>2
  <2>3. rx.glom.pending <=> fifo' # <<>> /\ fifo'[1].chan = "super"
        BY <1>1, <1>2, <1>6, <1>7 DEF ShapeInv
  <2>4. \A i \in Index' : ~fifo'[i].ok => fault' BY <1>1, <1>2, <1>4 DEF ShapeInv
  <2>5. \A length : Hints(length) => Hints(length)' BY <1>6, <1>7 DEF Hints
  <2>6. QED BY <1>1, <1>8, <2>1, <2>2, <2>3, <2>4, <2>5 DEF ShapeInv
<1>10. Numbered'
  <2>1. PICK upto \in [1..(m + 1) -> Nat] : Numbers(upto) BY <1>1, <1>3 DEF Numbered
  <2>2. PICK p \in Nat : p = posted' BY <1>1, TypeKept DEF ReceiveInv, TypeOK, Next, Firmware
  <2>3. PICK mid \in [1..(m + 2) -> Nat] :
           (\A i \in 1..(m + 1) : mid[i] = upto[i]) /\ mid[m + 2] = upto[m + 1]
    <3>1. upto[m + 1] \in Nat OBVIOUS
    <3>2. QED BY <3>1, Longer
  <2>4. PICK to \in [1..(m + 3) -> Nat] :
           (\A i \in 1..(m + 2) : to[i] = mid[i]) /\ to[m + 3] = p
    <3>1. PICK n \in Nat : n = m + 1 OBVIOUS
    <3>2. n + 1 = m + 2 /\ n + 2 = m + 3 BY <3>1
    <3>3. mid \in [1..(n + 1) -> Nat] BY <3>2
    <3>4. \E t \in [1..(n + 2) -> Nat] : (\A i \in 1..(n + 1) : t[i] = mid[i]) /\ t[n + 2] = p
          BY <3>3, Longer
    <3>5. QED BY <3>2, <3>4
  <2>5. /\ to[1] = upto[1] /\ to[m + 1] = posted /\ to[m + 2] = posted /\ to[m + 3] = posted'
        BY <1>3, <2>1, <2>2, <2>3, <2>4 DEF Numbers
  <2>6. \A i \in Index : to[i] = upto[i] /\ to[i + 1] = upto[i + 1]
    <3>1. \A i \in 1..(m + 1) : i \in 1..(m + 2) /\ to[i] = upto[i] BY <2>3, <2>4
    <3>2. \A i \in Index : i \in 1..(m + 1) /\ i + 1 \in 1..(m + 1) BY <1>3 DEF Index
    <3>3. QED BY <3>1, <3>2
  <2>7. Left' = Left BY <1>8 DEF Left
  <2>8. \A i \in Index : Kids(i)' = Kids(i) BY <1>4, <1>5, <1>8 DEF Kids
  <2>9. Kids(m + 2)' = f.kids BY <1>4, <1>5 DEF Kids
  <2>10. ASSUME NEW i \in Index' PROVE Carries(i, to[i], to[i + 1])'
    <3>1. CASE i \in Index
      <4>1. Carries(i, to[i], to[i + 1]) BY <2>1, <2>6, <3>1 DEF Numbers
      <4>2. QED BY <1>4, <2>8, <3>1, <4>1 DEF Carries
    <3>2. CASE i = m + 1
      <4>1. to[i] = posted /\ to[i + 1] = posted /\ fifo'[i] = f BY <1>4, <1>5, <2>5, <3>2
      <4>2. QED BY <1>2, <4>1 DEF Carries
    <3>3. CASE i = m + 2
      <4>1. to[i] = posted /\ to[i + 1] = posted' /\ fifo'[i] = g BY <1>4, <2>5, <3>3
      <4>2. QED BY <1>2, <2>9, <3>3, <4>1 DEF Carries
    <3>4. QED BY <1>4, <3>1, <3>2, <3>3
  <2>11. Len(fifo') + 1 = m + 3 BY <1>4
  <2>12. to[1] = delivered' + Left' BY <1>8, <2>1, <2>5, <2>7 DEF Numbers
  <2>13. Numbers(to)' BY <2>5, <2>10, <2>11, <2>12 DEF Numbers
  <2>14. QED BY <2>11, <2>13 DEF Numbered
<1>11. QED BY <1>9, <1>10

(* The stream where a further child of a superframe is handed up: it is the *)
(* next one, and the hint of the header is kept for the frame behind.       *)
LEMMA StreamContinues ==
    ASSUME ReceiveInv, ~rx.failed, NEW o, o.rx \in Rxs, Continues(o), UNCHANGED posted,
           fifo' = o.fifo, delivered' = o.delivered, fault' = fault,
           rx'.glom = o.rx.glom, rx'.hint = o.rx.hint
    PROVE  delivered' = delivered + 1 /\ (ShapeInv /\ Numbered)'
<1>1. TypeOK /\ ShapeInv /\ Numbered BY DEF ReceiveInv, StreamInv
<1>2. rx.glom \in Gloms /\ delivered \in Nat BY <1>1 DEF TypeOK, Rxs
<1>3. /\ UNCHANGED fifo /\ rx.glom.count > 0 /\ ~rx.glom.pending
      /\ 0 < rx.glom.index /\ rx.glom.index < rx.glom.count
      /\ rx.glom.first + rx.glom.index = delivered + 1
      /\ delivered' = delivered + 1 /\ Hints(rx.glom.next)
      BY <1>1 DEF Continues, ShapeInv
<1>4. ~(fifo # <<>> /\ fifo[1].chan = "super") BY <1>1, <1>3 DEF ShapeInv
<1>5. /\ Left' = Left - 1 /\ ~rx'.glom.pending
      /\ rx'.glom.count > 0 =>
           /\ rx'.glom.index = rx.glom.index + 1 /\ rx'.glom.count = rx.glom.count
           /\ rx'.glom.index < rx'.glom.count
           /\ rx'.glom.first = rx.glom.first /\ rx'.glom.next = rx.glom.next /\ rx'.hint = 0
      /\ rx'.hint \in {0, rx.glom.next}
  <2>1. CASE rx.glom.index + 1 = rx.glom.count
        BY <1>2, <1>3, <2>1 DEF Continues, Moves, NoGlom, Left, Gloms
  <2>2. CASE rx.glom.index + 1 # rx.glom.count
        BY <1>2, <1>3, <2>2 DEF Continues, Moves, NoGlom, Left, Gloms
  <2>3. QED BY <2>1, <2>2
<1>6. ShapeInv'
  <2>1. Hints(rx.hint)' /\ (rx'.glom.count > 0 => Hints(rx.glom.next)')
        BY <1>3, <1>5 DEF Hints
  <2>2. rx'.glom.count > 0 =>
           /\ 0 < rx'.glom.index /\ rx'.glom.index < rx'.glom.count
           /\ rx'.glom.first + rx'.glom.index = delivered' + 1
        BY <1>2, <1>3, <1>5 DEF Gloms
  <2>3. QED BY <1>1, <1>3, <1>4, <1>5, <2>1, <2>2 DEF ShapeInv, Index, Hints
<1>7. Numbered'
  <2>1. PICK upto \in [1..(Len(fifo) + 1) -> Nat] : Numbers(upto) BY <1>1 DEF Numbered
  <2>2. upto[1] = delivered' + Left'
    <3>1. Left \in Int BY <1>2, <1>3 DEF Left, Gloms
    <3>2. QED BY <1>2, <1>3, <1>5, <2>1, <3>1 DEF Numbers
  <2>3. ASSUME NEW i \in Index PROVE Carries(i, upto[i], upto[i + 1])'
    <3>1. CASE i = 1
      <4>1. fifo[1].chan # "super" BY <1>1, <1>4, <3>1 DEF Index, TypeOK
      <4>2. QED BY <1>3, <2>1, <3>1, <4>1 DEF Numbers, Carries
    <3>2. CASE i # 1 BY <1>3, <2>1, <3>2 DEF Numbers, Carries, Kids
    <3>3. QED BY <3>1, <3>2
  <2>4. Numbers(upto)' BY <1>3, <2>1, <2>2, <2>3 DEF Numbers, Index
  <2>5. QED BY <1>3, <2>4 DEF Numbered
<1>8. QED BY <1>3, <1>6, <1>7

(* The stream where the first frame is taken: what is left of it goes on    *)
(* where CywReceive, or the superframe, has come to.                        *)
LEMMA StreamTakes ==
    ASSUME ReceiveInv, ~rx.failed, NEW o, o.rx \in Rxs, Takes(o), UNCHANGED posted,
           fifo' = o.fifo, delivered' = o.delivered, fault' = fault,
           rx'.glom = o.rx.glom, rx'.hint = o.rx.hint
    PROVE  delivered' \in {delivered, delivered + 1} /\ (ShapeInv /\ Numbered)'
<1>1. TypeOK /\ ShapeInv /\ Numbered BY DEF ReceiveInv, StreamInv
<1>2. /\ rx.glom \in Gloms /\ delivered \in Nat /\ rx'.glom \in Gloms
      BY <1>1 DEF TypeOK, Rxs
<1>3. PICK m \in Nat : m = Len(fifo) BY <1>1 DEF TypeOK
<1>4. fifo # <<>> /\ fifo[1].ok /\ fifo' = Tail(fifo) BY DEF Takes
<1>5. /\ Len(fifo') = m - 1 /\ m > 0 /\ 1 \in Index
      /\ \A i \in Index' : i + 1 \in Index /\ fifo'[i] = fifo[i + 1]
      /\ \A i \in Index' : i + 1 # 1 /\ (i + 1) - 1 = i /\ (i = 1 \/ i - 1 \in Index')
      /\ \A i \in Index' : (i - 1) + 1 = i
      /\ \A i \in Index : i + 1 \in Index => i \in Index'
  <2>1. /\ Len(fifo') = m - 1 /\ \A i \in Index' : i + 1 \in Index /\ fifo'[i] = fifo[i + 1]
        BY <1>1, <1>3, <1>4, TailIs
  <2>2. m > 0 BY <1>1, <1>3, <1>4 DEF TypeOK
  <2>3. QED BY <1>3, <2>1, <2>2 DEF Index
<1>6. (fifo' # <<>> <=> 2 \in Index) /\ (fifo' # <<>> => fifo'[1] = fifo[2])
  <2>1. fifo' \in Seq(Frames) BY <1>1, <1>4, TailIs
  <2>2. fifo' # <<>> <=> Len(fifo') > 0 BY <2>1
  <2>3. Len(fifo') > 0 <=> 2 \in Index BY <1>3, <1>5 DEF Index
  <2>4. Len(fifo') > 0 => fifo'[1] = fifo[2] BY <1>5 DEF Index
  <2>5. QED BY <2>2, <2>3, <2>4
<1>7. fifo' # <<>> /\ fifo'[1].chan = "super" <=> fifo[1].chan = "descriptor"
  <2>1. 1 + 1 = 2 /\ 2 - 1 = 1 /\ 2 # 1 OBVIOUS
  <2>2. fifo[1].chan = "descriptor" => 2 \in Index /\ fifo[2].chan = "super"
        BY <1>1, <1>5, <2>1 DEF ShapeInv
  <2>3. 2 \in Index /\ fifo[2].chan = "super" => fifo[1].chan = "descriptor"
        BY <1>1, <2>1 DEF ShapeInv
  <2>4. QED BY <1>6, <2>2, <2>3
<1>8. \A length : HintsSecond(length) => Hints(length)' BY <1>6 DEF HintsSecond, Hints
<1>9. PICK upto \in [1..(m + 1) -> Nat] : Numbers(upto) BY <1>1, <1>3 DEF Numbered
<1>10. /\ upto[1] = delivered + Left /\ upto[m + 1] = posted
       /\ Carries(1, upto[1], upto[2]) /\ upto[1] \in Nat /\ upto[2] \in Nat
  <2>1. 1 + 1 = 2 /\ 2 \in 1..(m + 1) BY <1>5
  <2>2. QED BY <1>3, <1>5, <1>9, <2>1 DEF Numbers
<1>11. /\ delivered' \in {delivered, delivered + 1} /\ upto[2] = delivered' + Left'
       /\ rx'.glom.pending <=> fifo[1].chan = "descriptor"
       /\ rx'.glom.pending => rx'.glom.count > 0 /\ rx'.glom.index = 0
       /\ fifo[1].chan = "descriptor" => rx'.glom.count = fifo[1].kids
       /\ rx'.glom.count > 0 /\ ~rx'.glom.pending =>
            /\ 0 < rx'.glom.index /\ rx'.glom.index < rx'.glom.count
            /\ rx'.glom.first + rx'.glom.index = delivered' + 1
            /\ Hints(rx.glom.next)'
       /\ rx'.glom.count > 0 => rx'.hint = 0
       /\ Hints(rx.hint)'
  <2>1. CASE fifo[1].chan = "super"
    <3>1. rx.glom.pending /\ delivered' = fifo[1].n BY <2>1 DEF Takes
    <3>2. PICK next \in Nat : HintsSecond(next) /\ Moves(o, 0, fifo[1].n, next)
          BY <2>1 DEF Takes
    <3>3. rx.glom.count > 0 /\ rx.glom.count \in Nat BY <1>1, <1>2, <3>1 DEF ShapeInv, Gloms
    <3>4. Left = 0 BY <3>1 DEF Left
    <3>5. delivered' = delivered + 1 /\ upto[2] = delivered + rx.glom.count
          BY <1>2, <1>4, <1>10, <2>1, <3>1, <3>4 DEF Carries, Kids
    <3>6. CASE rx.glom.count = 1
      <4>1. rx'.glom = NoGlom /\ rx'.hint = next BY <3>2, <3>6 DEF Moves
      <4>2. rx'.glom.count = 0 /\ ~rx'.glom.pending BY <4>1 DEF NoGlom
      <4>3. Left' = 0 BY <4>2 DEF Left
      <4>4. Hints(rx.hint)' BY <1>8, <3>2, <4>1
      <4>5. QED BY <1>2, <2>1, <3>5, <3>6, <4>2, <4>3, <4>4
    <3>7. CASE rx.glom.count # 1
      <4>1. /\ rx'.glom.count = rx.glom.count /\ ~rx'.glom.pending /\ rx'.glom.index = 1
            /\ rx'.glom.first = fifo[1].n /\ rx'.glom.next = next /\ rx'.hint = 0
            BY <3>2, <3>3, <3>7 DEF Moves
      <4>2. Left' = rx.glom.count - 1 BY <3>3, <4>1 DEF Left
      <4>3. Hints(rx.glom.next)' BY <1>8, <3>2, <4>1
      <4>4. Hints(rx.hint)' BY <4>1 DEF Hints
      <4>5. rx'.glom.first + rx'.glom.index = delivered' + 1 BY <3>1, <3>5, <4>1
      <4>6. upto[2] = delivered' + Left' /\ 1 < rx.glom.count
            BY <1>2, <3>3, <3>5, <3>7, <4>2
      <4>7. fifo[1].chan # "descriptor" /\ 0 < 1 BY <2>1
      <4>8. QED BY <3>5, <4>1, <4>3, <4>4, <4>5, <4>6, <4>7
    <3>8. QED BY <3>6, <3>7
  <2>2. CASE fifo[1].chan = "descriptor"
    <3>1. /\ delivered' = delivered /\ rx'.glom.count = fifo[1].kids /\ rx'.glom.index = 0
          /\ rx'.glom.pending /\ rx'.hint = 0 /\ rx.glom.count = 0
          BY <2>2 DEF Takes
    <3>2. fifo[1].kids > 0 BY <1>1, <1>5, <2>2 DEF ShapeInv
    <3>3. Left = 0 /\ Left' = 0 BY <3>1 DEF Left
    <3>4. upto[2] = upto[1] BY <1>10, <2>2 DEF Carries
    <3>5. Hints(rx.hint)' BY <3>1 DEF Hints
    <3>6. QED BY <1>10, <2>2, <3>1, <3>2, <3>3, <3>4, <3>5
  <2>3. CASE fifo[1].chan \in {"data", "reply"}
    <3>1. /\ rx.glom.count = 0 /\ rx'.glom = rx.glom /\ HintsSecond(rx'.hint)
          /\ IF fifo[1].chan = "data" THEN delivered' = fifo[1].n ELSE delivered' = delivered
          BY <2>3 DEF Takes
    <3>2. ~rx.glom.pending BY <1>1, <3>1 DEF ShapeInv
    <3>3. Left = 0 /\ Left' = 0 BY <3>1 DEF Left
    <3>4. Hints(rx.hint)' BY <1>8, <3>1
    <3>5. /\ delivered' \in {delivered, delivered + 1} /\ upto[2] = delivered'
          BY <1>2, <1>4, <1>10, <2>3, <3>1, <3>3 DEF Carries
    <3>6. QED BY <1>2, <2>3, <3>1, <3>2, <3>3, <3>4, <3>5
  <2>4. QED BY <2>1, <2>2, <2>3 DEF Takes
<1>12. ShapeInv'
  <2>1. ASSUME NEW i \in Index', fifo'[i].chan = "descriptor"
        PROVE  fifo'[i].kids > 0 /\ i + 1 \in Index' /\ fifo'[i + 1].chan = "super"
    <3>1. i + 1 \in Index /\ fifo'[i] = fifo[i + 1] BY <1>5
    <3>2. /\ fifo[i + 1].kids > 0 /\ (i + 1) + 1 \in Index
          /\ fifo[(i + 1) + 1].chan = "super"
          BY <1>1, <2>1, <3>1 DEF ShapeInv
    <3>3. i + 1 \in Index' BY <1>5, <3>1, <3>2
    <3>4. fifo'[i + 1] = fifo[(i + 1) + 1] BY <1>5, <3>3
    <3>5. QED BY <3>1, <3>2, <3>3, <3>4
  <2>2. ASSUME NEW i \in Index', fifo'[i].chan = "super"
        PROVE  i = 1 \/ fifo'[i - 1].chan = "descriptor"
    <3>1. fifo[(i + 1) - 1].chan = "descriptor" BY <1>1, <1>5, <2>2 DEF ShapeInv
    <3>2. i = 1 \/ fifo'[i - 1] = fifo[(i - 1) + 1] BY <1>5
    <3>3. QED BY <1>5, <3>1, <3>2
  <2>3. \A i \in Index' : ~fifo'[i].ok => fault' BY <1>1, <1>5 DEF ShapeInv
  <2>4. QED BY <1>7, <1>11, <2>1, <2>2, <2>3 DEF ShapeInv
<1>13. Numbered'
  <2>1. PICK to \in [1..m -> Nat] : \A i \in 1..m : to[i] = upto[i + 1]
    <3>1. m \in Nat \ {0} BY <1>5
    <3>2. QED BY <3>1, Shorter
  <2>2. /\ to[1] = upto[2] /\ to[m] = posted
        /\ \A i \in Index' : to[i] = upto[i + 1] /\ to[i + 1] = upto[(i + 1) + 1]
    <3>1. to[1] = upto[2]
      <4>1. 1 \in 1..m /\ 1 + 1 = 2 BY <1>5
      <4>2. QED BY <2>1, <4>1
    <3>2. to[m] = posted BY <1>5, <1>10, <2>1
    <3>3. \A i \in Index' : i \in 1..m /\ i + 1 \in 1..m BY <1>3, <1>5 DEF Index
    <3>4. QED BY <2>1, <3>1, <3>2, <3>3
  <2>3. ASSUME NEW i \in Index' PROVE Carries(i, to[i], to[i + 1])'
    <3>1. Carries(i + 1, to[i], to[i + 1]) BY <1>5, <1>9, <2>2 DEF Numbers
    <3>2. fifo'[i] = fifo[i + 1] BY <1>5
    <3>3. fifo'[i].chan = "super" => Kids(i)' = Kids(i + 1)
      <4>1. CASE i = 1
        <5>1. fifo'[i].chan = "super" => fifo[1].chan = "descriptor"
          <6>1. fifo' # <<>> BY <4>1, <1>5, <1>6
          <6>2. QED BY <1>7, <4>1, <6>1
        <5>2. Kids(i)' = rx'.glom.count BY <4>1 DEF Kids
        <5>3. Kids(i + 1) = fifo[1].kids BY <4>1 DEF Kids
        <5>4. QED BY <1>11, <5>1, <5>2, <5>3
      <4>2. CASE i # 1
        <5>1. fifo'[i - 1] = fifo[(i - 1) + 1] BY <1>5, <4>2
        <5>2. Kids(i)' = fifo'[i - 1].kids BY <4>2 DEF Kids
        <5>3. Kids(i + 1) = fifo[(i + 1) - 1].kids BY <1>5 DEF Kids
        <5>4. QED BY <1>5, <5>1, <5>2, <5>3
      <4>3. QED BY <4>1, <4>2
    <3>4. QED BY <3>1, <3>2, <3>3 DEF Carries
  <2>4. Len(fifo') + 1 = m BY <1>5
  <2>5. Numbers(to)' BY <1>11, <2>2, <2>3, <2>4 DEF Numbers
  <2>6. QED BY <2>4, <2>5 DEF Numbered
<1>14. QED BY <1>11, <1>12, <1>13

(* Every step keeps the stream, and a failure is latched only where         *)
(* something has gone wrong.                                                *)
LEMMA StreamKept ==
    ReceiveInv /\ [Next]_vars
      => (StreamInv /\ NoOwnLatch)' /\ delivered' \in {delivered, delivered + 1}
<1> SUFFICES ASSUME ReceiveInv, [Next]_vars
             PROVE  (StreamInv /\ NoOwnLatch)' /\ delivered' \in {delivered, delivered + 1}
    OBVIOUS
<1> USE DEF StreamInv, NoOwnLatch
<1>1. TypeOK /\ NoOwnLatch BY DEF ReceiveInv
<1>2. ASSUME UNCHANGED <<fifo, posted, delivered>>, fault => fault',
             rx'.glom = rx.glom, rx'.hint \in {0, rx.hint}, rx'.failed = rx.failed
      PROVE  (StreamInv /\ NoOwnLatch)' /\ delivered' \in {delivered, delivered + 1}
      BY <1>1, <1>2, StreamStands
<1>3. ASSUME rx'.failed, fault', delivered' = delivered
      PROVE  (StreamInv /\ NoOwnLatch)' /\ delivered' \in {delivered, delivered + 1}
      BY <1>3
<1>4. CASE PostData \/ PostMalformed \/ FirmwareReplies
  <2>1. UNCHANGED <<rx, delivered>> /\ (fault => fault')
    <3>1. CASE PostData BY <3>1 DEF PostData
    <3>2. CASE PostMalformed BY <3>2 DEF PostMalformed
    <3>3. CASE FirmwareReplies BY <3>3 DEF FirmwareReplies
    <3>4. QED BY <1>4, <3>1, <3>2, <3>3
  <2>2. PICK f \in Frames :
           /\ fifo' = Append(fifo, f)
           /\ \/ f.chan = "data" /\ f.ok /\ f.n = posted + 1 /\ posted' = posted + 1
              \/ f.chan = "data" /\ ~f.ok /\ fault' /\ posted' = posted
              \/ f.chan = "reply" /\ f.ok /\ posted' = posted
    <3>1. CASE PostData BY <1>1, <3>1, DataPosted
    <3>2. CASE PostMalformed BY <1>1, <3>2, MalformedPosted DEF PostMalformed
    <3>3. CASE FirmwareReplies BY <1>1, <3>3, ReplyPosted DEF FirmwareReplies
    <3>4. QED BY <1>4, <3>1, <3>2, <3>3
  <2>3. QED BY <1>1, <2>1, <2>2, StreamAppends
<1>5. CASE PostGlom
  <2>1. UNCHANGED <<rx, delivered>> /\ (fault => fault') BY <1>5 DEF PostGlom
  <2>2. QED BY <1>1, <1>5, <2>1, StreamGloms
<1>6. CASE FirmwareActs \/ CommandStarts \/ CommandTimesOut \/ UNCHANGED vars
  <2>1. UNCHANGED <<fifo, posted, delivered, fault, rx>>
        BY <1>6 DEF FirmwareActs, CommandStarts, CommandTimesOut, vars
  <2>2. QED BY <1>2, <2>1
<1>7. CASE BatchStarts \/ BatchEnds
  <2>1. UNCHANGED <<fifo, posted, delivered, fault>> /\ rx' = [rx EXCEPT !.serviced = FALSE]
        BY <1>7 DEF BatchStarts, BatchEnds
  <2>2. rx'.glom = rx.glom /\ rx'.hint = rx.hint /\ rx'.failed = rx.failed
        BY <1>1, <2>1 DEF TypeOK, Rxs
  <2>3. QED BY <1>2, <2>1, <2>2
<1>8. CASE BatchPolls \/ CreditPolls \/ ReplyPolls
  <2>1. PICK o :
          /\ Effect(o) /\ fifo' = o.fifo /\ delivered' = o.delivered
          /\ fault' = o.fault /\ rx'.glom = o.rx.glom /\ rx'.hint = o.rx.hint
          /\ rx'.failed = o.rx.failed
        BY <1>8, PollMoves
  <2>2. UNCHANGED posted BY <1>8, PollMoves
  <2>3. CASE Idles(o) BY <1>2, <2>1, <2>2, <2>3 DEF Idles
  <2>4. CASE Fails(o) BY <1>3, <2>1, <2>4 DEF Fails
  <2>5. CASE ~rx.failed /\ ~o.rx.failed /\ o.fault = fault /\ Continues(o)
    <3>1. o.rx \in Rxs BY <2>1 DEF Effect
    <3>2. QED BY <2>1, <2>2, <2>5, <3>1, StreamContinues
  <2>6. CASE ~rx.failed /\ ~o.rx.failed /\ o.fault = fault /\ Takes(o)
    <3>1. o.rx \in Rxs BY <2>1 DEF Effect
    <3>2. QED BY <2>1, <2>2, <2>6, <3>1, StreamTakes
  <2>7. QED BY <2>1, <2>3, <2>4, <2>5, <2>6 DEF Effect
<1>9. CASE CommandSends
  <2>1. UNCHANGED <<fifo, posted, delivered>> BY <1>9 DEF CommandSends
  <2>2. CASE UNCHANGED <<rx, fault>> BY <1>2, <2>1, <2>2
  <2>3. CASE rx' = [rx EXCEPT !.failed = TRUE] /\ fault' = TRUE
    <3>1. rx'.failed BY <1>1, <2>3 DEF TypeOK, Rxs
    <3>2. QED BY <1>3, <2>1, <2>3, <3>1
  <2>4. QED BY <1>9, <2>2, <2>3 DEF CommandSends
<1>10. CASE Restarts
  <2>1. /\ fifo' = <<>> /\ posted' = delivered /\ delivered' = delivered /\ rx' = Fresh
        BY <1>10 DEF Restarts
  <2>2. /\ rx'.glom.count = 0 /\ ~rx'.glom.pending /\ rx'.hint = 0 /\ ~rx'.failed
        BY <2>1 DEF Fresh, NoGlom
  <2>3. ShapeInv' BY <2>1, <2>2 DEF ShapeInv, Hints, Index
  <2>4. Numbered'
    <3>1. PICK d \in Nat : d = delivered BY <1>1 DEF TypeOK
    <3>2. PICK to \in [1..1 -> Nat] : to[1] = d
      <4>1. [i \in 1..1 |-> d] \in [1..1 -> Nat] /\ [i \in 1..1 |-> d][1] = d OBVIOUS
      <4>2. QED BY <4>1
    <3>3. Left' = 0 /\ Len(fifo') + 1 = 1 BY <2>1, <2>2 DEF Left
    <3>4. to[1] = delivered' + Left' /\ to[Len(fifo') + 1] = posted' BY <2>1, <3>1, <3>2, <3>3
    <3>5. Index' = {} BY <2>1 DEF Index
    <3>6. Numbers(to)' BY <3>4, <3>5 DEF Numbers
    <3>7. QED BY <3>3, <3>6 DEF Numbered
  <2>5. QED BY <2>1, <2>2, <2>3, <2>4
<1> QED
  BY <1>4, <1>5, <1>6, <1>7, <1>8, <1>9, <1>10 DEF Next, Firmware, Worker

(* All of it together, in every run of the worker. *)
LEMMA ReceiveHolds == Spec => []ReceiveInv
<1>1. Init => ReceiveInv
  <2> SUFFICES ASSUME Init PROVE ReceiveInv OBVIOUS
  <2>1. rx = Fresh /\ fifo = <<>> /\ held = {} /\ posted = 0 /\ delivered = 0 BY DEF Init
  <2>2. Fresh \in Rxs BY DEF Fresh, NoGlom, Rxs, Gloms
  <2>3. TypeOK
    <3>1. fifo \in Seq(Frames) /\ rx \in Rxs BY <2>1, <2>2
    <3>2. held \subseteq [req : Nat, what : {"on", "off", "other", "done"}] BY <2>1
    <3>3. fwGlom \in BOOLEAN /\ glomEnabled \in BOOLEAN /\ fault \in BOOLEAN BY DEF Init
    <3>4. posted \in Nat /\ serial \in Nat /\ delivered \in Nat /\ count \in Nat BY DEF Init
    <3>5. /\ pc \in {"configure", "loop", "batch", "credit", "reply", "down"}
          /\ stage \in Stages
          BY DEF Init, Stages
    <3>6. QED BY <3>1, <3>2, <3>3, <3>4, <3>5 DEF TypeOK
  <2>4. Index = {} BY <2>1 DEF Index
  <2>5. RequestInv BY <2>1, <2>4 DEF Init, RequestInv, ReplyIsOwn
  <2>6. ParserInv BY <2>1, <2>4 DEF Init, ParserInv, NoGlomming, NoDescriptor
  <2>7. /\ rx.glom.count = 0 /\ ~rx.glom.pending /\ rx.hint = 0 /\ ~rx.failed
        BY <2>1 DEF Fresh, NoGlom
  <2>8. ShapeInv BY <2>1, <2>4, <2>7 DEF ShapeInv, Hints
  <2>9. Numbered
    <3>1. PICK to \in [1..1 -> Nat] : to[1] = 0
      <4>1. [i \in 1..1 |-> 0] \in [1..1 -> Nat] /\ [i \in 1..1 |-> 0][1] = 0 OBVIOUS
      <4>2. QED BY <4>1
    <3>2. Left = 0 /\ Len(fifo) + 1 = 1 BY <2>1, <2>7 DEF Left
    <3>3. Numbers(to) BY <2>1, <2>4, <3>1, <3>2 DEF Numbers
    <3>4. QED BY <3>2, <3>3 DEF Numbered
  <2>10. QED BY <2>3, <2>5, <2>6, <2>7, <2>8, <2>9 DEF ReceiveInv, StreamInv, NoOwnLatch
<1>2. ReceiveInv /\ [Next]_vars => ReceiveInv'
      BY TypeKept, RequestKept, ParserKept, StreamKept DEF ReceiveInv
<1>3. QED BY <1>1, <1>2, PTL DEF Spec
-----------------------------------------------------------------------------
(* CywFirmwareCommand takes only the reply to its own command, although     *)
(* replies to commands that timed out may come at any time and RequestId    *)
(* wraps: for every width of the identifier, given that a reply is not      *)
(* later than a period of it.                                               *)
THEOREM ReplyCorrect == Spec => []ReplyIsOwn
<1>1. ReceiveInv => ReplyIsOwn BY DEF ReceiveInv, RequestInv
<1>2. QED BY <1>1, ReceiveHolds, PTL

(* CywPoll latches FifoTransportFailed only after a transfer has failed or  *)
(* the card has sent a malformed frame: hints, the parser's switch and the  *)
(* descriptor it keeps are never out of step with the FIFO.                 *)
THEOREM LatchCorrect == Spec => []NoOwnLatch
<1>1. ReceiveInv => NoOwnLatch BY DEF ReceiveInv
<1>2. QED BY <1>1, ReceiveHolds, PTL

(* The data frames reach CywReceive one by one, in order, none twice and    *)
(* none left out, for every size of superframes and batches.                *)
THEOREM OrderCorrect == Spec => InOrderOnce
<1>1. ReceiveInv /\ [Next]_vars => [delivered' = delivered \/ delivered' = delivered + 1]_vars
      BY StreamKept
<1>2. QED BY <1>1, ReceiveHolds, PTL DEF Spec, InOrderOnce
=============================================================================
