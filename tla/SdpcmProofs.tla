----------------------------- MODULE SdpcmProofs -----------------------------
(***************************************************************************)
(* Proofs about Sdpcm, for every width of the sequence number, window,     *)
(* burst and budget the assumption allows: the credit the driver computes  *)
(* from two bytes is real and none of it is lost, the frames the firmware  *)
(* takes are numbered in order, and data frames keep to the flow state and *)
(* the burst.                                                              *)
(***************************************************************************)
EXTENDS Sdpcm, TLAPS

(* The bytes TxSeq and TxMax stand for counts that do not wrap: `limit' is  *)
(* the newest limit the driver has read, and no header that waits is older. *)
Stands(limit) ==
    /\ max = limit % SeqMod
    /\ out <= limit /\ limit <= freed + Buffers
    /\ \A i \in 1..Len(rx) : limit <= rx[i].limit
CreditInv ==
    /\ freed <= out /\ out <= freed + Buffers
    /\ ~failed =>
         /\ seq = out % SeqMod
         /\ \E limit \in Nat : Stands(limit)
         /\ \A i \in 1..Len(rx) : rx[i].limit <= freed + Buffers
         /\ \A i, j \in 1..Len(rx) : i <= j => rx[i].limit <= rx[j].limit
    /\ pc = "write" => CywTxCredit(seq, max)

(* Where the pump is in a burst: `left' frames may follow the `spent' ones. *)
BurstInv ==
    /\ pc \in {"idle", "control", "reply", "down", "fresh"} => left = 0
    /\ pc = "reuse" => left > 0
    /\ pc \in {"reuse", "write"} /\ left > 0 => frame = "small"
    /\ left > 0 => position = spent + 1 /\ spent > 0 /\ spent + left <= BurstMax
    /\ pc = "write" => Flowing
    /\ pc = "write" /\ left = 0 => spent = 0 /\ grant < BurstMax

-----------------------------------------------------------------------------
(* Byte arithmetic.  A number is a multiple of the modulus and a remainder, *)
(* and the two are determined by the range of the remainder.                *)
LEMMA Division ==
    ASSUME NEW m \in Nat, m > 0, NEW x \in Int
    PROVE  /\ x \div m \in Int /\ x % m \in Nat /\ x % m < m
           /\ x = m * (x \div m) + (x % m)
<1>1. x \div m \in Int /\ x % m \in 0..(m - 1) BY SMT
<1>2. x = m * (x \div m) + (x % m) BY SMT
<1>3. QED BY <1>1, <1>2

LEMMA Multiples ==
    ASSUME NEW m \in Nat, m > 0, NEW k \in Int, -m < m * k, m * k < m
    PROVE  k = 0
OBVIOUS

LEMMA RemainderIs ==
    ASSUME NEW m \in Nat, m > 0, NEW x \in Int, NEW q \in Int, NEW r \in Nat, r < m,
           x = m * q + r
    PROVE  x % m = r
<1>1. PICK k \in Int : k = x \div m BY Division
<1>2. PICK s \in Nat : s = x % m BY Division
<1>3. s < m /\ x = m * k + s BY <1>1, <1>2, Division
<1>4. m * (q - k) = s - r /\ q - k \in Int BY <1>3
<1>5. q - k = 0 BY <1>3, <1>4, Multiples
<1>6. QED BY <1>2, <1>3, <1>4, <1>5

LEMMA Difference ==
    ASSUME NEW m \in Nat, m > 0, NEW a \in Nat, NEW b \in Nat, b <= a, a - b < m
    PROVE  ((a % m) - (b % m)) % m = a - b
<1>1. PICK q \in Int, r \in Nat : q = a \div m /\ r = a % m BY Division
<1>2. PICK k \in Int, s \in Nat : k = b \div m /\ s = b % m BY Division
<1>3. a = m * q + r /\ b = m * k + s BY <1>1, <1>2, Division
<1>4. r - s = m * (k - q) + (a - b) /\ k - q \in Int BY <1>3
<1>5. r - s \in Int /\ a - b \in Nat OBVIOUS
<1>6. (r - s) % m = a - b BY <1>4, <1>5, RemainderIs
<1>7. QED BY <1>1, <1>2, <1>6

LEMMA Successor ==
    ASSUME NEW m \in Nat, m > 0, NEW a \in Nat
    PROVE  ((a % m) + 1) % m = (a + 1) % m
<1>1. PICK q \in Int, r \in Nat : q = a \div m /\ r = a % m BY Division
<1>2. PICK k \in Int, s \in Nat : k = (a + 1) \div m /\ s = (a + 1) % m BY Division
<1>3. a = m * q + r /\ a + 1 = m * k + s /\ s < m BY <1>1, <1>2, Division
<1>4. r + 1 = m * (k - q) + s /\ k - q \in Int BY <1>3
<1>5. r + 1 \in Int OBVIOUS
<1>6. (r + 1) % m = s BY <1>3, <1>4, <1>5, RemainderIs
<1>7. QED BY <1>1, <1>2, <1>6

-----------------------------------------------------------------------------
(* Lemmas about the model's operators. *)
LEMMA Byte ==
    ASSUME NEW x \in Int
    PROVE  UChar(x) \in 0..(SeqMod - 1) /\ UChar(x) \in Nat
<1>1. SeqMod \in Nat /\ SeqMod > 0 BY SdpcmAssumption
<1>2. QED BY <1>1, Division DEF UChar

(* The difference of two bytes is the difference of the counts they stand   *)
(* for, as long as that is less than the modulus.                           *)
LEMMA Room ==
    ASSUME NEW a \in Nat, NEW b \in Nat, b <= a, a - b < SeqMod
    PROVE  UChar((a % SeqMod) - (b % SeqMod)) = a - b
<1>1. SeqMod \in Nat /\ SeqMod > 0 BY SdpcmAssumption
<1>2. ((a % SeqMod) - (b % SeqMod)) % SeqMod = a - b BY <1>1, Difference
<1>3. QED BY <1>2 DEF UChar

LEMMA Step ==
    ASSUME NEW a \in Nat, NEW s, s = a % SeqMod
    PROVE  UChar(s + 1) = (a + 1) % SeqMod
<1>1. SeqMod \in Nat /\ SeqMod > 0 BY SdpcmAssumption
<1>2. QED BY <1>1, Successor DEF UChar

LEMMA Granted ==
    ASSUME NEW size \in {"small", "bulk"}, NEW want \in Nat, NEW available \in Nat
    PROVE  /\ Grant(size, want, available) \in Nat
           /\ Grant(size, want, available) < BurstMax
           /\ size = "bulk" => Grant(size, want, available) = 0
BY SdpcmAssumption DEF Grant

(* What a service does to the flags. *)
LEMMA Serviced ==
    ASSUME TypeOK, NEW outcome \in Outcomes, Service(outcome)
    PROVE  /\ halted' \in BOOLEAN /\ globalFlow' \in BOOLEAN /\ flow' \in BOOLEAN
           /\ outcome = "done" => ~halted
BY DEF TypeOK, Service, Outcomes

(* The headers without the first, and with one more. *)
LEMMA TailIs ==
    ASSUME TypeOK, rx # <<>>, rx' = Tail(rx)
    PROVE  /\ rx' \in Seq(Header) /\ Len(rx') = Len(rx) - 1
           /\ \A i \in 1..Len(rx') : i + 1 \in 1..Len(rx) /\ rx'[i] = rx[i + 1]
BY DEF TypeOK

LEMMA AppendIs ==
    ASSUME TypeOK, NEW h \in Header, rx' = Append(rx, h)
    PROVE  /\ rx' \in Seq(Header) /\ Len(rx') = Len(rx) + 1
           /\ \A i \in 1..Len(rx') : \/ i \in 1..Len(rx) /\ rx'[i] = rx[i]
                                     \/ i = Len(rx) + 1 /\ rx'[i] = h
BY DEF TypeOK

LEMMA HeaderAt ==
    ASSUME TypeOK, NEW i \in 1..Len(rx)
    PROVE  rx[i] \in Header /\ rx[i].limit \in Nat /\ rx[i].flow \in BOOLEAN
<1>1. rx[i] \in Header BY DEF TypeOK
<1>2. QED BY <1>1 DEF Header

LEMMA LocalsOK ==
    ASSUME TypeOK, NEW next, Locals(next)
    PROVE  /\ frame' \in {"small", "bulk"}
           /\ left' \in Nat /\ position' \in Nat /\ sent' \in Nat
BY DEF TypeOK, Locals

-----------------------------------------------------------------------------
(* The type invariant. *)
LEMMA TypeKept == TypeOK /\ [Next]_vars => TypeOK'
<1> SUFFICES ASSUME TypeOK, [Next]_vars PROVE TypeOK' OBVIOUS
<1> USE SdpcmAssumption DEF TypeOK, driver, burst
<1> DEFINE Places == {"idle", "pump", "fresh", "reuse", "write", "control", "reply", "down"}
<1>0. /\ UChar(seq + 1) \in 0..(SeqMod - 1)
      /\ UChar(max - seq) \in Nat
  BY Byte
<1>1. CASE PumpBegin BY <1>1 DEF PumpBegin
<1>2. CASE PumpEnd BY <1>2, LocalsOK DEF PumpEnd
<1>3. ASSUME NEW size \in {"small", "bulk"}, PumpTake(size) PROVE TypeOK'
  <2>1. LeftFor(size) \in Nat BY DEF LeftFor
  <2>2. pc' \in Places BY <1>3 DEF PumpTake
  <2>3. QED BY <1>3, <2>1, <2>2 DEF PumpTake
<1>4. ASSUME NEW outcome \in Outcomes, FreshFails(outcome) PROVE TypeOK'
  <2>1. Service(outcome) /\ Locals("down") BY <1>4 DEF FreshFails
  <2>2. QED BY <1>4, <2>1, Serviced, LocalsOK DEF FreshFails
<1>5. ASSUME NEW want \in 0..(Budget - sent), FreshDone(want) PROVE TypeOK'
  <2>1. Service("done") /\ Locals(pc') BY <1>5 DEF FreshDone
  <2>2. "done" \in Outcomes /\ want \in Nat BY DEF Outcomes
  <2>3. grant' \in Nat BY <1>0, <1>5, <2>2, Granted DEF FreshDone
  <2>4. pc' \in Places BY <1>5 DEF FreshDone
  <2>5. QED BY <1>5, <2>1, <2>2, <2>3, <2>4, Serviced, LocalsOK DEF FreshDone
<1>6. CASE Reuse
  <2>1. pc' \in Places BY <1>6 DEF Reuse
  <2>2. QED BY <1>6, <2>1, LocalsOK DEF Reuse
<1>7. ASSUME NEW taken \in BOOLEAN, WriteFails(taken) PROVE TypeOK'
  BY <1>7, LocalsOK DEF WriteFails
<1>8. ASSUME NEW keep \in BOOLEAN, WriteDone(keep) PROVE TypeOK'
  BY <1>0, <1>8 DEF WriteDone
<1>9. CASE ControlBegin BY <1>9 DEF ControlBegin
<1>10. CASE ControlSend BY <1>0, <1>10 DEF ControlSend
<1>11. CASE ControlEnd BY <1>11 DEF ControlEnd
<1>12. ASSUME NEW taken \in BOOLEAN, ControlSendFails(taken) PROVE TypeOK'
  BY <1>12 DEF ControlSendFails
<1>13. CASE PollFrame
  <2>1. rx # <<>> /\ rx' = Tail(rx) BY <1>13 DEF PollFrame
  <2>2. 1 \in 1..Len(rx) /\ Head(rx) = rx[1] BY <2>1
  <2>3. Head(rx).limit \in Nat /\ Head(rx).flow \in BOOLEAN BY <2>2, HeaderAt
  <2>4. AcceptMax(Head(rx).limit) \in 0..(SeqMod - 1)
    <3>1. PICK limit \in Nat : limit = Head(rx).limit BY <2>3
    <3>2. UChar(limit) \in 0..(SeqMod - 1) BY Byte
    <3>3. QED BY <3>1, <3>2 DEF AcceptMax
  <2>5. QED BY <1>13, <2>1, <2>3, <2>4, TailIs DEF PollFrame
<1>14. CASE PollService
  <2>1. Service("done") /\ "done" \in Outcomes BY <1>14 DEF PollService, Outcomes
  <2>2. QED BY <1>14, <2>1, Serviced DEF PollService
<1>15. ASSUME NEW outcome \in Outcomes, PollFails(outcome) PROVE TypeOK'
  <2>1. /\ halted' \in BOOLEAN /\ globalFlow' \in BOOLEAN /\ flow' \in BOOLEAN
        /\ failed' \in BOOLEAN
    BY <1>15, Serviced DEF PollFails
  <2>2. QED BY <1>15, <2>1 DEF PollFails
<1>16. CASE Restart
  <2>1. rx' \in Seq(Header) BY <1>16 DEF Restart
  <2>2. 0 \in 0..(SeqMod - 1) /\ 1 \in 0..(SeqMod - 1) OBVIOUS
  <2>3. QED BY <1>16, <2>1, <2>2 DEF Restart
<1>17. CASE FwFree BY <1>17 DEF FwFree
<1>18. ASSUME NEW f \in BOOLEAN, FwPost(f) PROVE TypeOK'
  <2>1. [limit |-> freed + Buffers, flow |-> f] \in Header BY DEF Header
  <2>2. QED BY <1>18, <2>1, AppendIs DEF FwPost
<1>19. CASE UNCHANGED vars BY <1>19 DEF vars
<1>20. QED
  BY <1>1, <1>2, <1>3, <1>4, <1>5, <1>6, <1>7, <1>8, <1>9, <1>10, <1>11, <1>12, <1>13, <1>14,
     <1>15, <1>16, <1>17, <1>18, <1>19
  DEF Next, Data, CywFirmwareCommand, CywPoll

-----------------------------------------------------------------------------
(* Credit. *)
LEMMA RoomIs ==
    ASSUME TypeOK, CreditInv, ~failed, NEW limit \in Nat, Stands(limit)
    PROVE  UChar(max - seq) = limit - out /\ limit - out <= Buffers
<1>1. /\ out <= limit /\ limit <= freed + Buffers /\ freed <= out
      /\ out \in Nat /\ freed \in Nat /\ Buffers \in Nat /\ Buffers < SeqMod /\ SeqMod \in Nat
  BY SdpcmAssumption DEF TypeOK, CreditInv, Stands
<1>2. limit - out <= Buffers /\ limit - out < SeqMod BY <1>1
<1>3. max = limit % SeqMod /\ seq = out % SeqMod BY DEF CreditInv, Stands
<1>4. UChar((limit % SeqMod) - (out % SeqMod)) = limit - out BY <1>1, <1>2, Room
<1>5. QED BY <1>2, <1>3, <1>4

(* A frame goes out: the firmware has room for it. *)
LEMMA Sends ==
    ASSUME TypeOK, CreditInv, ~failed, CywTxCredit(seq, max),
           seq' = UChar(seq + 1), out' = out + 1, pc' # "write",
           UNCHANGED <<max, failed, freed, rx>>
    PROVE  CreditInv'
<1> USE DEF TypeOK
<1>1. PICK limit \in Nat : Stands(limit) BY DEF CreditInv
<1>2. limit - out # 0 BY <1>1, RoomIs DEF CywTxCredit
<1>3. out + 1 <= limit /\ limit <= freed + Buffers BY <1>1, <1>2 DEF Stands
<1>4. Stands(limit)' BY <1>1, <1>3 DEF Stands
<1>5. seq' = out' % SeqMod BY Step DEF CreditInv
<1>6. freed <= out' /\ out' <= freed + Buffers BY <1>3, SdpcmAssumption DEF CreditInv
<1>7. QED BY <1>4, <1>5, <1>6 DEF CreditInv

(* The bus loses the word on a frame, which may have gone out. *)
LEMMA Loses ==
    ASSUME TypeOK, CreditInv, CywTxCredit(seq, max), NEW taken \in BOOLEAN, taken => ~failed,
           out' = IF taken THEN out + 1 ELSE out, failed', freed' = freed, pc' # "write"
    PROVE  CreditInv'
<1> USE DEF TypeOK
<1>1. CASE ~taken BY <1>1 DEF CreditInv
<1>2. CASE taken
  <2>1. PICK limit \in Nat : Stands(limit) BY <1>2 DEF CreditInv
  <2>2. limit - out # 0 BY <1>2, <2>1, RoomIs DEF CywTxCredit
  <2>3. out + 1 <= limit /\ limit <= freed + Buffers BY <2>1, <2>2 DEF Stands
  <2>4. freed <= out' /\ out' <= freed + Buffers
    BY <1>2, <2>3, SdpcmAssumption DEF CreditInv
  <2>5. QED BY <2>4 DEF CreditInv
<1>3. QED BY <1>1, <1>2

(* Nothing goes out or comes in. *)
LEMMA CreditStays ==
    ASSUME CreditInv, UNCHANGED <<seq, max, out, freed, rx>>, failed => failed',
           pc' = "write" => CywTxCredit(seq, max)
    PROVE  CreditInv'
BY DEF CreditInv, Stands, CywTxCredit

(* A header that is read is never taken for a stale one: its limit is no    *)
(* older than the last, in the window, and becomes TxMax.                   *)
LEMMA Accepts ==
    ASSUME TypeOK, CreditInv, PollFrame
    PROVE  \E next \in Nat :
             /\ next = rx[1].limit /\ next = Head(rx).limit /\ max' = next % SeqMod
             /\ out <= next /\ next <= freed + Buffers
             /\ \A limit \in Nat : Stands(limit) => limit <= next
             /\ \A i \in 1..Len(rx) : next <= rx[i].limit
<1>1. ~failed /\ rx # <<>> /\ max' = AcceptMax(Head(rx).limit) BY DEF PollFrame
<1>2. 1 \in 1..Len(rx) /\ Head(rx) = rx[1] BY <1>1 DEF TypeOK
<1>3. PICK next \in Nat : next = rx[1].limit BY <1>2, HeaderAt
<1>4. PICK limit \in Nat : Stands(limit) BY <1>1 DEF CreditInv
<1>5. out <= next /\ next <= freed + Buffers /\ \A i \in 1..Len(rx) : next <= rx[i].limit
  <2>1. limit <= next /\ out <= limit BY <1>2, <1>3, <1>4 DEF Stands
  <2>2. \A i, j \in 1..Len(rx) : i <= j => rx[i].limit <= rx[j].limit BY <1>1 DEF CreditInv
  <2>3. next <= freed + Buffers BY <1>1, <1>2, <1>3 DEF CreditInv
  <2>4. \A i \in 1..Len(rx) : 1 <= i OBVIOUS
  <2>5. \A i \in 1..Len(rx) : next <= rx[i].limit BY <1>2, <1>3, <2>2, <2>4
  <2>6. out <= next BY <2>1 DEF TypeOK
  <2>7. QED BY <2>3, <2>5, <2>6
<1>6. max' = next % SeqMod
  <2>1. seq = out % SeqMod /\ freed <= out BY <1>1 DEF CreditInv
  <2>2. /\ out \in Nat /\ freed \in Nat /\ Buffers \in Nat /\ Window \in Nat /\ SeqMod \in Nat
        /\ Buffers <= Window /\ Window < SeqMod
    BY SdpcmAssumption DEF TypeOK
  <2>3. next - out <= Window /\ next - out < SeqMod BY <1>5, <2>1, <2>2
  <2>4. UChar((next % SeqMod) - (out % SeqMod)) = next - out BY <1>5, <2>2, <2>3, Room
  <2>5. UChar(UChar(next) - seq) <= Window BY <2>1, <2>3, <2>4 DEF UChar
  <2>6. QED BY <1>1, <1>2, <1>3, <2>5 DEF AcceptMax, UChar
<1>7. \A k \in Nat : Stands(k) => k <= next BY <1>2, <1>3 DEF Stands
<1>8. QED BY <1>2, <1>3, <1>5, <1>6, <1>7

(* A header is read, and the older ones behind it are gone. *)
LEMMA Reads == ASSUME TypeOK, CreditInv, PollFrame PROVE CreditInv'
<1>1. /\ ~failed /\ rx # <<>> /\ rx' = Tail(rx)
      /\ UNCHANGED <<seq, failed, out, freed>> /\ pc' # "write"
  BY DEF PollFrame, Polling
<1>2. PICK next \in Nat :
        /\ max' = next % SeqMod /\ out <= next /\ next <= freed + Buffers
        /\ \A i \in 1..Len(rx) : next <= rx[i].limit
  BY Accepts
<1>3. /\ \A i \in 1..Len(rx) : rx[i].limit <= freed + Buffers
      /\ \A i, j \in 1..Len(rx) : i <= j => rx[i].limit <= rx[j].limit
  BY <1>1 DEF CreditInv
<1>4. Stands(next)'
  <2>1. ASSUME NEW i \in 1..Len(rx') PROVE next <= rx'[i].limit BY <1>1, <1>2, TailIs
  <2>2. QED BY <1>1, <1>2, <2>1 DEF Stands
<1>5. ASSUME NEW i \in 1..Len(rx') PROVE rx'[i].limit <= freed + Buffers BY <1>1, <1>3, TailIs
<1>6. ASSUME NEW i \in 1..Len(rx'), NEW j \in 1..Len(rx'), i <= j
      PROVE  rx'[i].limit <= rx'[j].limit
  <2>1. /\ i + 1 \in 1..Len(rx) /\ rx'[i] = rx[i + 1] /\ j + 1 \in 1..Len(rx)
        /\ rx'[j] = rx[j + 1]
    BY <1>1, TailIs
  <2>2. i + 1 <= j + 1 BY <1>6
  <2>3. QED BY <1>3, <2>1, <2>2
<1>7. seq' = out' % SeqMod /\ freed' <= out' /\ out' <= freed' + Buffers BY <1>1 DEF CreditInv
<1>8. QED BY <1>1, <1>4, <1>5, <1>6, <1>7 DEF CreditInv

LEMMA Frees == ASSUME TypeOK, CreditInv, FwFree PROVE CreditInv'
<1> USE SdpcmAssumption DEF TypeOK
<1>1. /\ freed < out /\ freed' = freed + 1
      /\ UNCHANGED <<seq, max, failed, pc, out, rx>>
  BY DEF FwFree, driver
<1>2. freed' <= out' /\ out' <= freed' + Buffers BY <1>1 DEF CreditInv
<1>3. ASSUME ~failed, NEW limit \in Nat, Stands(limit) PROVE Stands(limit)'
  BY <1>1, <1>3 DEF Stands
<1>4. ASSUME ~failed, NEW i \in 1..Len(rx) PROVE rx[i].limit <= freed' + Buffers
  <2>1. rx[i].limit \in Nat BY HeaderAt
  <2>2. rx[i].limit <= freed + Buffers BY <1>4 DEF CreditInv
  <2>3. QED BY <1>1, <2>1, <2>2
<1>5. pc' = "write" => CywTxCredit(seq, max)' BY <1>1 DEF CreditInv, CywTxCredit
<1>6. QED BY <1>1, <1>2, <1>3, <1>4, <1>5 DEF CreditInv

(* The firmware's newest limit is the largest. *)
LEMMA Posts == ASSUME TypeOK, CreditInv, NEW f \in BOOLEAN, FwPost(f) PROVE CreditInv'
<1> DEFINE h == [limit |-> freed + Buffers, flow |-> f]
<1>1. h \in Header /\ h.limit = freed + Buffers BY SdpcmAssumption DEF TypeOK, Header
<1>2. rx' = Append(rx, h) /\ UNCHANGED <<seq, max, failed, pc, out, freed>>
  BY DEF FwPost, driver
<1> HIDE DEF h
<1>3. /\ Len(rx') = Len(rx) + 1 /\ Len(rx) \in Nat
      /\ \A i \in 1..Len(rx') : \/ i \in 1..Len(rx) /\ rx'[i] = rx[i]
                                \/ i = Len(rx) + 1 /\ rx'[i] = h
  BY <1>1, <1>2, AppendIs DEF TypeOK
<1>4. ASSUME ~failed, NEW limit \in Nat, Stands(limit) PROVE Stands(limit)'
  <2>1. ASSUME NEW i \in 1..Len(rx') PROVE limit <= rx'[i].limit
    BY <1>1, <1>3, <1>4 DEF Stands
  <2>2. QED BY <1>2, <1>4, <2>1 DEF Stands
<1>5. ASSUME ~failed, NEW i \in 1..Len(rx') PROVE rx'[i].limit <= freed + Buffers
  <2>1. freed + Buffers <= freed + Buffers BY SdpcmAssumption DEF TypeOK
  <2>2. QED BY <1>1, <1>3, <1>5, <2>1 DEF CreditInv
<1>6. ASSUME ~failed, NEW i \in 1..Len(rx'), NEW j \in 1..Len(rx'), i <= j
      PROVE  rx'[i].limit <= rx'[j].limit
  <2>1. CASE j = Len(rx) + 1 /\ rx'[j] = h BY <1>1, <1>5, <1>6, <2>1
  <2>2. CASE j \in 1..Len(rx) /\ rx'[j] = rx[j]
    <3>1. i \in 1..Len(rx) /\ rx'[i] = rx[i] BY <1>3, <1>6, <2>2
    <3>2. QED BY <1>6, <2>2, <3>1 DEF CreditInv
  <2>3. QED BY <1>3, <2>1, <2>2
<1>7. pc' = "write" => CywTxCredit(seq, max)' BY <1>2 DEF CreditInv, CywTxCredit
<1>8. QED BY <1>2, <1>4, <1>5, <1>6, <1>7 DEF CreditInv

LEMMA SmallBytes == 0 % SeqMod = 0 /\ 1 % SeqMod = 1
<1>1. SeqMod \in Nat /\ SeqMod > 1 BY SdpcmAssumption
<1>2. 0 = SeqMod * 0 + 0 /\ 1 = SeqMod * 0 + 1 BY <1>1
<1>3. QED BY <1>1, <1>2, RemainderIs

(* A fresh firmware and a fresh driver: one credit. *)
LEMMA Restarts == ASSUME TypeOK, Restart PROVE CreditInv'
<1>1. /\ seq' = 0 /\ max' = 1 /\ out' = 0 /\ freed' = 0 /\ pc' = "idle" /\ failed' = FALSE
      /\ Len(rx') = 0
  BY DEF Restart
<1>2. Stands(1)' BY <1>1, SmallBytes, SdpcmAssumption DEF Stands
<1>3. freed' <= out' /\ out' <= freed' + Buffers BY <1>1, SdpcmAssumption
<1>4. \E limit \in Nat : Stands(limit)' BY <1>2
<1>5. 1..Len(rx') = {} BY <1>1
<1>6. seq' = out' % SeqMod /\ pc' # "write" BY <1>1, SmallBytes
<1>7. QED BY <1>3, <1>4, <1>5, <1>6 DEF CreditInv

LEMMA CreditKept == TypeOK /\ CreditInv /\ [Next]_vars => CreditInv'
<1> SUFFICES ASSUME TypeOK, CreditInv, [Next]_vars PROVE CreditInv' OBVIOUS
<1> USE DEF driver, burst
<1>1. CASE PumpBegin BY <1>1, CreditStays DEF PumpBegin
<1>2. CASE PumpEnd BY <1>2, CreditStays DEF PumpEnd
<1>3. ASSUME NEW size \in {"small", "bulk"}, PumpTake(size) PROVE CreditInv'
  <2>1. pc' # "write" BY <1>3 DEF PumpTake
  <2>2. QED BY <1>3, <2>1, CreditStays DEF PumpTake
<1>4. ASSUME NEW outcome \in Outcomes, FreshFails(outcome) PROVE CreditInv'
  BY <1>4, CreditStays DEF FreshFails
<1>5. ASSUME NEW want \in 0..(Budget - sent), FreshDone(want) PROVE CreditInv'
  <2>1. pc' = "write" => CywTxCredit(seq, max) BY <1>5 DEF FreshDone, GoAhead
  <2>2. QED BY <1>5, <2>1, CreditStays DEF FreshDone
<1>6. CASE Reuse
  <2>1. pc' = "write" => CywTxCredit(seq, max) BY <1>6 DEF Reuse
  <2>2. QED BY <1>6, <2>1, CreditStays DEF Reuse
<1>7. ASSUME NEW taken \in BOOLEAN, WriteFails(taken) PROVE CreditInv'
  <2>1. CywTxCredit(seq, max) BY <1>7 DEF CreditInv, WriteFails
  <2>2. QED BY <1>7, <2>1, Loses DEF WriteFails, FifoOpen
<1>8. ASSUME NEW keep \in BOOLEAN, WriteDone(keep) PROVE CreditInv'
  <2>1. CywTxCredit(seq, max) BY <1>8 DEF CreditInv, WriteDone
  <2>2. QED BY <1>8, <2>1, Sends DEF WriteDone, FifoOpen
<1>9. CASE ControlBegin BY <1>9, CreditStays DEF ControlBegin
<1>10. CASE ControlSend BY <1>10, Sends DEF ControlSend, FifoOpen
<1>11. CASE ControlEnd BY <1>11, CreditStays DEF ControlEnd
<1>12. ASSUME NEW taken \in BOOLEAN, ControlSendFails(taken) PROVE CreditInv'
  BY <1>12, Loses DEF ControlSendFails, FifoOpen
<1>13. CASE PollFrame BY <1>13, Reads
<1>14. CASE PollService
  <2>1. pc' # "write" BY <1>14 DEF PollService, Polling
  <2>2. QED BY <1>14, <2>1, CreditStays DEF PollService
<1>15. ASSUME NEW outcome \in Outcomes, PollFails(outcome) PROVE CreditInv'
  <2>1. pc' # "write" /\ (failed => failed') BY <1>15 DEF PollFails
  <2>2. QED BY <1>15, <2>1, CreditStays DEF PollFails
<1>16. CASE Restart BY <1>16, Restarts
<1>17. CASE FwFree BY <1>17, Frees
<1>18. ASSUME NEW f \in BOOLEAN, FwPost(f) PROVE CreditInv' BY <1>18, Posts
<1>19. CASE UNCHANGED vars
  <2>1. pc' = "write" => CywTxCredit(seq, max) BY <1>19 DEF vars, CreditInv
  <2>2. QED BY <1>19, <2>1, CreditStays DEF vars
<1>20. QED
  BY <1>1, <1>2, <1>3, <1>4, <1>5, <1>6, <1>7, <1>8, <1>9, <1>10, <1>11, <1>12, <1>13, <1>14,
     <1>15, <1>16, <1>17, <1>18, <1>19
  DEF Next, Data, CywFirmwareCommand, CywPoll

-----------------------------------------------------------------------------
(* Bursts. *)
LEMMA BurstEnds ==
    ASSUME BurstInv, pc' \in {"idle", "down"}, Locals(pc')
    PROVE  BurstInv'
<1>1. left' = 0 BY DEF Locals
<1>2. QED BY <1>1 DEF BurstInv

(* Outside a burst nothing but the control point counts. *)
LEMMA BurstRests ==
    ASSUME BurstInv, pc \in {"idle", "control", "reply", "down"}, UNCHANGED burst,
           pc' \in {"idle", "pump", "control", "reply", "down"}
    PROVE  BurstInv'
<1>1. left' = 0 BY DEF BurstInv, burst
<1>2. QED BY <1>1 DEF BurstInv

LEMMA BurstKept == TypeOK /\ BurstInv /\ [Next]_vars => BurstInv'
<1> SUFFICES ASSUME TypeOK, BurstInv, [Next]_vars PROVE BurstInv' OBVIOUS
<1> USE DEF driver
<1>1. CASE PumpBegin BY <1>1, BurstRests DEF PumpBegin
<1>2. CASE PumpEnd BY <1>2, BurstEnds DEF PumpEnd
<1>3. ASSUME NEW size \in {"small", "bulk"}, PumpTake(size) PROVE BurstInv'
  <2>1. CASE LeftFor(size) > 0
    <3>1. /\ size = "small" /\ left' = left /\ left > 0 /\ pc' = "reuse" /\ frame' = "small"
          /\ UNCHANGED <<position, spent>>
      BY <1>3, <2>1 DEF LeftFor, PumpTake
    <3>2. QED BY <3>1 DEF BurstInv
  <2>2. CASE ~(LeftFor(size) > 0)
    <3>1. left' = 0 /\ pc' = "fresh" BY <1>3, <2>2 DEF LeftFor, PumpTake, TypeOK
    <3>2. QED BY <3>1 DEF BurstInv
  <2>3. QED BY <2>1, <2>2
<1>4. ASSUME NEW outcome \in Outcomes, FreshFails(outcome) PROVE BurstInv'
  BY <1>4, BurstEnds DEF FreshFails
<1>5. ASSUME NEW want \in 0..(Budget - sent), FreshDone(want) PROVE BurstInv'
  <2>1. CASE pc' = "idle" BY <1>5, <2>1, BurstEnds DEF FreshDone
  <2>2. CASE pc' = "write"
    <3>1. Flowing' BY <1>5, <2>2 DEF FreshDone, GoAhead, Flowing
    <3>2. left' = 0 BY <1>5, <2>2 DEF FreshDone, Locals, BurstInv
    <3>3. grant' < BurstMax
      <4>1. max - seq \in Int BY DEF TypeOK
      <4>2. UChar(max - seq) \in Nat BY <4>1, Byte
      <4>3. want \in Nat /\ frame \in {"small", "bulk"} BY SdpcmAssumption DEF TypeOK
      <4>4. QED BY <1>5, <4>2, <4>3, Granted DEF FreshDone
    <3>4. spent' = 0 BY <1>5 DEF FreshDone
    <3>5. QED BY <2>2, <3>1, <3>2, <3>3, <3>4 DEF BurstInv
  <2>3. QED BY <1>5, <2>1, <2>2 DEF FreshDone
<1>6. CASE Reuse
  <2>1. CASE pc' \in {"idle", "down"} BY <1>6, <2>1, BurstEnds DEF Reuse
  <2>2. CASE pc' = "write"
    <3>1. pc = "reuse" /\ Flowing /\ UNCHANGED <<flow, globalFlow, frame, left, position, spent>>
      BY <1>6, <2>2 DEF Reuse, Locals
    <3>2. left > 0 BY <3>1 DEF BurstInv
    <3>3. QED BY <2>2, <3>1, <3>2 DEF BurstInv, Flowing
  <2>3. QED BY <1>6, <2>1, <2>2 DEF Reuse
<1>7. ASSUME NEW taken \in BOOLEAN, WriteFails(taken) PROVE BurstInv'
  BY <1>7, BurstEnds DEF WriteFails
<1>8. ASSUME NEW keep \in BOOLEAN, WriteDone(keep) PROVE BurstInv'
  <2>1. left' > 0 => position' = spent' + 1 /\ spent' > 0 /\ spent' + left' <= BurstMax
    <3>1. CASE left = 0 BY <1>8, <3>1, SdpcmAssumption DEF WriteDone, BurstInv, TypeOK
    <3>2. CASE left # 0 BY <1>8, <3>2, SdpcmAssumption DEF WriteDone, BurstInv, TypeOK
    <3>3. QED BY <3>1, <3>2
  <2>2. pc' = "pump" BY <1>8 DEF WriteDone
  <2>3. QED BY <2>1, <2>2 DEF BurstInv
<1>9. CASE ControlBegin BY <1>9, BurstRests DEF ControlBegin
<1>10. CASE ControlSend BY <1>10, BurstRests DEF ControlSend
<1>11. CASE ControlEnd BY <1>11, BurstRests DEF ControlEnd
<1>12. ASSUME NEW taken \in BOOLEAN, ControlSendFails(taken) PROVE BurstInv'
  BY <1>12, BurstRests DEF ControlSendFails
<1>13. CASE PollFrame BY <1>13, BurstRests DEF PollFrame, Polling
<1>14. CASE PollService BY <1>14, BurstRests DEF PollService, Polling
<1>15. ASSUME NEW outcome \in Outcomes, PollFails(outcome) PROVE BurstInv'
  <2>1. pc' \in {"idle", "down"} BY <1>15 DEF PollFails
  <2>2. QED BY <1>15, <2>1, BurstRests DEF PollFails, Polling
<1>16. CASE Restart BY <1>16, BurstRests DEF Restart
<1>17. CASE FwFree BY <1>17 DEF FwFree, burst, BurstInv, Flowing
<1>18. ASSUME NEW f \in BOOLEAN, FwPost(f) PROVE BurstInv'
  BY <1>18 DEF FwPost, burst, BurstInv, Flowing
<1>19. CASE UNCHANGED vars BY <1>19 DEF vars, burst, BurstInv, Flowing
<1>20. QED
  BY <1>1, <1>2, <1>3, <1>4, <1>5, <1>6, <1>7, <1>8, <1>9, <1>10, <1>11, <1>12, <1>13, <1>14,
     <1>15, <1>16, <1>17, <1>18, <1>19
  DEF Next, Data, CywFirmwareCommand, CywPoll

-----------------------------------------------------------------------------
SdpcmInv == TypeOK /\ CreditInv /\ BurstInv

LEMMA InvInit == Init => SdpcmInv
<1> SUFFICES ASSUME Init PROVE SdpcmInv OBVIOUS
<1>1. TypeOK
  <2>1. rx \in Seq(Header) BY DEF Init
  <2>2. 0 \in 0..(SeqMod - 1) /\ 1 \in 0..(SeqMod - 1) BY SdpcmAssumption
  <2>3. QED BY <2>1, <2>2 DEF Init, TypeOK
<1>2. CreditInv
  <2>1. Len(rx) = 0 BY DEF Init
  <2>2. 1..Len(rx) = {} BY <2>1
  <2>3. Stands(1) BY <2>1, SmallBytes, SdpcmAssumption DEF Init, Stands
  <2>4. \E limit \in Nat : Stands(limit) BY <2>3
  <2>5. freed <= out /\ out <= freed + Buffers BY SdpcmAssumption DEF Init
  <2>6. seq = out % SeqMod /\ pc # "write" BY SmallBytes DEF Init
  <2>7. QED BY <2>2, <2>4, <2>5, <2>6 DEF CreditInv
<1>3. BurstInv BY DEF Init, BurstInv
<1>4. QED BY <1>1, <1>2, <1>3 DEF SdpcmInv

LEMMA InvKept == SdpcmInv /\ [Next]_vars => SdpcmInv'
BY TypeKept, CreditKept, BurstKept DEF SdpcmInv

LEMMA InvHolds == Spec => []SdpcmInv
BY InvInit, InvKept, PTL DEF Spec

(* The variables of the sender keep their types; TxSeq and TxMax stay bytes. *)
THEOREM SdpcmTypeCorrect == Spec => []TypeOK
<1>1. SdpcmInv => TypeOK BY DEF SdpcmInv
<1>2. QED BY <1>1, InvHolds, PTL

(* The credit CywTxCredit computes from two bytes is room the firmware has,  *)
(* across wrap-around, late headers and failed transfers, and the firmware's *)
(* buffers are never overrun: for every modulus, window and buffer count.    *)
THEOREM CreditCorrect == Spec => []CreditTrue
<1>1. ASSUME SdpcmInv PROVE CreditTrue
  <2>1. TypeOK /\ CreditInv BY <1>1 DEF SdpcmInv
  <2>2. out <= freed + Buffers BY <2>1 DEF CreditInv
  <2>3. ASSUME ~failed PROVE UChar(max - seq) <= freed + Buffers - out
    <3>1. PICK limit \in Nat : Stands(limit) BY <2>1, <2>3 DEF CreditInv
    <3>2. UChar(max - seq) = limit - out BY <2>1, <2>3, <3>1, RoomIs
    <3>3. QED BY <2>1, <3>1, <3>2, SdpcmAssumption DEF Stands, TypeOK
  <2>4. QED BY <2>2, <2>3 DEF CreditTrue
<1>2. QED BY <1>1, InvHolds, PTL

(* A frame the firmware takes bears the number of frames before it, modulo   *)
(* the byte: nothing is sent twice and nothing after a lost transfer.        *)
THEOREM NumbersCorrect == Spec => NumbersInOrder
<1>1. ASSUME SdpcmInv, [Next]_vars PROVE [out' > out => seq = UChar(out)]_vars
  <2>1. SUFFICES ASSUME Next, out' > out PROVE seq = UChar(out) BY <1>1
  <2>2. out \in Nat BY <1>1 DEF SdpcmInv, TypeOK
  <2>3. ~failed
    <3>1. ASSUME UNCHANGED out \/ out' = 0 PROVE FALSE BY <2>1, <2>2, <3>1
    <3>2. ASSUME NEW taken \in BOOLEAN, WriteFails(taken) \/ ControlSendFails(taken)
          PROVE  ~failed
      BY <3>1, <3>2 DEF WriteFails, ControlSendFails, FifoOpen
    <3>3. ASSUME NEW keep \in BOOLEAN, WriteDone(keep) PROVE ~failed
      BY <3>3 DEF WriteDone, FifoOpen
    <3>4. CASE ControlSend BY <3>4 DEF ControlSend, FifoOpen
    <3>5. QED BY <2>1, <3>1, <3>2, <3>3, <3>4
          DEF Next, Data, CywFirmwareCommand, CywPoll, PumpBegin, PumpEnd, PumpTake, FreshFails,
              FreshDone, Reuse, ControlBegin, ControlEnd, PollFrame, PollService, PollFails,
              Restart, FwFree, FwPost
  <2>4. QED BY <1>1, <2>3 DEF SdpcmInv, CreditInv, UChar
<1>2. QED BY <1>1, InvHolds, PTL DEF Spec, NumbersInOrder

(* Data frames leave only while the flow allows, at most BurstMax of them on *)
(* one F1 service and bulk frames alone, and the position of a follower is   *)
(* always one the sender accepts.                                            *)
THEOREM DisciplineCorrect == Spec => DataDiscipline
<1> DEFINE A == /\ out' > out /\ pc = "write" =>
                     Flowing /\ spent < BurstMax /\ (frame = "bulk" => spent = 0)
                /\ pc' = "reuse" => position' \in ReusePositions
<1>1. ASSUME SdpcmInv, SdpcmInv' PROVE A
  <2>1. ASSUME pc = "write" PROVE Flowing /\ spent < BurstMax /\ (frame = "bulk" => spent = 0)
    <3>1. CASE left = 0 BY <1>1, <2>1, <3>1, SdpcmAssumption DEF SdpcmInv, BurstInv, TypeOK
    <3>2. CASE left # 0 BY <1>1, <2>1, <3>2, SdpcmAssumption DEF SdpcmInv, BurstInv, TypeOK
    <3>3. QED BY <3>1, <3>2
  <2>2. ASSUME pc' = "reuse" PROVE position' \in ReusePositions
    <3>1. /\ left' > 0 /\ position' = spent' + 1 /\ spent' > 0 /\ spent' + left' <= BurstMax
          /\ left' \in Nat /\ spent' \in Nat
      BY <1>1, <2>2 DEF SdpcmInv, BurstInv, TypeOK
    <3>2. PICK n \in Nat, k \in Nat : n = spent' /\ k = left' BY <3>1
    <3>3. n > 0 /\ k > 0 /\ n + k <= BurstMax /\ position' = n + 1 BY <3>1, <3>2
    <3>4. BurstMax \in Nat BY SdpcmAssumption
    <3>5. n + 1 \in 2..BurstMax BY <3>3, <3>4
    <3>6. QED BY <3>3, <3>5 DEF ReusePositions
  <2>3. QED BY <2>1, <2>2
<1>2. QED BY <1>1, InvHolds, PTL DEF DataDiscipline
-----------------------------------------------------------------------------
(* Credit is not lost either.  This is what CreditReturns needs besides     *)
(* fairness.                                                                *)

(* The credit CywTxCredit computes from the two bytes. *)
CreditLeft == UChar(max - seq)

(* Credit is spent by frames that are sent and by nothing else, and every   *)
(* header counts: after it the credit is what the firmware announced in it  *)
(* less the frames sent by now, however late it is read, and never less     *)
(* than before.                                                             *)
CreditConserved ==
    pc # "down" /\ ~failed /\ ~failed' =>
        /\ CreditLeft' >= CreditLeft - (out' - out)
        /\ PollFrame => CreditLeft' = Head(rx).limit - out

(* A frame that goes out costs one credit. *)
LEMMA SendCosts ==
    ASSUME SdpcmInv, ~failed, CywTxCredit(seq, max),
           seq' = UChar(seq + 1), out' = out + 1, max' = max
    PROVE  CreditLeft' = CreditLeft - 1 /\ CreditLeft \in Nat
<1>1. TypeOK /\ CreditInv BY DEF SdpcmInv
<1>2. PICK limit \in Nat : Stands(limit) BY <1>1 DEF CreditInv
<1>3. CreditLeft = limit - out /\ limit - out <= Buffers /\ limit - out # 0 /\ out <= limit
  BY <1>1, <1>2, RoomIs DEF CreditLeft, CywTxCredit, Stands
<1>4. /\ out \in Nat /\ out + 1 \in Nat /\ out + 1 <= limit /\ limit - (out + 1) < SeqMod
      /\ limit - out \in Nat
  BY <1>1, <1>3, SdpcmAssumption DEF TypeOK
<1>5. max = limit % SeqMod /\ UChar(seq + 1) = (out + 1) % SeqMod
  BY <1>1, <1>2, <1>4, Step DEF CreditInv, Stands
<1>6. UChar((limit % SeqMod) - ((out + 1) % SeqMod)) = limit - (out + 1) BY <1>4, Room
<1>7. CreditLeft' = limit - (out + 1) BY <1>5, <1>6 DEF CreditLeft, UChar
<1>8. QED BY <1>3, <1>4, <1>7

(* A header that is read brings the credit it announced. *)
LEMMA HeaderCounts ==
    ASSUME SdpcmInv, PollFrame
    PROVE  CreditLeft' = Head(rx).limit - out /\ CreditLeft' >= CreditLeft
<1>1. TypeOK /\ CreditInv /\ ~failed /\ UNCHANGED <<seq, out>> BY DEF SdpcmInv, PollFrame
<1>2. PICK next \in Nat :
        /\ next = Head(rx).limit /\ max' = next % SeqMod
        /\ out <= next /\ next <= freed + Buffers
        /\ \A limit \in Nat : Stands(limit) => limit <= next
  BY <1>1, Accepts
<1>3. PICK limit \in Nat : Stands(limit) BY <1>1 DEF CreditInv
<1>4. CreditLeft = limit - out /\ limit <= next BY <1>1, <1>2, <1>3, RoomIs DEF CreditLeft
<1>5. /\ out \in Nat /\ freed \in Nat /\ freed <= out /\ Buffers \in Nat /\ Buffers < SeqMod
      /\ SeqMod \in Nat /\ seq = out % SeqMod
  BY <1>1, SdpcmAssumption DEF TypeOK, CreditInv
<1>6. next - out < SeqMod BY <1>2, <1>5
<1>7. UChar((next % SeqMod) - (out % SeqMod)) = next - out BY <1>2, <1>5, <1>6, Room
<1>8. CreditLeft' = next - out BY <1>1, <1>2, <1>5, <1>7 DEF CreditLeft, UChar
<1>9. QED BY <1>2, <1>4, <1>5, <1>8

(* CreditConserved: no step but a frame sent lowers the credit, and no      *)
(* header is discarded, across wrap-around of both bytes, for every modulus,*)
(* window and number of buffers.                                            *)
THEOREM CreditIsKept == Spec => [][CreditConserved]_vars
<1>1. ASSUME SdpcmInv, [Next]_vars PROVE [CreditConserved]_vars
  <2> SUFFICES ASSUME Next, pc # "down", ~failed, ~failed'
               PROVE  /\ CreditLeft' >= CreditLeft - (out' - out)
                      /\ PollFrame => CreditLeft' = Head(rx).limit - out
    BY <1>1 DEF CreditConserved
  <2>1. /\ out \in Nat /\ CreditLeft \in Nat
    <3>1. max - seq \in Int /\ out \in Nat BY <1>1, SdpcmAssumption DEF SdpcmInv, TypeOK
    <3>2. QED BY <3>1, Byte DEF CreditLeft
  <2>2. CASE PollFrame
    <3>1. out' = out BY <2>2 DEF PollFrame
    <3>2. CreditLeft' = Head(rx).limit - out /\ CreditLeft' >= CreditLeft
      BY <1>1, <2>2, HeaderCounts
    <3>3. QED BY <2>1, <3>1, <3>2
  <2>3. CASE UNCHANGED <<seq, max, out>>
    <3>1. CreditLeft' = CreditLeft BY <2>3 DEF CreditLeft, UChar
    <3>2. QED BY <2>1, <2>2, <2>3, <3>1
  <2>4. CASE CywTxCredit(seq, max) /\ seq' = UChar(seq + 1) /\ out' = out + 1 /\ max' = max
    <3>1. CreditLeft' = CreditLeft - 1 BY <1>1, <2>4, SendCosts
    <3>2. QED BY <2>1, <2>2, <2>4, <3>1
  <2>5. ASSUME NEW keep \in BOOLEAN, WriteDone(keep)
        PROVE  CywTxCredit(seq, max) /\ seq' = UChar(seq + 1) /\ out' = out + 1 /\ max' = max
    BY <1>1, <2>5 DEF WriteDone, SdpcmInv, CreditInv
  <2>6. CASE ControlSend BY <2>4, <2>6 DEF ControlSend
  <2>7. ~Restart /\ \A taken \in BOOLEAN : ~WriteFails(taken) /\ ~ControlSendFails(taken)
    BY DEF Restart, WriteFails, ControlSendFails
  <2>8. CASE Data
    BY <2>3, <2>4, <2>5, <2>7, <2>8 DEF Data, PumpBegin, PumpEnd, PumpTake, FreshFails,
        FreshDone, Reuse, driver
  <2>9. CASE CywFirmwareCommand
    BY <2>3, <2>6, <2>7, <2>9 DEF CywFirmwareCommand, ControlBegin, ControlEnd, driver
  <2>10. CASE CywPoll BY <2>2, <2>3, <2>10 DEF CywPoll, PollService, PollFails
  <2>11. CASE FwFree \/ \E f \in BOOLEAN : FwPost(f)
    BY <2>3, <2>11 DEF FwFree, FwPost, driver
  <2>12. QED BY <2>7, <2>8, <2>9, <2>10, <2>11 DEF Next
<1>2. QED BY <1>1, InvHolds, PTL DEF Spec
=============================================================================
