--------------------------- MODULE CanCodec_proofs ---------------------------
(***************************************************************************)
(* What the codec does to a frame, for every mode, PID, payload and byte   *)
(* order: what is made is read back, as long as the mode is answerable and *)
(* the PID fits into a byte.                                               *)
(***************************************************************************)
EXTENDS CanCodec, TLAPS

\* A tuple in front of a payload.
LEMMA InFront ==
  ASSUME NEW S, NEW x, NEW y, NEW payload \in Seq(S)
  PROVE  /\ Len(<< x >> \o payload) = 1 + Len(payload)
         /\ Len(<< x, y >> \o payload) = 2 + Len(payload)
<1>1. << x >> \in Seq({x, y} \cup S) /\ << x, y >> \in Seq({x, y} \cup S)
  OBVIOUS
<1>2. payload \in Seq({x, y} \cup S)
  OBVIOUS
<1>. QED
  BY <1>1, <1>2

LEMMA PidFieldBytes ==
  ASSUME NEW order, NEW mode, NEW pid, NEW payload \in Seq(Byte)
  PROVE  Len(PidField(order, mode, pid) \o payload) = mode_data_offset(mode) - 1 + Len(payload)
<1>. DEFINE high == ToByte(256 * ((pid \div 256) % 256))
            low  == ToByte(pid)
<1>0. Len(payload) \in Nat
  OBVIOUS
<1>1. PidField(order, mode, pid) =
        IF mode_is_sae_standard(mode) THEN << low >>
        ELSE IF order THEN << high, low >> ELSE << low, high >>
  BY DEF PidField
<1>. HIDE DEF high, low
<1>2. CASE mode_is_sae_standard(mode)
  <2>1. PidField(order, mode, pid) = << low >>
    BY <1>1, <1>2
  <2>. QED
    BY <1>0, <1>2, <2>1, InFront DEF mode_data_offset
<1>3. CASE ~mode_is_sae_standard(mode)
  <2>1. PidField(order, mode, pid) = << high, low >> \/ PidField(order, mode, pid) = << low, high >>
    BY <1>1, <1>3
  <2>2. Len(PidField(order, mode, pid) \o payload) = 2 + Len(payload)
    <3>1. Len(<< high, low >> \o payload) = 2 + Len(payload)
      BY InFront
    <3>2. Len(<< low, high >> \o payload) = 2 + Len(payload)
      BY InFront
    <3>. QED
      BY <2>1, <3>1, <3>2
  <2>. QED
    BY <1>0, <1>3, <2>2 DEF mode_data_offset
<1>. QED
  BY <1>2, <1>3

\* A response as the payload, the mode and the PID make it, whatever was in
\* the buffer.
Response(order, mode, pid, payload) ==
  LET bytes == PidField(order, mode, pid) \o payload
  IN  [k \in 0..7 |->
         IF k >= mode_data_offset(mode) + 1 + Len(payload) THEN PAD_VALUE
         ELSE IF k = 0 THEN mode_data_offset(mode) + Len(payload)
         ELSE IF k = 1 THEN ToByte(64 + mode)
         ELSE bytes[k - 1]]

\* Header, PID, payload and padding together overwrite the buffer.
LEMMA ResponseIsWhole ==
  ASSUME NEW order, NEW mode, NEW pid, NEW payload \in Seq(Byte), NEW frame,
         make_can_response_noctx(order, mode, pid, payload, frame).err = "YOBD_OK"
  PROVE  make_can_response_noctx(order, mode, pid, payload, frame).frame =
           [can_id |-> RESPONSE_BASE, can_dlc |-> OBD_II_DLC,
            data |-> Response(order, mode, pid, payload)]
<1>. DEFINE offset == mode_data_offset(mode)
            len    == Len(payload)
            header == << offset + len, ToByte(64 + mode) >>
            bytes  == PidField(order, mode, pid) \o payload
            first  == Write(frame.data, 0, header)
            behind == Write(first, 2, bytes)
            whole  == Pad(behind, offset + 1 + len)
<1>1. offset \in 2..3 /\ len \in Nat
  BY DEF mode_data_offset
<1>2. Len(bytes) = offset - 1 + len
  BY PidFieldBytes
<1>3. Len(header) = 2 /\ header[1] = offset + len /\ header[2] = ToByte(64 + mode)
  OBVIOUS
<1>4. make_can_response_noctx(order, mode, pid, payload, frame).frame =
        [can_id |-> RESPONSE_BASE, can_dlc |-> OBD_II_DLC, data |-> whole]
  BY Zenon DEF make_can_response_noctx
<1>. HIDE DEF offset, len, header, bytes
<1>5. first[0] = offset + len /\ first[1] = ToByte(64 + mode)
  BY <1>3 DEF Write
<1>6. behind = [k \in 0..7 |-> IF k \in 2..(offset + len) THEN bytes[k - 1] ELSE first[k]]
  BY <1>1, <1>2 DEF Write
<1>7. whole = [k \in 0..7 |-> IF k >= offset + 1 + len THEN PAD_VALUE ELSE behind[k]]
  BY DEF Pad
<1>. HIDE DEF first, behind, whole
<1>8. whole = Response(order, mode, pid, payload)
  <2>. DEFINE new(k) == IF k >= offset + 1 + len THEN PAD_VALUE
                        ELSE IF k = 0 THEN offset + len
                        ELSE IF k = 1 THEN ToByte(64 + mode)
                        ELSE bytes[k - 1]
  <2>1. Response(order, mode, pid, payload) = [k \in 0..7 |-> new(k)]
    BY Zenon DEF Response, offset, len, bytes
  <2>2. ASSUME NEW k \in 0..7 PROVE whole[k] = new(k)
    <3>1. whole[k] = IF k >= offset + 1 + len THEN PAD_VALUE ELSE behind[k]
      BY <1>7
    <3>2. behind[k] = IF k \in 2..(offset + len) THEN bytes[k - 1] ELSE first[k]
      BY <1>6
    <3>3. k = 0 \/ k = 1 \/ k \in 2..7
      OBVIOUS
    <3>. QED
      BY <1>1, <1>5, <3>1, <3>2, <3>3
  <2>. HIDE DEF new
  <2>. QED
    BY <1>7, <2>1, <2>2, Zenon
<1>. QED
  BY <1>4, <1>8

\* Whether a response can be made does not depend on the buffer.
LEMMA ErrorIsOfTheCall ==
  ASSUME NEW order, NEW mode, NEW pid, NEW payload, NEW frame, NEW other
  PROVE  make_can_response_noctx(order, mode, pid, payload, frame).err =
           make_can_response_noctx(order, mode, pid, payload, other).err
BY DEF make_can_response_noctx

\* Behind the bytes that the header counts there is only padding.
LEMMA PaddedBehindData ==
  ASSUME NEW order, NEW mode, NEW pid, NEW payload \in Seq(Byte), NEW k \in 0..7,
         k > Response(order, mode, pid, payload)[0]
  PROVE  Response(order, mode, pid, payload)[k] = PAD_VALUE
<1>1. mode_data_offset(mode) \in Nat /\ Len(payload) \in Nat
  BY DEF mode_data_offset
<1>2. Response(order, mode, pid, payload)[0] = mode_data_offset(mode) + Len(payload)
  BY <1>1 DEF Response
<1>3. k >= mode_data_offset(mode) + 1 + Len(payload)
  BY <1>1, <1>2
<1>. QED
  BY <1>3 DEF Response

-----------------------------------------------------------------------------
(***************************************************************************)
(* Round trips.                                                            *)
(***************************************************************************)

LEMMA HalfIs == HALF \in Nat /\ 255 < HALF
BY DEF HALF

\* A key is the mode and the PID, side by side.
LEMMA KeyIsPair ==
  ASSUME NEW mode, NEW pid \in 0..(HALF - 1)
  PROVE  get_modepid(mode, pid) = << mode, pid >>
<1>1. HALF \in Nat /\ HALF > 0
  BY HalfIs
<1>2. PICK half : half = HALF /\ half \in Nat /\ half > 0
  BY <1>1
<1>3. pid \in Nat /\ pid < half
  BY <1>2
<1>4. (pid \div half) % half = 0 /\ pid % half = pid
  BY ONLY <1>2, <1>3, SMT
<1>5. (pid \div HALF) % HALF = 0 /\ pid % HALF = pid
  BY <1>2, <1>4, Zenon
<1>. QED
  BY <1>5, Zenon DEF get_modepid, Or

\* Two sequences behind each other.
LEMMA AppendProps ==
  ASSUME NEW S, NEW s \in Seq(S), NEW t \in Seq(S)
  PROVE  /\ Len(s \o t) = Len(s) + Len(t)
         /\ \A k \in 1..Len(s) : (s \o t)[k] = s[k]
         /\ \A k \in 1..Len(t) : (s \o t)[Len(s) + k] = t[k]
OBVIOUS

\* A tuple of one in front of a sequence.
LEMMA BehindOne ==
  ASSUME NEW S, NEW x \in S, NEW s \in Seq(S)
  PROVE  /\ Len(<< x >> \o s) = 1 + Len(s)
         /\ (<< x >> \o s)[1] = x
         /\ \A k \in 1..Len(s) : (<< x >> \o s)[1 + k] = s[k]
<1> DEFINE one == << x >>
<1>1. one \in Seq(S) /\ Len(one) = 1 /\ one[1] = x
  OBVIOUS
<1> HIDE DEF one
<1>2. /\ Len(one \o s) = Len(one) + Len(s)
      /\ \A k \in 1..Len(one) : (one \o s)[k] = one[k]
      /\ \A k \in 1..Len(s) : (one \o s)[Len(one) + k] = s[k]
  BY <1>1, AppendProps
<1> QED BY <1>1, <1>2 DEF one

\* The bytes of a PID that fits into one.
LEMMA PidFieldOfByte ==
  ASSUME NEW order \in BOOLEAN, NEW mode, NEW pid \in Byte
  PROVE  /\ mode_is_sae_standard(mode) => PidField(order, mode, pid) = << pid >>
         /\ ~mode_is_sae_standard(mode) /\ order => PidField(order, mode, pid) = << 0, pid >>
         /\ ~mode_is_sae_standard(mode) /\ ~order => PidField(order, mode, pid) = << pid, 0 >>
<1>1. (pid \div 256) % 256 = 0 /\ pid % 256 = pid
  BY DEF Byte
<1>2. ToByte(256 * ((pid \div 256) % 256)) = 0 /\ ToByte(pid) = pid
  BY <1>1 DEF ToByte
<1>. QED
  BY <1>2 DEF PidField

LEMMA FieldElements ==
  ASSUME NEW order \in BOOLEAN, NEW mode, NEW pid \in Byte
  PROVE  /\ PidField(order, mode, pid) \in Seq(Byte)
         /\ Len(PidField(order, mode, pid)) = IF mode_is_sae_standard(mode) THEN 1 ELSE 2
         /\ mode_is_sae_standard(mode) => PidField(order, mode, pid)[1] = pid
         /\ ~mode_is_sae_standard(mode) /\ order =>
              PidField(order, mode, pid)[1] = 0 /\ PidField(order, mode, pid)[2] = pid
         /\ ~mode_is_sae_standard(mode) /\ ~order => 
              PidField(order, mode, pid)[1] = pid /\ PidField(order, mode, pid)[2] = 0
<1>1. 0 \in Byte
  BY DEF Byte
<1>2. CASE mode_is_sae_standard(mode)
  <2>1. PidField(order, mode, pid) = << pid >>
    BY <1>2, PidFieldOfByte
  <2>2. << pid >> \in Seq(Byte) /\ Len(<< pid >>) = 1 /\ << pid >>[1] = pid
    OBVIOUS
  <2> QED BY <1>2, <2>1, <2>2
<1>3. CASE ~mode_is_sae_standard(mode) /\ order
  <2>1. PidField(order, mode, pid) = << 0, pid >>
    BY <1>3, PidFieldOfByte
  <2>2. << 0, pid >> \in Seq(Byte) /\ Len(<< 0, pid >>) = 2 /\ << 0, pid >>[1] = 0 /\ << 0, pid >>[2] = pid
    BY <1>1
  <2> QED BY <1>3, <2>1, <2>2
<1>4. CASE ~mode_is_sae_standard(mode) /\ ~order
  <2>1. PidField(order, mode, pid) = << pid, 0 >>
    BY <1>4, PidFieldOfByte
  <2>2. << pid, 0 >> \in Seq(Byte) /\ Len(<< pid, 0 >>) = 2 /\ << pid, 0 >>[1] = pid /\ << pid, 0 >>[2] = 0
    BY <1>1
  <2> QED BY <1>4, <2>1, <2>2
<1> QED BY <1>2, <1>3, <1>4

\* What the reader makes of a header, by the bytes that it looks at.
LEMMA HeaderIsRead ==
  ASSUME NEW order \in BOOLEAN, NEW mode \in Modes, NEW pid \in Byte, NEW frame,
         frame.data[1] = IF is_response(frame) THEN mode + 64 ELSE mode,
         is_response(frame) => mode >= 1,
         frame.data[2] = PidField(order, mode, pid)[1],
         ~mode_is_sae_standard(mode) => frame.data[3] = PidField(order, mode, pid)[2]
  PROVE  parse_mode_pid(order, frame) =
           [err |-> "YOBD_OK", mode |-> mode, pid |-> pid,
            data_start |-> mode_data_offset(mode) + 1]
<1>1. mode \in Nat /\ pid \in Nat
  BY DEF Modes, Byte
<1>2. (IF is_response(frame) THEN frame.data[1] - 64 ELSE frame.data[1]) = mode
  BY <1>1
<1>3. ~(is_response(frame) /\ frame.data[1] < 65)
  BY <1>1
<1>4. (IF mode_is_sae_standard(mode) THEN frame.data[2]
       ELSE IF order THEN 256 * frame.data[2] + frame.data[3]
                     ELSE 256 * frame.data[3] + frame.data[2]) = pid
  <2>1. CASE mode_is_sae_standard(mode)
    BY <1>1, <2>1, FieldElements
  <2>2. CASE ~mode_is_sae_standard(mode) /\ order
    <3>1. PidField(order, mode, pid)[1] = 0 /\ PidField(order, mode, pid)[2] = pid
      BY <2>2, FieldElements
    <3>2. frame.data[2] = 0 /\ frame.data[3] = pid
      BY <2>2, <3>1
    <3>3. 256 * 0 + pid = pid
      BY <1>1
    <3>. QED
      BY <2>2, <3>2, <3>3
  <2>3. CASE ~mode_is_sae_standard(mode) /\ ~order
    <3>1. PidField(order, mode, pid) = << pid, 0 >>
      BY <2>3, FieldElements
    <3>2. frame.data[2] = pid /\ frame.data[3] = 0
      BY <2>3, <3>1
    <3>. QED
      BY <1>1, <2>3, <3>2
  <2>. QED
    BY <2>1, <2>2, <2>3
<1>. DEFINE m == IF is_response(frame) THEN frame.data[1] - 64 ELSE frame.data[1]
            p == IF mode_is_sae_standard(m) THEN frame.data[2]
                 ELSE IF order THEN 256 * frame.data[2] + frame.data[3]
                               ELSE 256 * frame.data[3] + frame.data[2]
<1>5. parse_mode_pid(order, frame) =
        [err |-> "YOBD_OK", mode |-> m, pid |-> p, data_start |-> mode_data_offset(m) + 1]
  BY <1>3, Zenon DEF parse_mode_pid
<1>6. m = mode
  BY <1>2
<1>7. p = pid
  BY <1>4, <1>6
<1>. HIDE DEF m, p
<1>. QED
  BY <1>5, <1>6, <1>7

\* A query is read as the mode and the PID that were asked for.
LEMMA QueryIsRead ==
  ASSUME NEW order \in BOOLEAN, NEW mode \in Modes, NEW pid \in Nat, NEW frame,
         mode_is_sae_standard(mode) \/ pid <= 255, NEW made,
         made = make_can_query_noctx(order, mode, pid, frame), made.err = "YOBD_OK"
  PROVE  /\ is_query(made.frame) /\ ~is_response(made.frame)
         /\ made.frame.can_dlc = 8
         /\ parse_mode_pid(order, made.frame) =
              [err |-> "YOBD_OK", mode |-> mode, pid |-> pid,
               data_start |-> mode_data_offset(mode) + 1]
<1>. DEFINE offset == mode_data_offset(mode)
            first  == Write(frame.data, 0, << offset >>)
            bytes  == << mode >> \o PidField(order, mode, pid)
            behind == Write(first, 1, bytes)
            whole  == Pad(behind, offset + 1)
<1>1. ~PidTooLarge(mode, pid) /\ made.frame = [can_id |-> QUERY_ADDRESS,
                                              can_dlc |-> OBD_II_DLC, data |-> whole]
  <2>1. ~PidTooLarge(mode, pid)
    BY DEF make_can_query_noctx
  <2>. QED
    BY <2>1, Zenon DEF make_can_query_noctx
<1>2. pid \in Byte
  BY <1>1 DEF PidTooLarge, Byte
<1>3. is_query(made.frame) /\ ~is_response(made.frame) /\ made.frame.can_dlc = 8
      /\ made.frame.data = whole
  BY <1>1 DEF is_query, is_response, QUERY_ADDRESS, RESPONSE_BASE, RESPONSE_END, OBD_II_DLC
<1>4. /\ Len(bytes) = offset /\ bytes[1] = mode
      /\ bytes[2] = PidField(order, mode, pid)[1]
      /\ ~mode_is_sae_standard(mode) => bytes[3] = PidField(order, mode, pid)[2]
      /\ offset = IF mode_is_sae_standard(mode) THEN 2 ELSE 3
  <2>. DEFINE field == PidField(order, mode, pid)
  <2>1. field \in Seq(Byte) /\ Len(field) = IF mode_is_sae_standard(mode) THEN 1 ELSE 2
    BY <1>2, FieldElements
  <2>2. mode \in Byte
    BY DEF Modes
  <2>. HIDE DEF field
  <2>3. /\ Len(<< mode >> \o field) = 1 + Len(field)
        /\ (<< mode >> \o field)[1] = mode
        /\ \A k \in 1..Len(field) : (<< mode >> \o field)[1 + k] = field[k]
    <3>1. mode \in Byte /\ field \in Seq(Byte)
      BY <2>1, <2>2
    <3>. QED
      BY ONLY <3>1, BehindOne
  <2>4. bytes = << mode >> \o field
    BY DEF field
  <2>5. 1 \in 1..Len(field) /\ (~mode_is_sae_standard(mode) => 2 \in 1..Len(field))
    BY <2>1
  <2>. QED
    BY <2>1, <2>3, <2>4, <2>5 DEF field, mode_data_offset
<1>. HIDE DEF bytes, first
<1>5. behind = [k \in 0..7 |-> IF k \in 1..offset THEN bytes[k] ELSE first[k]]
  BY <1>4 DEF Write
<1>. HIDE DEF behind
<1>6. /\ whole[1] = mode /\ whole[2] = bytes[2]
      /\ ~mode_is_sae_standard(mode) => whole[3] = bytes[3]
  BY <1>4, <1>5 DEF Pad
<1>. HIDE DEF whole, offset
<1>. QED
  BY <1>2, <1>3, <1>4, <1>6, HeaderIsRead

\* A query as the mode and the PID make it, whatever was in the buffer.
QueryData(order, mode, pid) ==
  LET bytes == << mode >> \o PidField(order, mode, pid)
  IN  [k \in 0..7 |-> IF k > mode_data_offset(mode) THEN PAD_VALUE
                      ELSE IF k = 0 THEN mode_data_offset(mode) ELSE bytes[k]]

\* Header, PID and padding together overwrite the buffer.
LEMMA QueryIsWhole ==
  ASSUME NEW order, NEW mode, NEW pid, NEW frame,
         make_can_query_noctx(order, mode, pid, frame).err = "YOBD_OK"
  PROVE  make_can_query_noctx(order, mode, pid, frame).frame =
           [can_id |-> QUERY_ADDRESS, can_dlc |-> OBD_II_DLC, data |-> QueryData(order, mode, pid)]
<1>. DEFINE offset == mode_data_offset(mode)
            header == << offset >>
            bytes  == << mode >> \o PidField(order, mode, pid)
            first  == Write(frame.data, 0, header)
            behind == Write(first, 1, bytes)
            whole  == Pad(behind, offset + 1)
<1>1. offset \in 2..3
  BY DEF mode_data_offset
<1>2. Len(bytes) = offset
  <2>. DEFINE high == ToByte(256 * ((pid \div 256) % 256))
              low  == ToByte(pid)
              none == << >>
  <2>1. PidField(order, mode, pid) =
          IF mode_is_sae_standard(mode) THEN << low >>
          ELSE IF order THEN << high, low >> ELSE << low, high >>
    BY DEF PidField
  <2>. HIDE DEF high, low
  <2>2. Len(<< mode >> \o << low >>) = 2
    BY InFront
  <2>3. Len(<< mode >> \o << high, low >>) = 3
    BY InFront
  <2>4. Len(<< mode >> \o << low, high >>) = 3
    BY InFront
  <2>. QED
    BY <2>1, <2>2, <2>3, <2>4 DEF mode_data_offset
<1>3. Len(header) = 1 /\ header[1] = offset
  OBVIOUS
<1>4. make_can_query_noctx(order, mode, pid, frame).frame =
        [can_id |-> QUERY_ADDRESS, can_dlc |-> OBD_II_DLC, data |-> whole]
  <2>1. ~PidTooLarge(mode, pid)
    BY DEF make_can_query_noctx
  <2>. QED
    BY <2>1, Zenon DEF make_can_query_noctx
<1>. HIDE DEF offset, header, bytes
<1>5. first[0] = offset
  BY <1>3 DEF Write
<1>6. behind = [k \in 0..7 |-> IF k \in 1..offset THEN bytes[k] ELSE first[k]]
  BY <1>1, <1>2 DEF Write
<1>7. whole = [k \in 0..7 |-> IF k >= offset + 1 THEN PAD_VALUE ELSE behind[k]]
  BY DEF Pad
<1>. HIDE DEF first, behind, whole
<1>8. whole = QueryData(order, mode, pid)
  <2>. DEFINE new(k) == IF k > offset THEN PAD_VALUE ELSE IF k = 0 THEN offset ELSE bytes[k]
  <2>1. QueryData(order, mode, pid) = [k \in 0..7 |-> new(k)]
    BY Zenon DEF QueryData, offset, bytes
  <2>2. ASSUME NEW k \in 0..7 PROVE whole[k] = new(k)
    <3>1. whole[k] = IF k >= offset + 1 THEN PAD_VALUE ELSE behind[k]
      BY <1>7
    <3>2. behind[k] = IF k \in 1..offset THEN bytes[k] ELSE first[k]
      BY <1>6
    <3>. QED
      BY <1>1, <1>5, <3>1, <3>2
  <2>. HIDE DEF new
  <2>. QED
    BY <1>7, <2>1, <2>2, Zenon
<1>. QED
  BY <1>4, <1>8

\* Whether a query can be made does not depend on the buffer.
LEMMA QueryErrorIsOfTheCall ==
  ASSUME NEW order, NEW mode, NEW pid, NEW frame, NEW other
  PROVE  make_can_query_noctx(order, mode, pid, frame).err =
           make_can_query_noctx(order, mode, pid, other).err
BY DEF make_can_query_noctx

LEMMA QueryPaddedBehind ==
  ASSUME NEW order, NEW mode, NEW pid, NEW k \in 0..7, k > QueryData(order, mode, pid)[0]
  PROVE  QueryData(order, mode, pid)[k] = PAD_VALUE
<1>1. QueryData(order, mode, pid)[0] = mode_data_offset(mode)
  BY DEF QueryData, mode_data_offset
<1>. QED
  BY <1>1 DEF QueryData

\* A response as the reader looks at it: its header, and behind the header
\* what an expression can read of the payload.
ReadAs(data, order, mode, pid, payload) ==
  /\ data[0] = mode_data_offset(mode) + Len(payload)
  /\ data[1] = ToByte(64 + mode)
  /\ data[2] = PidField(order, mode, pid)[1]
  /\ ~mode_is_sae_standard(mode) => data[3] = PidField(order, mode, pid)[2]
  /\ \A k \in 1..4 : data[mode_data_offset(mode) + k] =
       IF k <= Len(payload) THEN payload[k] ELSE PAD_VALUE

LEMMA ResponseBytes ==
  ASSUME NEW order \in BOOLEAN, NEW mode, NEW pid \in Byte, NEW payload \in Seq(Byte),
         Len(payload) >= 1
  PROVE  ReadAs(Response(order, mode, pid, payload), order, mode, pid, payload)
<1>. DEFINE data   == Response(order, mode, pid, payload)
            offset == mode_data_offset(mode)
            len    == Len(payload)
            field  == PidField(order, mode, pid)
            bytes  == field \o payload
            new(k) == IF k >= offset + 1 + len THEN PAD_VALUE
                      ELSE IF k = 0 THEN offset + len
                      ELSE IF k = 1 THEN ToByte(64 + mode)
                      ELSE bytes[k - 1]
<1>1. /\ offset = IF mode_is_sae_standard(mode) THEN 2 ELSE 3
      /\ len \in Nat /\ len >= 1
  BY DEF mode_data_offset
<1>2. field \in Seq(Byte) /\ Len(field) = offset - 1
  <2>1. Len(field) = IF mode_is_sae_standard(mode) THEN 1 ELSE 2
    BY FieldElements
  <2>2. field \in Seq(Byte)
    BY FieldElements
  <2>. QED
    BY <1>1, <2>1, <2>2
<1>3. data = [k \in 0..7 |-> new(k)]
  BY Zenon DEF Response
<1>. HIDE DEF data, offset, len, field
<1>4. /\ \A k \in 1..(offset - 1) : bytes[k] = field[k]
      /\ \A k \in 1..len : bytes[(offset - 1) + k] = payload[k]
  BY <1>2, AppendProps DEF len
<1>. HIDE DEF bytes
<1>5. data[0] = offset + len /\ data[1] = ToByte(64 + mode)
  BY <1>1, <1>3
<1>6. data[2] = field[1] /\ (~mode_is_sae_standard(mode) => data[3] = field[2])
  <2>1. data[2] = bytes[1]
    BY <1>1, <1>3
  <2>2. ~mode_is_sae_standard(mode) => data[3] = bytes[2]
    BY <1>1, <1>3
  <2>3. 1 \in 1..(offset - 1) /\ (~mode_is_sae_standard(mode) => 2 \in 1..(offset - 1))
    BY <1>1
  <2>. QED
    BY <1>4, <2>1, <2>2, <2>3
<1>7. ASSUME NEW k \in 1..4
      PROVE  data[offset + k] = IF k <= len THEN payload[k] ELSE PAD_VALUE
  <2>1. offset + k \in 0..7 /\ offset + k >= 2
    BY <1>1
  <2>2. data[offset + k] = new(offset + k)
    BY <1>3, <2>1
  <2>3. CASE k <= len
    <3>1. data[offset + k] = bytes[offset + k - 1]
      BY <1>1, <2>1, <2>2, <2>3
    <3>2. k \in 1..len /\ (offset - 1) + k = offset + k - 1
      BY <1>1, <2>3
    <3>. QED
      BY <1>4, <2>3, <3>1, <3>2
  <2>4. CASE k > len
    BY <1>1, <2>1, <2>2, <2>4
  <2>. QED
    BY <1>1, <2>3, <2>4
<1>. QED
  BY <1>5, <1>6, <1>7, Zenon DEF ReadAs, data, offset, len, field

\* A response is refused for its mode, or read as the mode and the PID that
\* it was made for.
LEMMA ResponseIsRead ==
  ASSUME NEW order \in BOOLEAN, NEW mode \in Modes, NEW pid \in Byte,
         NEW payload \in Seq(Byte), Len(payload) >= 1, NEW frame,
         frame = [can_id |-> RESPONSE_BASE, can_dlc |-> OBD_II_DLC,
                  data |-> Response(order, mode, pid, payload)]
  PROVE  /\ is_response(frame) /\ ~is_query(frame) /\ frame.can_dlc = 8
         /\ mode \in 1..191 =>
              parse_mode_pid(order, frame) =
                [err |-> "YOBD_OK", mode |-> mode, pid |-> pid,
                 data_start |-> mode_data_offset(mode) + 1]
         /\ mode \notin 1..191 => parse_mode_pid(order, frame) = Failed("YOBD_INVALID_MODE")
<1>. DEFINE data == Response(order, mode, pid, payload)
<1>1. /\ is_response(frame) /\ ~is_query(frame) /\ frame.can_dlc = 8
      /\ frame.data = data
  BY DEF is_query, is_response, QUERY_ADDRESS, RESPONSE_BASE, RESPONSE_END, OBD_II_DLC
<1>2. /\ data[1] = ToByte(64 + mode)
      /\ data[2] = PidField(order, mode, pid)[1]
      /\ ~mode_is_sae_standard(mode) => data[3] = PidField(order, mode, pid)[2]
  <2>1. ReadAs(data, order, mode, pid, payload)
    BY ResponseBytes
  <2>. QED
    BY <2>1, Zenon DEF ReadAs
<1>. HIDE DEF data
<1>3. mode \in Nat /\ mode < 256
  BY DEF Modes, Byte
<1>4. CASE mode \in 1..191
  <2>1. data[1] = mode + 64
    BY <1>2, <1>4 DEF ToByte
  <2>2. parse_mode_pid(order, frame) =
          [err |-> "YOBD_OK", mode |-> mode, pid |-> pid,
           data_start |-> mode_data_offset(mode) + 1]
    BY <1>1, <1>2, <1>4, <2>1, HeaderIsRead
  <2>. QED
    BY <1>1, <1>4, <2>2
<1>5. CASE mode \notin 1..191
  <2>1. data[1] < 65
    <3>1. mode = 0 \/ (mode >= 192 /\ mode < 256)
      BY <1>3, <1>5
    <3>2. (64 + mode) % 256 < 65
      BY <1>3, <3>1
    <3>. QED
      BY <1>2, <3>2 DEF ToByte
  <2>2. parse_mode_pid(order, frame) = Failed("YOBD_INVALID_MODE")
    BY <1>1, <2>1 DEF parse_mode_pid
  <2>. QED
    BY <1>1, <1>5, <2>2
<1>. QED
  BY <1>4, <1>5

\* Shifting and adding is weighing and adding.
IsShifted(a, b, c, d) ==
  /\ 256 * (256 * (256 * a + b) + c) + d = a * 16777216 + b * 65536 + c * 256 + d
  /\ 256 * (256 * (256 * a + b) + c) + d = d + c * 256 + b * 65536 + a * 16777216

LEMMA Shifted ==
  ASSUME NEW a \in Nat, NEW b \in Nat, NEW c \in Nat, NEW d \in Nat
  PROVE  IsShifted(a, b, c, d)
BY DEF IsShifted

\* A passed-through number is the number that its bytes are, by the schema
\* alone; what a formula reads is the payload and padding.
LEMMA ValueMeans ==
  ASSUME NEW payload \in Seq(Byte), NEW desc, desc.can_bytes = Len(payload),
         Len(payload) \in 1..4, NEW order \in BOOLEAN,
         desc.expr.type \in {"EXPR_NOP", "EXPR_STACK"}, ~Stops(desc, payload),
         desc.can_bytes = 3 /\ desc.expr.type = "EXPR_NOP" => order
  PROVE  eval_expr(order, desc, Padded(payload)).val = Meaning(order, desc, payload)
<1>. DEFINE len == Len(payload)
            b   == Padded(payload)
<1>1. b = [n \in 1..4 |-> IF n <= len THEN payload[n] ELSE PAD_VALUE]
  <2>1. \A n \in 1..4 : n \in DOMAIN payload <=> n <= len
    OBVIOUS
  <2>. QED
    BY <2>1 DEF Padded
<1>2. \A n \in 1..len : payload[n] \in Nat
  <2>1. \A n \in 1..len : payload[n] \in Byte
    OBVIOUS
  <2>2. Byte \subseteq Nat
    BY DEF Byte
  <2>. QED
    BY <2>1, <2>2
<1>3. desc.expr.type = "EXPR_NOP" => nop_eval(order, len, b) = Weighed(order, payload)
  <2>. SUFFICES ASSUME desc.expr.type = "EXPR_NOP"
                PROVE  nop_eval(order, len, b) = Weighed(order, payload)
    OBVIOUS
  <2>. DEFINE place(n) == IF order THEN len + 1 - n ELSE n
              part(n)  == IF n <= len THEN payload[n] * Power[place(n)] ELSE 0
  <2>0. Weighed(order, payload) = part(1) + part(2) + part(3) + part(4)
    BY Zenon DEF Weighed
  <2>1. Power[1] = 1 /\ Power[2] = 256 /\ Power[3] = 65536 /\ Power[4] = 16777216
    BY DEF Power
  <2>. HIDE DEF b, part, place
  <2>2. CASE len = 1
    <3>1. b[1] = payload[1] /\ payload[1] \in Nat
      BY <1>1, <1>2, <2>2
    <3>2. nop_eval(order, len, b) = payload[1]
      BY <2>2, <3>1 DEF nop_eval
    <3>3. part(1) = payload[1] /\ part(2) = 0 /\ part(3) = 0 /\ part(4) = 0
      BY <2>1, <2>2, <3>1 DEF part, place
    <3>. QED
      BY <2>0, <3>1, <3>2, <3>3
  <2>3. CASE len = 2
    <3>1. /\ b[1] = payload[1] /\ b[2] = payload[2]
          /\ payload[1] \in Nat /\ payload[2] \in Nat
      BY <1>1, <1>2, <2>3
    <3>2. nop_eval(order, len, b) = IF order THEN 256 * payload[1] + payload[2]
                                                       ELSE 256 * payload[2] + payload[1]
      BY <2>3, <3>1 DEF nop_eval, be16
    <3>3. /\ part(1) = IF order THEN payload[1] * 256 ELSE payload[1]
          /\ part(2) = IF order THEN payload[2] ELSE payload[2] * 256
          /\ part(3) = 0 /\ part(4) = 0
      BY <2>1, <2>3, <3>1 DEF part, place
    <3>. QED
      BY <2>0, <3>1, <3>2, <3>3
  <2>4. CASE len = 3
    <3>1. /\ b[1] = payload[1] /\ b[2] = payload[2] /\ b[3] = payload[3]
          /\ payload[1] \in Nat /\ payload[2] \in Nat /\ payload[3] \in Nat
      BY <1>1, <1>2, <2>4
    <3>2. nop_eval(order, len, b) = 256 * (256 * payload[1] + payload[2]) + payload[3]
      BY <2>4, <3>1 DEF nop_eval, be16, be24
    <3>3. /\ part(1) = payload[1] * 65536 /\ part(2) = payload[2] * 256
          /\ part(3) = payload[3] /\ part(4) = 0
      BY <2>1, <2>4, <3>1 DEF part, place
    <3>4. Weighed(order, payload) = payload[1] * 65536 + payload[2] * 256 + payload[3]
      BY <2>0, <3>1, <3>3, SMT
    <3>5. 256 * (256 * payload[1] + payload[2]) + payload[3] =
            payload[1] * 65536 + payload[2] * 256 + payload[3]
      BY ONLY <3>1, SMT
    <3>. QED
      BY <3>2, <3>4, <3>5
  <2>5. CASE len = 4
    <3>1. /\ b[1] = payload[1] /\ b[2] = payload[2] /\ b[3] = payload[3] /\ b[4] = payload[4]
          /\ payload[1] \in Nat /\ payload[2] \in Nat /\ payload[3] \in Nat /\ payload[4] \in Nat
      BY <1>1, <1>2, <2>5
    <3>2. nop_eval(order, len, b) =
            IF order
              THEN 256 * (256 * (256 * payload[1] + payload[2]) + payload[3]) + payload[4]
              ELSE 256 * (256 * (256 * payload[4] + payload[3]) + payload[2]) + payload[1]
      BY <2>5, <3>1 DEF nop_eval, be16, be24, be32
    <3>3. CASE order
      <4>1. /\ part(1) = payload[1] * 16777216 /\ part(2) = payload[2] * 65536
            /\ part(3) = payload[3] * 256 /\ part(4) = payload[4]
        BY <2>1, <2>5, <3>1, <3>3 DEF part, place
      <4>2. Weighed(order, payload) = payload[1] * 16777216 + payload[2] * 65536
                                + payload[3] * 256 + payload[4]
        BY <2>0, <4>1, SMT
      <4>3. Weighed(order, payload) =
              256 * (256 * (256 * payload[1] + payload[2]) + payload[3]) + payload[4]
        <5>1. IsShifted(payload[1], payload[2], payload[3], payload[4])
          BY <3>1, Shifted
        <5>. QED
          BY <4>2, <5>1 DEF IsShifted
      <4>. QED
        BY <3>2, <3>3, <4>3
    <3>4. CASE ~order
      <4>1. /\ part(1) = payload[1] /\ part(2) = payload[2] * 256
            /\ part(3) = payload[3] * 65536 /\ part(4) = payload[4] * 16777216
        BY <2>1, <2>5, <3>1, <3>4 DEF part, place
      <4>2. Weighed(order, payload) = payload[1] + payload[2] * 256
                                + payload[3] * 65536 + payload[4] * 16777216
        BY <2>0, <4>1, SMT
      <4>3. 256 * (256 * (256 * payload[4] + payload[3]) + payload[2]) + payload[1] =
              payload[1] + payload[2] * 256 + payload[3] * 65536 + payload[4] * 16777216
        <5>1. IsShifted(payload[4], payload[3], payload[2], payload[1])
          BY <3>1, Shifted
        <5>. QED
          BY <5>1 DEF IsShifted
      <4>. QED
        BY <3>2, <3>4, <4>2, <4>3, SMT
    <3>. QED
      BY <3>3, <3>4
  <2>. QED
    BY <2>2, <2>3, <2>4, <2>5
<1>. HIDE DEF b
<1>. QED
  <2>1. CASE desc.expr.type = "EXPR_STACK"
    BY <2>1 DEF eval_expr, stack_eval, Value, Stops, Meaning, b
  <2>2. CASE desc.expr.type = "EXPR_NOP" /\ ~(desc.can_bytes = 4 /\ desc.pid_type = "float")
    BY <1>3, <2>2 DEF eval_expr, Value, Meaning, b
  <2>3. CASE desc.expr.type = "EXPR_NOP" /\ desc.can_bytes = 4 /\ desc.pid_type = "float"
    BY <1>3, <2>3 DEF eval_expr, Value, Meaning, b
  <2>. QED
    BY <2>1, <2>2, <2>3

\* How the evaluation of an answer of the right length ends.
Ending(desc, payload) ==
  IF ~Stops(desc, payload) THEN "YOBD_OK"
  ELSE IF desc.expr.data = NoProgram THEN "undefined" ELSE "xassert"

LEMMA EvaluationEndsSo ==
  ASSUME NEW order, NEW desc, NEW payload, desc.expr.type \in {"EXPR_NOP", "EXPR_STACK"}
  PROVE  eval_expr(order, desc, Padded(payload)).err = Ending(desc, payload)
<1>1. CASE desc.expr.type = "EXPR_STACK"
  BY <1>1 DEF eval_expr, stack_eval, Value, Failed, Stops, Ending
<1>2. CASE desc.expr.type = "EXPR_NOP"
  <2>1. CASE desc.can_bytes = 4 /\ desc.pid_type = "float"
    BY <1>2, <2>1 DEF eval_expr, Value, Stops, Ending
  <2>2. CASE ~(desc.can_bytes = 4 /\ desc.pid_type = "float")
    BY <1>2, <2>2 DEF eval_expr, Value, Stops, Ending
  <2>. QED
    BY <2>1, <2>2
<1>. QED
  BY <1>1, <1>2

\* What the reader makes of an answer by its map: it is evaluated when the
\* mode is answerable and the length is the map's, and then, if the evaluation
\* has an end, it means what the payload means; if not, it is refused for its
\* mode or its length.
IsReadAs(read, head, order, mode, pid, payload, desc) ==
  /\ mode \notin 1..191 => read.err = "YOBD_INVALID_MODE"
  /\ mode \in 1..191 =>
       read.err = IF Len(payload) = desc.can_bytes THEN Ending(desc, payload)
                                                   ELSE "YOBD_INVALID_DATA_BYTES"
  /\ read.err = "YOBD_OK" =>
       /\ Len(payload) = desc.can_bytes
       /\ head.mode = mode /\ head.pid = pid
       /\ read.convert = desc.convert
       /\ (desc.can_bytes = 3 /\ desc.expr.type = "EXPR_NOP" => order) =>
            read.val = Meaning(order, desc, payload)

LEMMA AnswerIsRead ==
  ASSUME NEW order \in BOOLEAN, NEW mode \in Modes, NEW pid \in Byte,
         NEW payload \in Seq(Byte), Len(payload) >= 1,
         NEW reader, reader.big_endian = order,
         << mode, pid >> \in DOMAIN reader.modepid_map,
         NEW desc, desc = reader.modepid_map[<< mode, pid >>],
         desc.can_bytes \in Nat, desc.expr.type \in {"EXPR_NOP", "EXPR_STACK"},
         Len(payload) = desc.can_bytes => Len(payload) \in 1..4,
         NEW frame,
         frame = [can_id |-> RESPONSE_BASE, can_dlc |-> OBD_II_DLC,
                  data |-> Response(order, mode, pid, payload)]
  PROVE  IsReadAs(parse_can_response(reader, frame), parse_can_headers_noctx(order, frame),
                  order, mode, pid, payload, desc)
<1>. DEFINE read   == parse_can_response(reader, frame)
            offset == mode_data_offset(mode)
            head   == parse_mode_pid(order, frame)
            key    == get_modepid(head.mode, head.pid)
            map    == reader.modepid_map
            b      == Bytes(frame.data, head.data_start)
<1>1. /\ is_response(frame) /\ ~is_query(frame) /\ frame.can_dlc = 8
      /\ mode \in 1..191 => head = [err |-> "YOBD_OK", mode |-> mode, pid |-> pid,
                                   data_start |-> offset + 1]
      /\ mode \notin 1..191 => head = Failed("YOBD_INVALID_MODE")
  BY ResponseIsRead
<1>2. /\ frame.data[0] = offset + Len(payload)
      /\ \A k \in 1..4 : frame.data[offset + k] =
           IF k <= Len(payload) THEN payload[k] ELSE PAD_VALUE
  <2>. DEFINE data == Response(order, mode, pid, payload)
  <2>1. frame.data = data
    OBVIOUS
  <2>2. /\ data[0] = offset + Len(payload)
        /\ \A k \in 1..4 : data[offset + k] =
             IF k <= Len(payload) THEN payload[k] ELSE PAD_VALUE
    <3>1. ReadAs(data, order, mode, pid, payload)
      BY ResponseBytes
    <3>. QED
      BY <3>1, Zenon DEF ReadAs
  <2>. HIDE DEF data, offset
  <2>. QED
    BY ONLY <2>1, <2>2, Zenon
<1>3. offset \in Nat /\ Len(payload) \in Nat
  BY DEF mode_data_offset
<1>4. read = IF head.err # "YOBD_OK" THEN head
             ELSE IF key \notin DOMAIN map THEN Failed("YOBD_UNKNOWN_MODE_PID")
             ELSE IF frame.data[0] # mode_data_offset(head.mode) + map[key].can_bytes
               THEN Failed("YOBD_INVALID_DATA_BYTES")
             ELSE Converted(eval_expr(order, map[key], b), map[key].convert)
  BY <1>1 DEF parse_can_response
<1>. DEFINE header == parse_can_headers_noctx(order, frame)
<1>. HIDE DEF read
<1>5. ASSUME mode \notin 1..191
      PROVE  IsReadAs(read, header, order, mode, pid, payload, desc)
  <2>1. head.err = "YOBD_INVALID_MODE"
    BY <1>1, <1>5 DEF Failed
  <2>. HIDE DEF head
  <2>2. read = head
    BY <1>4, <2>1
  <2>3. read.err = "YOBD_INVALID_MODE"
    BY <2>1, <2>2
  <2>. QED
    BY <1>5, <2>3 DEF IsReadAs
<1>6. ASSUME mode \in 1..191
      PROVE  IsReadAs(read, header, order, mode, pid, payload, desc)
  <2>1. /\ head.err = "YOBD_OK" /\ head.mode = mode /\ head.pid = pid
        /\ head.data_start = offset + 1
    BY <1>1, <1>6
  <2>2. key = << mode, pid >>
    <3>1. pid \in 0..(HALF - 1)
      <4>1. HALF \in Nat /\ 255 < HALF
        BY DEF HALF
      <4>2. pid \in 0..255
        BY DEF Byte
      <4>. QED
        BY ONLY <4>1, <4>2
    <3>. QED
      BY <2>1, <3>1, KeyIsPair
  <2>3. header = head
    BY <1>1 DEF parse_can_headers_noctx
  <2>. HIDE DEF head, header, key, b
  <2>4. read = IF frame.data[0] # offset + desc.can_bytes
                 THEN Failed("YOBD_INVALID_DATA_BYTES")
                 ELSE Converted(eval_expr(order, desc, b), desc.convert)
    BY <1>4, <2>1, <2>2
  <2>5. frame.data[0] = offset + desc.can_bytes <=> Len(payload) = desc.can_bytes
    BY <1>2, <1>3
  <2>6. CASE Len(payload) # desc.can_bytes
    <3>1. read.err = "YOBD_INVALID_DATA_BYTES"
      BY <2>4, <2>5, <2>6 DEF Failed
    <3>. QED
      BY <1>6, <2>6, <3>1 DEF IsReadAs
  <2>7. CASE Len(payload) = desc.can_bytes
    <3>1. read = Converted(eval_expr(order, desc, b), desc.convert)
      BY <2>4, <2>5, <2>7
    <3>2. b = Padded(payload)
      <4>1. b = [k \in 1..4 |-> frame.data[offset + 1 + k - 1]]
        BY <2>1 DEF b, Bytes
      <4>2. \A k \in 1..4 : offset + 1 + k - 1 = offset + k
        BY <1>3
      <4>3. b = [k \in 1..4 |-> IF k <= Len(payload) THEN payload[k] ELSE PAD_VALUE]
        BY <1>2, <4>1, <4>2
      <4>4. \A k \in 1..4 : k \in DOMAIN payload <=> k <= Len(payload)
        OBVIOUS
      <4>. QED
        BY <4>3, <4>4 DEF Padded
    <3>. DEFINE value == eval_expr(order, desc, b)
    <3>3. value.err = Ending(desc, payload)
      BY <3>2, EvaluationEndsSo
    <3>4. Ending(desc, payload) = "YOBD_OK" => ~Stops(desc, payload)
      BY DEF Ending
    <3>5. Ending(desc, payload) = "YOBD_OK" =>
            ((desc.can_bytes = 3 /\ desc.expr.type = "EXPR_NOP" => order) =>
               value.val = Meaning(order, desc, payload))
      BY <2>7, <3>2, <3>4, ValueMeans
    <3>. HIDE DEF value
    <3>6. read = IF value.err = "YOBD_OK"
                   THEN [err |-> "YOBD_OK", convert |-> desc.convert, val |-> value.val]
                   ELSE value
      BY <3>1, Zenon DEF Converted, value
    <3>7. /\ read.err = value.err
          /\ value.err = "YOBD_OK" => read.convert = desc.convert /\ read.val = value.val
      BY <3>6
    <3>. QED
      BY <1>6, <2>1, <2>3, <2>7, <3>3, <3>5, <3>7 DEF IsReadAs
  <2>. QED
    BY <2>6, <2>7
<1>7. IsReadAs(read, header, order, mode, pid, payload, desc)
  BY <1>5, <1>6
<1>. QED
  BY <1>7 DEF read
=============================================================================
