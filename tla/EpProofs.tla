------------------------------ MODULE EpProofs ------------------------------
(***************************************************************************)
(* Emulation prevention, for payloads of any bytes and any length: what is *)
(* written is read back, and it holds no start code.                       *)
(***************************************************************************)
EXTENDS EpLoop, BytesLemmas

\* The last i-th byte of s is a zero.
ZeroAt(s, i) == Len(s) >= i /\ s[Len(s) - i + 1] = 0

\* The writer's count tells how the wire ends.
WireInv ==
    /\ wzeros \in 0..2
    /\ ZeroAt(wire, 1) <=> wzeros >= 1
    /\ ZeroAt(wire, 1) /\ ZeroAt(wire, 2) <=> wzeros = 2
    /\ NoStartCode

\* RoundTrip on its own says nothing while the reader is behind. It is one byte
\* behind, or two when the first of them is an escape, and reading them brings
\* its count to the writer's.
OneBehind ==
    LET byte == wire[Len(wire)]
    IN  /\ at = Len(wire) - 1
        /\ rbsp = Append(back, byte)
        /\ ~(rzeros >= 2 /\ byte = 3)
        /\ wzeros = Zeros(rzeros, byte)

TwoBehind ==
    /\ at = Len(wire) - 2
    /\ wire[Len(wire) - 1] = 3 /\ rzeros >= 2
    /\ rbsp = Append(back, wire[Len(wire)])
    /\ wzeros = Zeros(0, wire[Len(wire)])

ReadInv ==
    \/ CaughtUp /\ back = rbsp /\ rzeros = wzeros
    \/ OneBehind
    \/ TwoBehind

EpInv == TypeOK /\ WireInv /\ ReadInv

LEMMA EpInit == Init => EpInv
<1>. SUFFICES ASSUME Init PROVE EpInv
  OBVIOUS
<1>1. << >> \in Seq(Byte) /\ Len(<< >>) = 0
  BY EmptySeq
<1>2. TypeOK
  BY <1>1 DEF Init, TypeOK
<1>3. WireInv
  BY <1>1 DEF Init, WireInv, ZeroAt, NoStartCode
<1>4. ReadInv
  BY <1>1 DEF Init, ReadInv, CaughtUp
<1>. QED  BY <1>2, <1>3, <1>4 DEF EpInv

\* A byte put behind a wire that holds no start code leaves none, when it is
\* more than 2 or the wire does not end in two zeroes.
LEMMA AppendKeepsClear ==
    ASSUME NEW s \in Seq(Byte), NEW byte \in Byte,
           \A i \in 1..(Len(s) - 2) : s[i] = 0 /\ s[i + 1] = 0 => s[i + 2] > 2,
           byte > 2 \/ ~(ZeroAt(s, 1) /\ ZeroAt(s, 2)),
           NEW t, t = Append(s, byte)
    PROVE  /\ t \in Seq(Byte) /\ Len(t) = Len(s) + 1 /\ t[Len(t)] = byte
           /\ \A i \in 1..(Len(t) - 2) : t[i] = 0 /\ t[i + 1] = 0 => t[i + 2] > 2
           /\ ZeroAt(t, 1) <=> byte = 0
           /\ ZeroAt(t, 1) /\ ZeroAt(t, 2) <=> byte = 0 /\ ZeroAt(s, 1)
<1>1. /\ t \in Seq(Byte) /\ Len(t) = Len(s) + 1 /\ t[Len(s) + 1] = byte
      /\ \A i \in 1..Len(s) : t[i] = s[i] /\ Len(s) \in Nat
  BY AppendProperties, LenProperties
<1>2. Len(s) \in Nat
  BY LenProperties
<1>3. ASSUME NEW i \in 1..(Len(t) - 2), t[i] = 0, t[i + 1] = 0
      PROVE  t[i + 2] > 2
  <2>1. CASE i + 2 <= Len(s)
    <3>1. i \in 1..(Len(s) - 2) /\ i \in 1..Len(s) /\ i + 1 \in 1..Len(s) /\ i + 2 \in 1..Len(s)
      BY <1>2, <2>1
    <3>2. t[i] = s[i] /\ t[i + 1] = s[i + 1] /\ t[i + 2] = s[i + 2]
      BY <1>1, <3>1
    <3>. QED  BY <1>3, <3>1, <3>2
  <2>2. CASE i + 2 = Len(s) + 1
    <3>1. i = Len(s) - 1 /\ i \in 1..Len(s) /\ i + 1 \in 1..Len(s) /\ i + 1 = Len(s)
      BY <1>2, <2>2
    <3>2. s[Len(s) - 1] = 0 /\ s[Len(s)] = 0
      BY <1>1, <1>3, <3>1
    <3>3. ZeroAt(s, 1) /\ ZeroAt(s, 2)
      BY <1>2, <3>1, <3>2 DEF ZeroAt
    <3>. QED  BY <1>1, <2>2, <3>3
  <2>. QED  BY <1>1, <1>2, <2>1, <2>2
<1>4. ZeroAt(t, 1) <=> byte = 0
  BY <1>1, <1>2 DEF ZeroAt
<1>5. ZeroAt(t, 2) <=> ZeroAt(s, 1)
  <2>1. CASE Len(s) = 0
    BY <1>1, <2>1 DEF ZeroAt
  <2>2. CASE Len(s) > 0
    <3>1. Len(s) \in 1..Len(s) /\ Len(t) - 2 + 1 = Len(s) /\ Len(s) - 1 + 1 = Len(s)
      BY <1>1, <1>2, <2>2
    <3>2. t[Len(s)] = s[Len(s)]
      BY <1>1, <3>1
    <3>. QED  BY <1>1, <1>2, <3>1, <3>2, <2>2 DEF ZeroAt
  <2>. QED  BY <1>2, <2>1, <2>2
<1>. QED  BY <1>1, <1>2, <1>3, <1>4, <1>5

LEMMA PlainKeeps ==
    ASSUME EpInv, NEW byte \in Byte, Plain(byte)
    PROVE  EpInv'
<1>1. /\ rbsp \in Seq(Byte) /\ wire \in Seq(Byte) /\ back \in Seq(Byte)
      /\ wzeros \in 0..2 /\ rzeros \in Nat /\ Len(wire) \in Nat /\ at = Len(wire)
  BY LenProperties DEF EpInv, TypeOK, WireInv, Plain, Write, CaughtUp
<1>2. back = rbsp /\ rzeros = wzeros
  BY <1>1 DEF EpInv, ReadInv, OneBehind, TwoBehind, Plain, Write, CaughtUp
<1>3. byte > 2 \/ ~(ZeroAt(wire, 1) /\ ZeroAt(wire, 2))
  BY <1>1 DEF Plain, EpInv, WireInv, Byte
<1>4. /\ wire' \in Seq(Byte) /\ Len(wire') = Len(wire) + 1 /\ wire'[Len(wire')] = byte
      /\ NoStartCode'
      /\ ZeroAt(wire', 1) <=> byte = 0
      /\ ZeroAt(wire', 1) /\ ZeroAt(wire', 2) <=> byte = 0 /\ ZeroAt(wire, 1)
  <2>1. wire' = Append(wire, byte)
    BY DEF Plain
  <2>2. \A i \in 1..(Len(wire) - 2) : wire[i] = 0 /\ wire[i + 1] = 0 => wire[i + 2] > 2
    BY DEF EpInv, WireInv, NoStartCode
  <2>. QED  BY <1>1, <1>3, <2>1, <2>2, AppendKeepsClear DEF NoStartCode
<1>5. wzeros' = Zeros(wzeros, byte) /\ ~(wzeros >= 2 /\ byte <= 3)
  BY DEF Plain
<1>6. wzeros' \in 0..2
  BY <1>1, <1>5 DEF Zeros
<1>7. TypeOK'
  <2>1. rbsp' \in Seq(Byte)
    BY <1>1 DEF Plain, Write
  <2>. QED  BY <1>1, <1>4, <1>6, <2>1 DEF Plain, Write, TypeOK
<1>8. WireInv'
  BY <1>1, <1>4, <1>5, <1>6 DEF WireInv, EpInv, Zeros
<1>9. OneBehind'
  <2>1. at' = Len(wire') - 1 /\ back' = back /\ rzeros' = rzeros /\ rbsp' = Append(rbsp, byte)
    BY <1>1, <1>4 DEF Plain, Write
  <2>. QED  BY <2>1, <1>2, <1>4, <1>5 DEF OneBehind, Zeros
<1>. QED  BY <1>7, <1>8, <1>9 DEF EpInv, ReadInv

LEMMA EscapedKeeps ==
    ASSUME EpInv, NEW byte \in Byte, Escaped(byte)
    PROVE  EpInv'
<1>. DEFINE mid == Append(wire, 3)
<1>1. /\ rbsp \in Seq(Byte) /\ wire \in Seq(Byte) /\ back \in Seq(Byte)
      /\ wzeros = 2 /\ rzeros \in Nat /\ Len(wire) \in Nat /\ at = Len(wire)
  BY LenProperties DEF EpInv, TypeOK, WireInv, Escaped, Write, CaughtUp
<1>2. back = rbsp /\ rzeros = wzeros
  BY <1>1 DEF EpInv, ReadInv, OneBehind, TwoBehind, Escaped, Write, CaughtUp
<1>3. /\ mid \in Seq(Byte) /\ Len(mid) = Len(wire) + 1 /\ mid[Len(mid)] = 3
      /\ \A i \in 1..(Len(mid) - 2) : mid[i] = 0 /\ mid[i + 1] = 0 => mid[i + 2] > 2
      /\ ~ZeroAt(mid, 1)
  <2>1. 3 \in Byte
    BY DEF Byte
  <2>2. \A i \in 1..(Len(wire) - 2) : wire[i] = 0 /\ wire[i + 1] = 0 => wire[i + 2] > 2
    BY DEF EpInv, WireInv, NoStartCode
  <2>3. mid = Append(wire, 3) /\ 3 > 2
    OBVIOUS
  <2>. DEFINE three == 3
  <2>4. three \in Byte /\ three > 2 /\ mid = Append(wire, three)
    BY <2>1
  <2>. HIDE DEF mid, three
  <2>5. /\ mid \in Seq(Byte) /\ Len(mid) = Len(wire) + 1 /\ mid[Len(mid)] = three
        /\ \A i \in 1..(Len(mid) - 2) : mid[i] = 0 /\ mid[i + 1] = 0 => mid[i + 2] > 2
        /\ ZeroAt(mid, 1) <=> three = 0
    BY <1>1, <2>2, <2>4, AppendKeepsClear, Zenon
  <2>. QED  BY <2>5 DEF three
<1>4. /\ wire' = Append(mid, byte) /\ wzeros' = Zeros(0, byte) /\ rbsp' = Append(rbsp, byte)
      /\ at' = at /\ back' = back /\ rzeros' = rzeros
  BY DEF Escaped, Write
<1>. HIDE DEF mid
<1>5. /\ wire' \in Seq(Byte) /\ Len(wire') = Len(mid) + 1 /\ wire'[Len(wire')] = byte
      /\ \A i \in 1..Len(mid) : wire'[i] = mid[i]
      /\ NoStartCode'
      /\ ZeroAt(wire', 1) <=> byte = 0
      /\ ZeroAt(wire', 1) /\ ZeroAt(wire', 2) <=> byte = 0 /\ ZeroAt(mid, 1)
  <2>. DEFINE w == wire'
  <2>1. w = Append(mid, byte)
    BY <1>4
  <2>. HIDE DEF w
  <2>2. /\ mid \in Seq(Byte) /\ byte \in Byte
        /\ byte > 2 \/ ~(ZeroAt(mid, 1) /\ ZeroAt(mid, 2))
    BY <1>3
  <2>3. \A i \in 1..(Len(mid) - 2) : mid[i] = 0 /\ mid[i + 1] = 0 => mid[i + 2] > 2
    BY <1>3
  <2>4. \A i \in 1..Len(mid) : w[i] = mid[i]
    BY <2>1, <2>2, AppendProperties
  <2>5. /\ w \in Seq(Byte) /\ Len(w) = Len(mid) + 1 /\ w[Len(w)] = byte
        /\ \A i \in 1..(Len(w) - 2) : w[i] = 0 /\ w[i + 1] = 0 => w[i + 2] > 2
        /\ ZeroAt(w, 1) <=> byte = 0
        /\ ZeroAt(w, 1) /\ ZeroAt(w, 2) <=> byte = 0 /\ ZeroAt(mid, 1)
    BY <2>1, <2>2, <2>3, AppendKeepsClear, Zenon
  <2>. QED  BY <2>4, <2>5 DEF w, NoStartCode
<1>6. wzeros' \in 0..2
  BY <1>4 DEF Zeros
<1>7. TypeOK'
  BY <1>1, <1>3, <1>4, <1>5, <1>6 DEF TypeOK
<1>8. WireInv'
  BY <1>3, <1>4, <1>5, <1>6 DEF WireInv, Zeros
<1>9. TwoBehind'
  <2>1. wire'[Len(wire') - 1] = 3
    <3>1. Len(wire') - 1 = Len(mid) /\ Len(mid) \in 1..Len(mid)
      BY <1>1, <1>3, <1>5
    <3>. QED  BY <3>1, <1>3, <1>5
  <2>2. at' = Len(wire') - 2
    BY <1>1, <1>3, <1>4, <1>5
  <2>. QED  BY <2>1, <2>2, <1>1, <1>2, <1>4, <1>5 DEF TwoBehind
<1>. QED  BY <1>7, <1>8, <1>9 DEF EpInv, ReadInv

LEMMA ReadKeeps ==
    ASSUME EpInv, Keep \/ Drop
    PROVE  EpInv'
<1>. DEFINE byte == wire[at + 1]
<1>1. /\ rbsp \in Seq(Byte) /\ wire \in Seq(Byte) /\ back \in Seq(Byte)
      /\ wzeros \in 0..2 /\ rzeros \in Nat /\ at \in Nat /\ Len(wire) \in Nat
      /\ at < Len(wire)
  BY LenProperties DEF EpInv, TypeOK, WireInv, Keep, Drop, CaughtUp
<1>2. byte \in Byte
  <2>1. at + 1 \in 1..Len(wire)
    BY <1>1
  <2>. QED  BY <1>1, <2>1, ElementOfSeq
<1>3. /\ at' = at + 1 /\ rbsp' = rbsp /\ wzeros' = wzeros /\ wire' = wire
      /\ \/ ~(rzeros >= 2 /\ byte = 3) /\ back' = Append(back, byte) /\ rzeros' = Zeros(rzeros, byte)
         \/ (rzeros >= 2 /\ byte = 3) /\ back' = back /\ rzeros' = 0
  BY DEF Keep, Drop
<1>4. WireInv'
  BY <1>3 DEF EpInv, WireInv, ZeroAt, NoStartCode
<1>. HIDE DEF byte
<1>5. back' \in Seq(Byte) /\ rzeros' \in Nat
  <2>1. Append(back, byte) \in Seq(Byte)
    BY <1>1, <1>2, AppendProperties
  <2>2. Zeros(rzeros, byte) \in Nat
    BY <1>1 DEF Zeros
  <2>3. CASE back' = Append(back, byte) /\ rzeros' = Zeros(rzeros, byte)
    BY <2>1, <2>2, <2>3
  <2>4. CASE back' = back /\ rzeros' = 0
    BY <1>1, <2>4
  <2>. QED  BY <1>3, <2>3, <2>4
<1>6. TypeOK'
  BY <1>1, <1>3, <1>5 DEF EpInv, TypeOK
<1>7. CASE OneBehind
  <2>1. byte = wire[Len(wire)] /\ at + 1 = Len(wire)
    BY <1>1, <1>7 DEF OneBehind, byte
  <2>2. CaughtUp' /\ back' = rbsp' /\ rzeros' = wzeros'
    BY <1>3, <1>7, <2>1 DEF OneBehind, CaughtUp
  <2>. QED  BY <1>4, <1>6, <2>2 DEF EpInv, ReadInv
<1>8. CASE TwoBehind
  <2>1. byte = 3 /\ rzeros >= 2
    <3>1. at + 1 = Len(wire) - 1
      BY <1>1, <1>8 DEF TwoBehind
    <3>. QED  BY <3>1, <1>8 DEF TwoBehind, byte
  <2>2. back' = back /\ rzeros' = 0 /\ at' = Len(wire') - 1
    BY <1>1, <1>3, <1>8, <2>1 DEF TwoBehind
  <2>3. OneBehind'
    BY <1>3, <1>8, <2>2 DEF OneBehind, TwoBehind
  <2>. QED  BY <1>4, <1>6, <2>3 DEF EpInv, ReadInv
<1>. QED  BY <1>1, <1>7, <1>8 DEF EpInv, ReadInv, CaughtUp

LEMMA EpStep == EpInv /\ [Next]_vars => EpInv'
<1>. SUFFICES ASSUME EpInv, [Next]_vars PROVE EpInv'
  OBVIOUS
<1>1. CASE UNCHANGED vars
  BY <1>1 DEF vars, EpInv, TypeOK, WireInv, ReadInv, ZeroAt, NoStartCode, OneBehind, TwoBehind,
              CaughtUp
<1>2. ASSUME NEW byte \in Payload, Plain(byte) \/ Escaped(byte)
      PROVE  EpInv'
  <2>1. byte \in Byte
    BY EpLoopAssumption
  <2>. QED  BY <1>2, <2>1, PlainKeeps, EscapedKeeps
<1>3. CASE Keep \/ Drop
  BY <1>3, ReadKeeps
<1>. QED  BY <1>1, <1>2, <1>3 DEF Next

THEOREM EpInvariant == Spec => []EpInv
<1>. QED  BY EpInit, EpStep, PTL DEF Spec

\* What is read back is what was written, whatever bytes it was made of.
THEOREM EpRoundTrip == Spec => []RoundTrip
<1>1. EpInv => RoundTrip
  <2>. SUFFICES ASSUME EpInv, CaughtUp PROVE back = rbsp
    BY DEF RoundTrip
  <2>1. Len(wire) \in Nat /\ at = Len(wire)
    BY LenProperties DEF EpInv, TypeOK, CaughtUp
  <2>. QED  BY <2>1 DEF EpInv, ReadInv, OneBehind, TwoBehind
<1>. QED  BY <1>1, EpInvariant, PTL

\* No payload grows a start code on the wire, however long and however many
\* zeroes run together in it.
THEOREM EpNoStartCode == Spec => []NoStartCode
<1>1. EpInv => NoStartCode
  BY DEF EpInv, WireInv
<1>. QED  BY <1>1, EpInvariant, PTL

-----------------------------------------------------------------------------
\* The wire parts from the payload at the first escape, and that comes of a 00
\* 00 0x in the payload: up to there the two end alike.
LEMMA EscapesStep ==
    ASSUME EpInv, EscapesOnlyWhenNeeded, [Next]_vars
    PROVE  EscapesOnlyWhenNeeded'
<1>1. rbsp \in Seq(Byte) /\ wire \in Seq(Byte) /\ Len(rbsp) \in Nat /\ wzeros \in 0..2
  BY LenProperties DEF EpInv, TypeOK, WireInv
<1>2. ASSUME NEW byte \in Byte, rbsp' = Append(rbsp, byte), Clear(rbsp')
      PROVE  Clear(rbsp) /\ wire = rbsp /\ ~(wzeros >= 2 /\ byte <= 3)
  <2>1. /\ Len(rbsp') = Len(rbsp) + 1 /\ rbsp'[Len(rbsp) + 1] = byte
        /\ \A i \in 1..Len(rbsp) : rbsp'[i] = rbsp[i]
    BY <1>1, <1>2, AppendProperties
  <2>2. \A i \in 1..(Len(rbsp') - 2) : rbsp'[i] = 0 /\ rbsp'[i + 1] = 0 => rbsp'[i + 2] > 3
    BY <1>2 DEF Clear
  <2>3. ASSUME NEW i \in 1..(Len(rbsp) - 2), rbsp[i] = 0 /\ rbsp[i + 1] = 0
        PROVE  rbsp[i + 2] > 3
    <3>1. /\ i \in 1..(Len(rbsp') - 2) /\ i \in 1..Len(rbsp) /\ i + 1 \in 1..Len(rbsp)
          /\ i + 2 \in 1..Len(rbsp)
      BY <1>1, <2>1
    <3>. QED  BY <2>1, <2>2, <2>3, <3>1
  <2>4. Clear(rbsp)
    BY <2>3 DEF Clear
  <2>5. wire = rbsp
    BY <2>4 DEF EscapesOnlyWhenNeeded
  <2>6. ASSUME wzeros >= 2, byte <= 3 PROVE FALSE
    <3>1. ZeroAt(rbsp, 1) /\ ZeroAt(rbsp, 2)
      BY <1>1, <2>5, <2>6 DEF EpInv, WireInv
    <3>. DEFINE i == Len(rbsp) - 1
    <3>2. i \in 1..Len(rbsp) /\ i + 1 \in 1..Len(rbsp) /\ i \in 1..(Len(rbsp') - 2)
          /\ i + 2 = Len(rbsp) + 1 /\ rbsp[i] = 0 /\ rbsp[i + 1] = 0
      <4>1. Len(rbsp) >= 2 /\ rbsp[Len(rbsp) - 2 + 1] = 0 /\ rbsp[Len(rbsp) - 1 + 1] = 0
        BY <3>1 DEF ZeroAt
      <4>2. Len(rbsp) - 2 + 1 = i /\ Len(rbsp) - 1 + 1 = i + 1
        BY <1>1
      <4>. QED  BY <1>1, <2>1, <4>1, <4>2
    <3>. HIDE DEF i
    <3>3. rbsp'[i + 2] > 3 /\ rbsp'[i + 2] = byte
      BY <2>1, <2>2, <3>2
    <3>. QED  BY <2>6, <3>3 DEF Byte
  <2>. QED  BY <2>4, <2>5, <2>6
<1>3. ASSUME NEW byte \in Payload, Plain(byte) \/ Escaped(byte)
      PROVE  EscapesOnlyWhenNeeded'
  <2>1. byte \in Byte /\ rbsp' = Append(rbsp, byte)
    BY <1>3, EpLoopAssumption DEF Plain, Escaped, Write
  <2>2. ASSUME Clear(rbsp') PROVE wire' = rbsp'
    <3>1. wire = rbsp /\ ~(wzeros >= 2 /\ byte <= 3)
      BY <1>2, <2>1, <2>2
    <3>2. wire' = Append(wire, byte)
      BY <1>3, <3>1 DEF Plain, Escaped
    <3>. QED  BY <2>1, <3>1, <3>2
  <2>. QED  BY <2>2 DEF EscapesOnlyWhenNeeded, Clear
<1>4. CASE Keep \/ Drop \/ UNCHANGED vars
  <2>1. rbsp' = rbsp /\ wire' = wire
    BY <1>4 DEF Keep, Drop, vars
  <2>. QED  BY <2>1 DEF EscapesOnlyWhenNeeded, Clear
<1>. QED  BY <1>3, <1>4 DEF Next

\* A payload that cannot grow a start code goes out byte for byte, which is why
\* ep.rs has one way to write and no way to ask for none.
THEOREM EpEscapesOnlyWhenNeeded == Spec => []EscapesOnlyWhenNeeded
<1>1. Init => EscapesOnlyWhenNeeded
  BY DEF Init, EscapesOnlyWhenNeeded
<1>2. EpInv /\ EscapesOnlyWhenNeeded /\ [Next]_vars => EscapesOnlyWhenNeeded'
  BY EscapesStep
<1>. QED  BY <1>1, <1>2, EpInvariant, PTL DEF Spec

-----------------------------------------------------------------------------
\* The loops and the operators of Ep that stand for them. Ep looks at whole byte
\* strings, so what it says of one byte more has to be what a round adds.

\* The writer's count is the run of zeroes the rbsp ends in, less the pairs an
\* escape has followed; the reader's is the run the wire read so far ends in.
ClosedInv ==
    /\ wire = InsertEmulationPrevention(rbsp)
    /\ wzeros = IF ZeroesAtEnd(rbsp) = 0 THEN 0 ELSE IF ZeroesAtEnd(rbsp) % 2 = 1 THEN 1 ELSE 2
    /\ back = RemoveEmulationPrevention(SubSeq(wire, 1, at))
    /\ rzeros = at - ZeroRun(wire, 0, at)

LEMMA ClosedInit == Init => ClosedInv
<1>. SUFFICES ASSUME Init PROVE ClosedInv
  OBVIOUS
<1>1. /\ rbsp = << >> /\ wire = << >> /\ back = << >> /\ at = 0 /\ wzeros = 0 /\ rzeros = 0
      /\ Len(<< >>) = 0
  BY EmptySeq DEF Init
<1>2. InsertEmulationPrevention(<< >>) = << >>
  <2>. DEFINE f == [k \in 1..0 |-> IF NeedsEscape(<< >>, k - 1) THEN <<3, << >>[k]>> ELSE << << >>[k]>>]
  <2>1. InsertEmulationPrevention(<< >>) = FlattenSeq(f)
    BY <1>1 DEF InsertEmulationPrevention
  <2>2. f = << >>
    OBVIOUS
  <2>. HIDE DEF f
  <2>. QED  BY <1>1, <2>1, <2>2 DEF FlattenSeq
<1>3. SubSeq(wire, 1, at) = << >>
  BY <1>1, SubSeqEmpty
<1>4. RemoveEmulationPrevention(<< >>) = << >>
  <2>. DEFINE K == {i \in 0..(0 - 1) : ~IsEscape(<< >>, i)}
  <2>1. K = {}
    OBVIOUS
  <2>2. Ascending({}) = [k \in 1..0 |-> 0] /\ Len(Ascending({})) = 0
    <3>1. Cardinality({}) = 0
      BY FS_EmptySet
    <3>2. 1..0 = {}
      OBVIOUS
    <3>3. Ascending({}) = << >>
      BY <3>1, <3>2 DEF Ascending
    <3>. QED  BY <1>1, <3>2, <3>3
  <2>3. RemoveEmulationPrevention(<< >>) = [k \in 1..Len(Ascending(K)) |-> At(<< >>, Ascending(K)[k])]
    BY <1>1 DEF RemoveEmulationPrevention
  <2>. HIDE DEF K
  <2>. QED  BY <2>1, <2>2, <2>3
<1>5. ZeroRun(<< >>, 0, 0) = 0
  <2>1. ZeroRun(<< >>, 0, 0) \in 0..0
    BY ZeroRunRange
  <2>. QED  BY <2>1
<1>6. ZeroesAtEnd(rbsp) = 0
  BY <1>1, <1>5 DEF ZeroesAtEnd
<1>7. rzeros = at - ZeroRun(wire, 0, at)
  BY <1>1, <1>5
<1>8. back = RemoveEmulationPrevention(SubSeq(wire, 1, at))
  BY <1>1, <1>3, <1>4
<1>9. wire = InsertEmulationPrevention(rbsp)
  BY <1>1, <1>2
<1>. QED  BY <1>1, <1>6, <1>7, <1>8, <1>9 DEF ClosedInv

\* What a round of the writer leaves of the reader's half.
LEMMA WireGrows ==
    ASSUME NEW w \in Seq(Byte), NEW v, NEW k \in 0..Len(w),
           v \in Seq(Byte), Len(w) <= Len(v), \A i \in 1..Len(w) : v[i] = w[i]
    PROVE  SubSeq(v, 1, k) = SubSeq(w, 1, k) /\ ZeroRun(v, 0, k) = ZeroRun(w, 0, k)
<1>1. Len(w) \in Nat /\ Len(v) \in Nat
  BY LenProperties
<1>2. SubSeq(v, 1, k) = SubSeq(w, 1, k)
  <2>1. \A i \in 1..k : v[i] = w[i]
    BY <1>1
  <2>2. SubSeq(v, 1, k) = [i \in 1..k |-> v[i]] /\ SubSeq(w, 1, k) = [i \in 1..k |-> w[i]]
    BY <1>1
  <2>. QED  BY <2>1, <2>2
<1>3. \A i \in 0..(k - 1) : At(w, i) = At(v, i)
  <2>1. \A i \in 0..(k - 1) : i + 1 \in 1..Len(w)
    BY <1>1
  <2>. QED  BY <2>1 DEF At
<1>4. k \in Nat
  BY <1>1
<1>. QED  BY <1>2, <1>3, <1>4, ZeroRunSame


LEMMA ClosedWrite ==
    ASSUME TypeOK, ClosedInv, NEW byte \in Byte, Plain(byte) \/ Escaped(byte)
    PROVE  ClosedInv'
<1>1. /\ rbsp \in Seq(Byte) /\ wire \in Seq(Byte) /\ Len(wire) \in Nat /\ at = Len(wire)
      /\ rbsp' = Append(rbsp, byte) /\ at' = at /\ back' = back /\ rzeros' = rzeros
  BY LenProperties DEF TypeOK, Plain, Escaped, Write, CaughtUp
<1>. DEFINE z == ZeroesAtEnd(rbsp)
            escape == byte <= 3 /\ z >= 2 /\ z % 2 = 0
            more == IF escape THEN <<3, byte>> ELSE <<byte>>
<1>2. z \in Nat /\ ZeroesAtEnd(rbsp') = IF byte = 0 THEN z + 1 ELSE 0
  BY <1>1, ZeroesAppend
<1>3. byte \in 0..255
  BY DEF Byte
<1>4. wzeros = IF z = 0 THEN 0 ELSE IF z % 2 = 1 THEN 1 ELSE 2
  BY DEF ClosedInv
<1>5. InsertEmulationPrevention(rbsp') = wire \o more
  BY <1>1, InsertAppend DEF ClosedInv, ZeroesAtEnd
<1>. HIDE DEF z
<1>6. escape <=> wzeros >= 2 /\ byte <= 3
  BY <1>2, <1>3, <1>4
<1>7. wire' = wire \o more
  <2>1. CASE Plain(byte)
    <3>1. wire' = Append(wire, byte) /\ more = <<byte>>
      BY <1>6, <2>1 DEF Plain
    <3>. QED  BY <1>1, <3>1, AppendIsConcat
  <2>2. CASE Escaped(byte)
    <3>1. wire' = Append(Append(wire, 3), byte) /\ more = <<3, byte>> /\ 3 \in Byte
      BY <1>6, <2>2 DEF Escaped, Byte
    <3>2. Append(Append(wire, 3), byte) = wire \o <<3, byte>>
      BY <1>1, <3>1
    <3>. QED  BY <3>1, <3>2
  <2>. QED  BY <2>1, <2>2
<1>8. wzeros' = IF byte = 0 THEN (IF escape THEN 0 ELSE wzeros) + 1 ELSE 0
  <2>1. CASE Plain(byte)
    BY <1>6, <2>1 DEF Plain, Zeros
  <2>2. CASE Escaped(byte)
    BY <1>6, <2>2 DEF Escaped, Zeros
  <2>. QED  BY <2>1, <2>2
<1>9. wzeros' = IF ZeroesAtEnd(rbsp') = 0 THEN 0 ELSE IF ZeroesAtEnd(rbsp') % 2 = 1 THEN 1 ELSE 2
  <2>. DEFINE y == ZeroesAtEnd(rbsp')
  <2>1. y = IF byte = 0 THEN z + 1 ELSE 0
    BY <1>2
  <2>5. SUFFICES wzeros' = IF y = 0 THEN 0 ELSE IF y % 2 = 1 THEN 1 ELSE 2
    OBVIOUS
  <2>. HIDE DEF y
  <2>2. CASE byte # 0
    BY <1>8, <2>1, <2>2
  <2>3. CASE byte = 0
    <3>1. y = z + 1 /\ y \in Nat /\ y # 0
      BY <1>2, <2>1, <2>3
    <3>2. wzeros' = (IF escape THEN 0 ELSE wzeros) + 1
      BY <1>8, <2>3
    <3>3. escape <=> z >= 2 /\ z % 2 = 0
      BY <2>3
    <3>4. (z % 2 = 0 \/ z % 2 = 1) /\ (z % 2 = 0 <=> y % 2 = 1)
      BY <1>2, <3>1
    <3>5. z < 2 /\ z % 2 = 0 => z = 0
      BY <1>2
    <3>6. z # 0 /\ z % 2 = 0 => wzeros' = 1
      BY <1>2, <3>2, <3>3, <3>5
    <3>7. z = 0 => wzeros' = 1
      BY <1>4, <3>2, <3>3
    <3>8. z % 2 = 1 => wzeros' = 2
      <4>1. 0 % 2 # 1
        OBVIOUS
      <4>. QED  BY <1>4, <3>2, <3>3, <4>1
    <3>9. y % 2 = 1 \/ y % 2 = 0
      BY <3>1
    <3>. QED  BY <3>1, <3>4, <3>6, <3>7, <3>8, <3>9
  <2>. QED  BY <2>2, <2>3
<1>10. /\ SubSeq(wire', 1, at) = SubSeq(wire, 1, at)
       /\ ZeroRun(wire', 0, at) = ZeroRun(wire, 0, at)
  <2>1. more \in Seq(Byte) /\ Len(more) \in Nat
    <3>1. 3 \in Byte
      BY DEF Byte
    <3>2. <<3, byte>> \in Seq(Byte) /\ <<byte>> \in Seq(Byte)
      BY <3>1
    <3>3. more \in Seq(Byte)
      BY <3>2
    <3>. HIDE DEF more
    <3>. QED  BY <3>3, LenProperties
  <2>. DEFINE v == wire'
  <2>2. v = wire \o more
    BY <1>7
  <2>. HIDE DEF v, more
  <2>3. /\ v \in Seq(Byte) /\ Len(v) = Len(wire) + Len(more)
        /\ \A i \in 1..Len(wire) : v[i] = wire[i]
    <3>1. /\ wire \o more \in Seq(Byte) /\ Len(wire \o more) = Len(wire) + Len(more)
      BY <1>1, <2>1, ConcatProperties
    <3>2. \A i \in 1..Len(wire) : (wire \o more)[i] = wire[i]
      BY <1>1, <2>1
    <3>. QED  BY <2>2, <3>1, <3>2
  <2>4. Len(wire) <= Len(v) /\ at \in 0..Len(wire)
    BY <1>1, <2>1, <2>3
  <2>5. SubSeq(v, 1, at) = SubSeq(wire, 1, at) /\ ZeroRun(v, 0, at) = ZeroRun(wire, 0, at)
    BY <1>1, <2>3, <2>4, WireGrows
  <2>. QED  BY <2>5 DEF v
<1>. HIDE DEF more, escape
<1>. QED  BY <1>1, <1>5, <1>7, <1>9, <1>10 DEF ClosedInv

LEMMA ClosedRead ==
    ASSUME TypeOK, ClosedInv, Keep \/ Drop
    PROVE  ClosedInv'
<1>. DEFINE byte == wire[at + 1]
            s == SubSeq(wire, 1, at)
<1>1. /\ wire \in Seq(Byte) /\ Len(wire) \in Nat /\ at \in 0..(Len(wire) - 1)
      /\ rbsp' = rbsp /\ wire' = wire /\ wzeros' = wzeros /\ at' = at + 1
  <2>1. at # Len(wire)
    BY DEF Keep, Drop, CaughtUp
  <2>2. wire \in Seq(Byte) /\ Len(wire) \in Nat /\ at \in 0..Len(wire)
    BY LenProperties DEF TypeOK
  <2>. QED  BY <2>1, <2>2 DEF Keep, Drop
<1>2. byte \in Byte
  <2>1. at + 1 \in 1..Len(wire)
    BY <1>1
  <2>. QED  BY <1>1, <2>1, ElementOfSeq
<1>3. s \in Seq(Byte) /\ Len(s) = at /\ SubSeq(wire, 1, at + 1) = Append(s, byte)
  <2>1. \A i \in 1..at : wire[i] \in Byte
    <3>1. \A i \in 1..at : i \in 1..Len(wire)
      BY <1>1
    <3>. QED  BY <1>1, <3>1, ElementOfSeq
  <2>2. s \in Seq(Byte) /\ Len(s) = at
    BY <1>1, <2>1
  <2>3. SubSeq(wire, 1, at + 1) = Append(s, byte)
    BY <1>1, <2>2
  <2>. QED  BY <2>2, <2>3
<1>4. ZeroRun(s, 0, at) = ZeroRun(wire, 0, at)
  <2>1. \A i \in 1..at : s[i] = wire[i]
    BY <1>1
  <2>2. \A i \in 0..(at - 1) : At(wire, i) = At(s, i)
    <3>1. \A i \in 0..(at - 1) : i + 1 \in 1..at
      BY <1>1
    <3>. QED  BY <2>1, <3>1 DEF At
  <2>. QED  BY <1>1, <2>2, ZeroRunSame
<1>5. rzeros = at - ZeroRun(wire, 0, at) /\ ZeroRun(wire, 0, at) \in 0..at
  <2>1. at \in Nat /\ 0 <= at
    BY <1>1
  <2>. QED  BY <2>1, ZeroRunRange DEF ClosedInv
<1>. HIDE DEF byte, s
<1>6. RemoveEmulationPrevention(Append(s, byte)) =
          IF rzeros >= 2 /\ byte = 3 THEN back ELSE Append(back, byte)
  <2>1. RemoveEmulationPrevention(s) = back
    BY DEF ClosedInv, s
  <2>2. Len(s) - ZeroRun(s, 0, Len(s)) = rzeros
    BY <1>3, <1>4, <1>5
  <2>. QED  BY <1>2, <1>3, <2>1, <2>2, RemoveAppend
<1>7. back' = IF rzeros >= 2 /\ byte = 3 THEN back ELSE Append(back, byte)
  BY DEF Keep, Drop, byte
<1>8. rzeros' = IF byte = 0 THEN rzeros + 1 ELSE 0
  <2>1. CASE Keep
    BY <2>1 DEF Keep, Zeros, byte
  <2>2. CASE Drop
    BY <2>2 DEF Drop, byte
  <2>. QED  BY <2>1, <2>2
<1>9. ZeroRun(wire, 0, at + 1) = IF byte = 0 THEN ZeroRun(wire, 0, at) ELSE at + 1
  <2>1. at \in Nat /\ At(wire, at) = byte
    BY <1>1 DEF At, byte
  <2>. QED  BY <2>1, ZeroRunNext
<1>10. rzeros' = (at + 1) - ZeroRun(wire, 0, at + 1)
  BY <1>1, <1>5, <1>8, <1>9
<1>11. back' = RemoveEmulationPrevention(SubSeq(wire, 1, at + 1))
  BY <1>3, <1>6, <1>7
<1>. QED  BY <1>1, <1>10, <1>11 DEF ClosedInv

\* For payloads of any bytes and any length the loops return what the operators
\* say that stand for them everywhere else.
THEOREM EpClosedForms == Spec => []ClosedForms
<1>1. EpInv /\ ClosedInv /\ [Next]_vars => ClosedInv'
  <2>. SUFFICES ASSUME EpInv, ClosedInv, [Next]_vars PROVE ClosedInv'
    OBVIOUS
  <2>1. TypeOK
    BY DEF EpInv
  <2>2. ASSUME NEW byte \in Payload, Plain(byte) \/ Escaped(byte) PROVE ClosedInv'
    <3>1. byte \in Byte
      BY EpLoopAssumption
    <3>. QED  BY <2>1, <2>2, <3>1, ClosedWrite
  <2>3. CASE Keep \/ Drop
    BY <2>1, <2>3, ClosedRead
  <2>4. CASE UNCHANGED vars
    BY <2>4 DEF ClosedInv, vars
  <2>. QED  BY <2>2, <2>3, <2>4 DEF Next
<1>2. EpInv /\ ClosedInv => ClosedForms
  <2>. SUFFICES ASSUME EpInv, ClosedInv, CaughtUp
                PROVE  /\ wire = InsertEmulationPrevention(rbsp)
                       /\ back = RemoveEmulationPrevention(wire)
    BY DEF ClosedForms
  <2>1. wire \in Seq(Byte) /\ at = Len(wire)
    BY DEF EpInv, TypeOK, CaughtUp
  <2>2. SubSeq(wire, 1, at) = wire
    BY <2>1, SubSeqFull
  <2>. QED  BY <2>2 DEF ClosedInv
<1>. QED  BY <1>1, <1>2, ClosedInit, EpInvariant, PTL DEF Spec
=============================================================================
