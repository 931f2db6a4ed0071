---------------------------- MODULE XDumpProofs ----------------------------
(***************************************************************************)
(* Proof that a hex dump that completes prints exactly the reference       *)
(* layout (testXDump of src/test/testUtil.c), for every line width, every  *)
(* address width, every indent and offset the setters accept and every    *)
(* size: the line structure the loop builds is tracked byte by byte.       *)
(***************************************************************************)
EXTENDS XDump, FiniteSetTheorems, TLAPS

\* The address printed for byte p.
AddrAt(p) == (p + offset) % 2^AddrBits

\* Line i of the dump holding b bytes, as the loop prints it.
LineAt(i, b) ==
    [addr |-> AddrAt((i - 1) * BytesPerLine),
     bytes |-> b,
     len |-> PrefixLen(indent, offset, (i - 1) * BytesPerLine) + 3 * b]

\* The lines completed before byte pos - 1, and the bytes of the current one.
Full == (pos - 1) \div BytesPerLine
Partial == pos - Full * BytesPerLine

(***************************************************************************)
(* The inductive invariant.  While the loop runs, out holds the complete   *)
(* lines before the current one, each with sixteen bytes, and the line     *)
(* being built is the next one with the bytes dumped so far.  Before the   *)
(* first byte nothing is built (linep == line).  indent and offset are     *)
(* fixed from the call on, as the setters run only outside testXDump.      *)
(***************************************************************************)
XInv ==
    /\ indent \in Indents /\ offset \in Offsets
    /\ size \in Nat /\ pos \in Nat /\ num \in Nat /\ pos + num = size
    /\ pc \in {"idle", "loop", "done", "aborted"}
    /\ pc \in {"idle", "loop"} /\ pos = 0 => len = 0 /\ out = <<>>
    /\ pc = "loop" /\ pos > 0 =>
         /\ out = [i \in 1..Full |-> LineAt(i, BytesPerLine)]
         /\ Line = LineAt(Full + 1, Partial)
    /\ pc = "idle" => pos = 0
    /\ XDumpLayout

USE XDumpAssumption

\* The prefix snprintf writes is a natural: HexDigits counts a finite set.
LEMMA PrefixNat ==
  ASSUME NEW i \in Indents, NEW o, NEW p
  PROVE  PrefixLen(i, o, p) \in Nat
  <1> DEFINE K == (AddrBits + 3) \div 4 - 1
             D == {d \in 1..K : 16^d <= (p + o) % 2^AddrBits}
  <1>0. K \in Int /\ D \subseteq 1..K
    OBVIOUS
  <1>1. IsFiniteSet(D)
    <2>1. IsFiniteSet(1..K)
      BY <1>0, FS_Interval
    <2> QED
      BY <1>0, <2>1, FS_Subset
  <1>2. Cardinality(D) \in Nat
    BY <1>1, FS_CardinalityType
  <1>3. HexDigits((p + o) % 2^AddrBits) \in Nat
    BY <1>2 DEF HexDigits
  <1> QED
    BY <1>3 DEF PrefixLen

\* Where byte p > 0 falls: after (p - 1) \div B complete lines, as byte
\* p - ((p - 1) \div B) * B of the next one.
LEMMA LinePos ==
  ASSUME NEW p \in Nat, NEW B \in Nat \ {0}, p > 0
  PROVE  /\ (p - 1) \div B \in Nat
         /\ p - ((p - 1) \div B) * B \in 1..B
  BY Z3

\* The byte after a full line starts the next line.
LEMMA LineEnds ==
  ASSUME NEW p \in Nat, NEW B \in Nat \ {0}, p > 0, p % B = 0
  PROVE  /\ p - ((p - 1) \div B) * B = B
         /\ p \div B = (p - 1) \div B + 1
         /\ ((p - 1) \div B + 1) * B = p
         /\ (p + 1) - ((p - 1) \div B + 1) * B = 1
  <1> DEFINE q == p \div B
  <1>1. q \in Nat /\ p = q * B
    BY Z3
  <1>2. q >= 1
    BY <1>1, Z3
  <1>3. p - 1 = (q - 1) * B + (B - 1)
    BY <1>1
  <1>4. (p - 1) \div B = q - 1
    <2>1. (q - 1) * B <= p - 1 /\ p - 1 < (q - 1) * B + B
      BY <1>1, <1>3
    <2> QED
      BY <1>2, <2>1, Z3
  <1> QED
    BY <1>1, <1>4

\* The byte after a partial line stays on it.
LEMMA LineGoesOn ==
  ASSUME NEW p \in Nat, NEW B \in Nat \ {0}, p > 0, p % B # 0
  PROVE  /\ p - ((p - 1) \div B) * B < B
         /\ p \div B = (p - 1) \div B
  BY Z3

\* The number of lines of a dump of p > 0 bytes, and the bytes of each.
LEMMA RefArith ==
  ASSUME NEW p \in Nat, NEW B \in Nat \ {0}, p > 0
  PROVE  /\ (p + B - 1) \div B = (p - 1) \div B + 1
         /\ \A i \in 1..((p - 1) \div B) : i * B <= p
         /\ (IF ((p - 1) \div B + 1) * B <= p THEN B
             ELSE p - ((p - 1) \div B) * B)
            = p - ((p - 1) \div B) * B
  BY Z3

LEMMA InitXInv == Init => XInv
  BY DEF Init, XInv, XDumpLayout

\* A pass of the loop keeps the line structure: the first byte opens line
\* one, a byte at a multiple of sixteen prints the full line and opens the
\* next, any other byte extends the current line.
LEMMA ByteXInv ==
  ASSUME XInv, Byte
  PROVE  XInv'
  <1> DEFINE len1 == IF pos % BytesPerLine = 0
                       THEN PrefixLen(indent, offset, pos) ELSE len
  <1>1. /\ pc = "loop" /\ num > 0 /\ pos \in Nat /\ num \in Nat
        /\ BytesPerLine \in Nat \ {0} /\ indent \in Indents
        /\ UNCHANGED <<indent, offset, size>>
        /\ out' = IF pos % BytesPerLine = 0 /\ len # 0
                   THEN Append(out, Line) ELSE out
        /\ lineAddr' = IF pos % BytesPerLine = 0
                        THEN (pos + offset) % 2^AddrBits ELSE lineAddr
    BY DEF XInv, Byte
  <1>2. CASE ~(MaxStr - 4 >= len1)
    BY <1>1, <1>2 DEF Byte, XInv, XDumpLayout, len1
  <1>3. CASE MaxStr - 4 >= len1
    <2>1. /\ len' = len1 + 3
          /\ lineBytes' = IF pos % BytesPerLine = 0 THEN 1 ELSE lineBytes + 1
          /\ pos' = pos + 1 /\ num' = num - 1 /\ pc' = "loop"
      BY <1>3 DEF Byte, len1
    <2>2. XDumpLayout' /\ (pc' = "loop" /\ pos' = 0 => len' = 0 /\ out' = <<>>)
      BY <1>1, <2>1 DEF XDumpLayout
    <2>3. /\ indent' \in Indents /\ offset' \in Offsets
          /\ size' \in Nat /\ pos' \in Nat /\ num' \in Nat
          /\ pos' + num' = size'
          /\ pc' \in {"idle", "loop", "done", "aborted"}
          /\ pc' = "idle" => pos' = 0
      BY <1>1, <2>1 DEF XInv
    <2>0. PICK f, r : f = Full' /\ r = Partial'
      OBVIOUS
    <2>4. /\ out' = [i \in 1..f |-> LineAt(i, BytesPerLine)]
          /\ Line' = LineAt(f + 1, r)
      <3>1. CASE pos = 0
        <4>1. pos % BytesPerLine = 0 /\ len = 0 /\ out = <<>>
          BY <1>1, <3>1 DEF XInv
        <4>2. f = 0 /\ r = 1
          BY <2>0, <2>1, <3>1, <1>1, Z3 DEF Full, Partial
        <4> QED
          BY <1>1, <2>1, <3>1, <4>1, <4>2 DEF LineAt, Line, AddrAt
      <3>2. CASE pos > 0 /\ pos % BytesPerLine = 0
        <4>0. /\ pos - ((pos - 1) \div BytesPerLine) * BytesPerLine
                 = BytesPerLine
              /\ pos \div BytesPerLine = (pos - 1) \div BytesPerLine + 1
              /\ ((pos - 1) \div BytesPerLine + 1) * BytesPerLine = pos
              /\ (pos + 1) - ((pos - 1) \div BytesPerLine + 1) * BytesPerLine
                 = 1
          BY <1>1, <3>2, LineEnds, Zenon
        <4>1. /\ Partial = BytesPerLine /\ pos \div BytesPerLine = Full + 1
              /\ Full \in Nat
          <5>1. /\ pos - ((pos - 1) \div BytesPerLine) * BytesPerLine
                     = BytesPerLine
                /\ pos \div BytesPerLine = (pos - 1) \div BytesPerLine + 1
            BY <4>0
          <5>2. (pos - 1) \div BytesPerLine \in Nat
            BY <1>1, <3>2, LinePos, Zenon
          <5> QED
            BY <5>1, <5>2 DEF Full, Partial
        <4>2. f = Full + 1 /\ (Full + 1) * BytesPerLine = pos
              /\ r = 1
          <5>1. f = pos \div BytesPerLine
            BY <1>1, <2>0, <2>1 DEF Full
          <5>2. (Full + 1) * BytesPerLine = Full * BytesPerLine + BytesPerLine
            BY <1>1, <4>1
          <5>3. /\ (Full + 1) * BytesPerLine = pos
                /\ (pos + 1) - (Full + 1) * BytesPerLine = 1
            BY <4>0 DEF Full
          <5>4. r = pos' - f * BytesPerLine
            BY <2>0 DEF Partial
          <5> QED
            BY <2>1, <4>1, <5>1, <5>3, <5>4
        <4>3. out = [i \in 1..Full |-> LineAt(i, BytesPerLine)]
              /\ Line = LineAt(Full + 1, BytesPerLine)
          BY <1>1, <3>2, <4>1 DEF XInv
        <4>4. len # 0
          <5>1. PrefixLen(indent, offset, (Full + 1 - 1) * BytesPerLine)
                  \in Nat
            BY <1>1, PrefixNat
          <5>2. len = PrefixLen(indent, offset,
                                (Full + 1 - 1) * BytesPerLine)
                      + 3 * BytesPerLine
            BY <4>1, <4>3 DEF Line, LineAt
          <5> QED
            BY <1>1, <5>1, <5>2
        <4>5. out' = [i \in 1..f |-> LineAt(i, BytesPerLine)]
          <5>1. out' = Append(out, Line)
            BY <1>1, <3>2, <4>4
          <5> QED
            BY <5>1, <4>1, <4>2, <4>3
        <4>6. Line' = LineAt(f + 1, r)
          <5>1. lineAddr' = AddrAt((f + 1 - 1) * BytesPerLine)
            BY <1>1, <3>2, <4>2 DEF AddrAt
          <5>2. len' = PrefixLen(indent, offset, (f + 1 - 1) * BytesPerLine)
                       + 3 * r
            BY <1>1, <2>1, <3>2, <4>2 DEF len1
          <5>3. lineBytes' = r
            BY <2>1, <3>2, <4>2
          <5>4. Line' = [addr |-> lineAddr', bytes |-> lineBytes', len |-> len']
            BY DEF Line
          <5>5. LineAt(f + 1, r)
                  = [addr |-> AddrAt((f + 1 - 1) * BytesPerLine),
                     bytes |-> r,
                     len |-> PrefixLen(indent, offset,
                                       (f + 1 - 1) * BytesPerLine)
                             + 3 * r]
            BY <4>1, <4>2 DEF LineAt
          <5> QED
            BY <5>1, <5>2, <5>3, <5>4, <5>5
        <4> QED
          BY <4>5, <4>6
      <3>3. CASE pos > 0 /\ pos % BytesPerLine # 0
        <4>1. f = Full /\ r = Partial + 1 /\ Full \in Nat
          <5>1. /\ pos - ((pos - 1) \div BytesPerLine) * BytesPerLine
                     < BytesPerLine
                /\ pos \div BytesPerLine = (pos - 1) \div BytesPerLine
            BY <1>1, <3>3, LineGoesOn, Zenon
          <5>2. f = pos \div BytesPerLine
            BY <1>1, <2>0, <2>1 DEF Full
          <5>3. f = Full /\ Full \in Nat
            BY <1>1, <3>3, <5>1, <5>2, LinePos, Zenon DEF Full
          <5>4. r = pos' - f * BytesPerLine
            BY <2>0 DEF Partial
          <5> QED
            BY <1>1, <2>1, <5>3, <5>4 DEF Partial
        <4>2. out = [i \in 1..Full |-> LineAt(i, BytesPerLine)]
              /\ Line = LineAt(Full + 1, Partial)
          BY <1>1, <3>3 DEF XInv
        <4>3. out' = [i \in 1..f |-> LineAt(i, BytesPerLine)]
          BY <1>1, <2>1, <3>3, <4>1, <4>2
        <4>4. Line' = LineAt(f + 1, r)
          <5>1. lineAddr' = lineAddr /\ lineBytes' = lineBytes + 1
                /\ len' = len + 3
            BY <1>1, <2>1, <3>3 DEF len1
          <5>2. Partial \in Int
            BY <1>1, <4>1 DEF Partial
          <5>3. Line' = [addr |-> lineAddr, bytes |-> lineBytes + 1,
                         len |-> len + 3]
            BY <5>1 DEF Line
          <5>4. /\ lineAddr = AddrAt((Full + 1 - 1) * BytesPerLine)
                /\ lineBytes = Partial
                /\ len = PrefixLen(indent, offset,
                                   (Full + 1 - 1) * BytesPerLine)
                        + 3 * Partial
            BY <4>1, <4>2, <5>2 DEF Line, LineAt
          <5>5. LineAt(f + 1, r)
                  = [addr |-> AddrAt((f + 1 - 1) * BytesPerLine),
                     bytes |-> r,
                     len |-> PrefixLen(indent, offset,
                                       (f + 1 - 1) * BytesPerLine)
                             + 3 * r]
            BY <4>1, <5>2 DEF LineAt
          <5>6. PrefixLen(indent, offset, (Full + 1 - 1) * BytesPerLine)
                  \in Nat
            BY <1>1, PrefixNat
          <5> QED
            BY <4>1, <5>2, <5>3, <5>4, <5>5, <5>6
        <4> QED
          BY <4>3, <4>4
      <3> QED
        BY <1>1, <3>1, <3>2, <3>3
    <2>5. (pc = "loop" /\ pos > 0 =>
             /\ out = [i \in 1..Full |-> LineAt(i, BytesPerLine)]
             /\ Line = LineAt(Full + 1, Partial))'
      BY <1>1, <2>0, <2>4 DEF LineAt, AddrAt
    <2> QED
      BY <2>1, <2>2, <2>3, <2>5 DEF XInv
  <1> QED
    BY <1>2, <1>3

\* The reference layout, line by line, as LineAt gives it.
LEMMA RefLinesAt ==
  ASSUME NEW n \in Nat, (size + BytesPerLine - 1) \div BytesPerLine = n
  PROVE  RefLines
           = [i \in 1..n |->
                LineAt(i, IF i * BytesPerLine <= size THEN BytesPerLine
                          ELSE size - (i - 1) * BytesPerLine)]
  BY DEF RefLines, Layout, LineAt, AddrAt

\* The flush after the loop prints the last line, so that out is the
\* reference layout; with no byte dumped nothing is printed.
LEMMA FinishXInv ==
  ASSUME XInv, Finish
  PROVE  XInv'
  <1>1. /\ pc = "loop" /\ num = 0 /\ pos = size /\ pos \in Nat
        /\ BytesPerLine \in Nat \ {0} /\ indent \in Indents
        /\ pc' = "done"
        /\ UNCHANGED <<indent, offset, size, num, pos, len, lineAddr,
                       lineBytes>>
        /\ out' = IF len # 0 THEN Append(out, Line) ELSE out
    BY DEF XInv, Finish
  <1>2. out' = RefLines
    <2>1. CASE pos = 0
      <3>1. len = 0 /\ out = <<>>
        BY <1>1, <2>1 DEF XInv
      <3>2. (size + BytesPerLine - 1) \div BytesPerLine = 0
        BY <1>1, <2>1, Z3
      <3>3. RefLines = [i \in 1..0 |-> LineAt(i, BytesPerLine)]
        BY <3>2, RefLinesAt
      <3> QED
        BY <1>1, <3>1, <3>3
    <2>2. CASE pos > 0
      <3>1. /\ out = [i \in 1..Full |-> LineAt(i, BytesPerLine)]
            /\ Line = LineAt(Full + 1, Partial)
        BY <1>1, <2>2 DEF XInv
      <3>2. Full \in Nat /\ Partial \in 1..BytesPerLine
        <4>1. /\ (pos - 1) \div BytesPerLine \in Nat
              /\ pos - ((pos - 1) \div BytesPerLine) * BytesPerLine
                   \in 1..BytesPerLine
          BY <1>1, <2>2, LinePos, Zenon
        <4> QED
          BY <4>1 DEF Full, Partial
      <3>3. /\ (pos + BytesPerLine - 1) \div BytesPerLine = Full + 1
            /\ \A i \in 1..Full : i * BytesPerLine <= pos
            /\ (IF (Full + 1) * BytesPerLine <= pos THEN BytesPerLine
                ELSE pos - Full * BytesPerLine) = Partial
        <4>1. /\ (pos + BytesPerLine - 1) \div BytesPerLine
                   = (pos - 1) \div BytesPerLine + 1
              /\ \A i \in 1..((pos - 1) \div BytesPerLine) :
                   i * BytesPerLine <= pos
              /\ (IF ((pos - 1) \div BytesPerLine + 1) * BytesPerLine <= pos
                  THEN BytesPerLine
                  ELSE pos - ((pos - 1) \div BytesPerLine) * BytesPerLine)
                 = pos - ((pos - 1) \div BytesPerLine) * BytesPerLine
          <5>1. pos \in Nat /\ BytesPerLine \in Nat \ {0} /\ pos > 0
            BY <1>1, <2>2
          <5> QED
            BY <5>1, RefArith
        <4> QED
          BY <4>1 DEF Full, Partial
      <3>4. len # 0
        <4>1. PrefixLen(indent, offset, (Full + 1 - 1) * BytesPerLine)
                \in Nat
          BY <1>1, PrefixNat
        <4>2. len = PrefixLen(indent, offset, (Full + 1 - 1) * BytesPerLine)
                    + 3 * Partial
          BY <3>1, <3>2 DEF Line, LineAt
        <4> QED
          BY <3>2, <4>1, <4>2
      <3>5. RefLines
              = [i \in 1..Full + 1 |->
                   LineAt(i, IF i * BytesPerLine <= size THEN BytesPerLine
                             ELSE size - (i - 1) * BytesPerLine)]
        BY <1>1, <3>2, <3>3, RefLinesAt
      <3>6. \A i \in 1..Full + 1 :
              (IF i * BytesPerLine <= size THEN BytesPerLine
               ELSE size - (i - 1) * BytesPerLine)
              = IF i = Full + 1 THEN Partial ELSE BytesPerLine
        BY <1>1, <3>2, <3>3
      <3>7. out' = [i \in 1..Full + 1 |->
                      LineAt(i, IF i = Full + 1 THEN Partial
                                ELSE BytesPerLine)]
        BY <1>1, <3>1, <3>2, <3>4
      <3> QED
        BY <3>5, <3>6, <3>7
    <2> QED
      BY <1>1, <2>1, <2>2
  <1>3. RefLines' = RefLines
    BY <1>1 DEF RefLines, Layout
  <1> QED
    BY <1>1, <1>2, <1>3 DEF XInv, XDumpLayout

LEMMA NextXInv == XInv /\ [Next]_vars => XInv'
  <1> SUFFICES ASSUME XInv, [Next]_vars PROVE XInv'
    OBVIOUS
  <1>1. CASE SetIndent
    BY <1>1 DEF SetIndent, XInv, XDumpLayout
  <1>2. CASE SetOffset
    BY <1>2 DEF SetOffset, XInv, XDumpLayout
  <1>3. CASE Call
    <2>1. /\ pc = "idle" /\ pos = 0 /\ len = 0 /\ out = <<>>
          /\ pc' = "loop" /\ size' \in Nat /\ num' = size' /\ pos' = 0
          /\ UNCHANGED <<indent, offset, len, out>>
      BY <1>3 DEF Call, XInv
    <2>2. indent' \in Indents /\ offset' \in Offsets
      BY <2>1 DEF XInv
    <2>3. /\ size' \in Nat /\ pos' \in Nat /\ num' \in Nat
          /\ pos' + num' = size'
      <3>1. PICK s \in Nat : size' = s /\ num' = s /\ pos' = 0
        BY <2>1
      <3> QED
        BY <3>1
    <2>4. (pc = "loop" /\ pos > 0 =>
             /\ out = [i \in 1..Full |-> LineAt(i, BytesPerLine)]
             /\ Line = LineAt(Full + 1, Partial))'
      BY <2>1
    <2>5. XDumpLayout'
      BY <2>1 DEF XDumpLayout
    <2> QED
      BY <2>1, <2>2, <2>3, <2>4, <2>5 DEF XInv
  <1>4. CASE Byte
    BY <1>4, ByteXInv
  <1>5. CASE Finish
    BY <1>5, FinishXInv
  <1>6. CASE UNCHANGED vars
    BY <1>6 DEF vars, XInv, XDumpLayout, RefLines, Line, Full, Partial,
                LineAt, AddrAt
  <1> QED
    BY <1>1, <1>2, <1>3, <1>4, <1>5, <1>6 DEF Next

LEMMA XInvHolds == Spec => []XInv
  BY InitXInv, NextXInv, PTL DEF Spec

\* A hex dump that completes has printed exactly the reference layout --
\* every byte once, sixteen to a line, the last partial line flushed, each
\* line headed by its own address -- for every line width, address width,
\* indent, offset and size (XDumpLayout, checked by the run for 16-byte
\* lines and 28-bit addresses).
THEOREM XDumpLayoutHolds == Spec => []XDumpLayout
  BY XInvHolds, PTL DEF XInv

\* A step that prints appends the line being built, and only while the loop
\* has dumped a byte: at a line end of the loop, or in the flush.
LEMMA PrintingStep ==
  ASSUME XInv, [Next]_vars, out' # out
  PROVE  /\ pc = "loop" /\ pos \in Nat /\ pos > 0
         /\ out' = Append(out, Line)
         /\ pos % BytesPerLine = 0 \/ pc' = "done"
  <1>1. pc = "loop" /\ pos \in Nat /\ (pos = 0 => len = 0)
    BY DEF Next, SetIndent, SetOffset, Call, Byte, Finish, vars, XInv
  <1>2. CASE Byte
    <2>1. pos % BytesPerLine = 0 /\ len # 0 /\ out' = Append(out, Line)
      BY <1>2 DEF Byte
    <2> QED BY <1>1, <2>1
  <1>3. CASE Finish
    <2>1. len # 0 /\ out' = Append(out, Line) /\ pc' = "done"
      BY <1>3 DEF Finish
    <2> QED BY <1>1, <2>1
  <1> QED
    BY <1>2, <1>3 DEF Next, SetIndent, SetOffset, Call, vars

LEMMA PrintStep ==
  ASSUME XInv, [Next]_vars, out' # out
  PROVE  /\ Len(out') = Len(out) + 1
         /\ \A i \in 1..Len(out) : out'[i] = out[i]
         /\ out'[Len(out')].addr
              = (Len(out) * BytesPerLine + offset) % 2^AddrBits
         /\ out'[Len(out')].bytes = BytesPerLine \/ pc' = "done"
  <1>1. /\ pc = "loop" /\ pos \in Nat /\ pos > 0
        /\ out' = Append(out, Line)
        /\ pos % BytesPerLine = 0 \/ pc' = "done"
    BY PrintingStep
  <1>2. /\ out = [i \in 1..Full |-> LineAt(i, BytesPerLine)]
        /\ Line = LineAt(Full + 1, Partial)
    BY <1>1 DEF XInv
  <1>3. Full \in Nat /\ Len(out) = Full /\ BytesPerLine \in Nat \ {0}
    <2>1. (pos - 1) \div BytesPerLine \in Nat
      BY <1>1, LinePos, Zenon
    <2> QED BY <1>2, <2>1 DEF Full
  <1>4. /\ Len(out') = Len(out) + 1
        /\ \A i \in 1..Len(out) : out'[i] = out[i]
        /\ out'[Len(out')] = Line
    BY <1>1, <1>2, <1>3
  <1>5. Line.addr = (Len(out) * BytesPerLine + offset) % 2^AddrBits
    <2>1. Line.addr = AddrAt((Full + 1 - 1) * BytesPerLine)
      BY <1>2, <1>3 DEF LineAt
    <2> QED BY <1>3, <2>1 DEF AddrAt
  <1>6. Line.bytes = BytesPerLine \/ pc' = "done"
    <2>1. CASE pos % BytesPerLine = 0
      <3>1. pos - ((pos - 1) \div BytesPerLine) * BytesPerLine
              = BytesPerLine
        BY <1>1, <1>3, <2>1, LineEnds, Zenon
      <3>2. Partial = BytesPerLine
        BY <3>1 DEF Full, Partial
      <3> QED BY <1>2, <3>2 DEF LineAt
    <2> QED BY <1>1, <2>1
  <1> QED BY <1>4, <1>5, <1>6

\* Every line the dump prints extends what is already printed, carries the
\* address of the first byte not yet printed, and is a full line unless it
\* is the final flush, for every line width, address width, indent, offset
\* and size (PrintsWholeLines, checked by the run for 16-byte lines and
\* 28-bit addresses).
THEOREM PrintsWholeLinesHolds == Spec => PrintsWholeLines
  <1>1. XInv /\ [Next]_vars =>
          [out' # out =>
             /\ Len(out') = Len(out) + 1
             /\ \A i \in 1..Len(out) : out'[i] = out[i]
             /\ out'[Len(out')].addr
                  = (Len(out) * BytesPerLine + offset) % 2^AddrBits
             /\ out'[Len(out')].bytes = BytesPerLine \/ pc' = "done"]_vars
    BY PrintStep
  <1> QED BY XInvHolds, <1>1, PTL DEF Spec, PrintsWholeLines
-----------------------------------------------------------------------------
(* Refinement of XDumpAbs.                                                 *)

\* At a line end inside the loop, the line buffer holds exactly the next
\* line of the layout, and the layout has that line.
LEMMA LineIsNext ==
  ASSUME XInv, pc = "loop", num > 0, pos > 0, pos % BytesPerLine = 0
  PROVE  Len(out) < Len(RefLines) /\ Line = RefLines[Len(out) + 1]
  <1>1. /\ pos \in Nat /\ num \in Nat /\ size = pos + num
        /\ BytesPerLine \in Nat \ {0} /\ indent \in Indents
    BY DEF XInv
  <1>2. /\ out = [i \in 1..Full |-> LineAt(i, BytesPerLine)]
        /\ Line = LineAt(Full + 1, Partial)
    BY DEF XInv
  <1>3. Full \in Nat /\ Partial = BytesPerLine
        /\ (Full + 1) * BytesPerLine = pos
    <2>1. (pos - 1) \div BytesPerLine \in Nat
      BY <1>1, LinePos, Zenon
    <2>2. /\ pos - ((pos - 1) \div BytesPerLine) * BytesPerLine
               = BytesPerLine
          /\ ((pos - 1) \div BytesPerLine + 1) * BytesPerLine = pos
      BY <1>1, LineEnds, Zenon
    <2> QED BY <2>1, <2>2 DEF Full, Partial
  <1>4. Len(out) = Full
    BY <1>2, <1>3
  <1>5. PICK n \in Nat : (size + BytesPerLine - 1) \div BytesPerLine = n
                         /\ n > Full
    <2>1. /\ (size + BytesPerLine - 1) \div BytesPerLine \in Nat
          /\ (size + BytesPerLine - 1) \div BytesPerLine > Full
      BY <1>1, <1>3, Z3
    <2> QED BY <2>1
  <1>6. RefLines
          = [i \in 1..n |->
               LineAt(i, IF i * BytesPerLine <= size THEN BytesPerLine
                         ELSE size - (i - 1) * BytesPerLine)]
    BY <1>5, RefLinesAt
  <1>7. RefLines[Full + 1] = LineAt(Full + 1, BytesPerLine)
    <2>1. (Full + 1) * BytesPerLine <= size /\ Full + 1 \in 1..n
      BY <1>1, <1>3, <1>5
    <2> QED BY <1>6, <2>1
  <1>8. Len(RefLines) = n
    BY <1>6
  <1> QED BY <1>2, <1>3, <1>4, <1>5, <1>7, <1>8

\* A pass of the loop prints the next line of the layout or nothing; when
\* the assertion fails the dump is aborted.
LEMMA ByteRefines ==
  ASSUME XInv, Byte
  PROVE  [Abs!Next]_Abs!avars
  <1> DEFINE len1 == IF pos % BytesPerLine = 0
                       THEN PrefixLen(indent, offset, pos) ELSE len
  <1>1. /\ pc = "loop" /\ num > 0 /\ pos \in Nat
        /\ (pos = 0 => len = 0)
        /\ UNCHANGED <<indent, offset, size>>
        /\ out' = IF pos % BytesPerLine = 0 /\ len # 0
                   THEN Append(out, Line) ELSE out
    BY DEF XInv, Byte
  <1>2. pos % BytesPerLine = 0 /\ len # 0 =>
          Len(out) < Len(Abs!Ref) /\ out' = Abs!NextLine
    <2> SUFFICES ASSUME pos % BytesPerLine = 0, len # 0
                 PROVE  Len(out) < Len(Abs!Ref) /\ out' = Abs!NextLine
      OBVIOUS
    <2>1. pos > 0
      BY <1>1
    <2>2. Len(out) < Len(RefLines) /\ Line = RefLines[Len(out) + 1]
      BY <1>1, <2>1, LineIsNext
    <2> QED BY <1>1, <2>2 DEF Abs!NextLine, Abs!Ref, RefLines
  <1>3. CASE MaxStr - 4 >= len1
    <2>1. pc' = pc
      BY <1>3 DEF Byte, len1
    <2>2. CASE pos % BytesPerLine = 0 /\ len # 0
      BY <1>1, <1>2, <2>1, <2>2 DEF Abs!PrintLine, Abs!Next
    <2>3. CASE ~(pos % BytesPerLine = 0 /\ len # 0)
      BY <1>1, <2>1, <2>3 DEF Abs!avars
    <2> QED BY <2>2, <2>3
  <1>4. CASE ~(MaxStr - 4 >= len1)
    <2>1. pc' = "aborted"
      BY <1>4 DEF Byte, len1
    <2> QED BY <1>1, <1>2, <2>1 DEF Abs!Abort, Abs!Next
  <1> QED BY <1>3, <1>4

\* The flush completes the layout.
LEMMA FinishRefines ==
  ASSUME XInv, Finish
  PROVE  Abs!Complete
  <1>1. XInv'
    BY FinishXInv
  <1>2. out' = RefLines'
    BY <1>1 DEF Finish, XInv, XDumpLayout
  <1>3. RefLines' = RefLines
    BY DEF Finish, RefLines
  <1> QED BY <1>2, <1>3 DEF Finish, Abs!Complete, Abs!Ref, RefLines

\* testXDump implements XDumpAbs: with the line buffer, the byte position
\* and the assertion hidden, every step prints the next line of the layout,
\* completes it, aborts or changes nothing abstract -- for every line
\* width, address width, MAXSTR, indent, offset and size (DumpRefines,
\* checked by the run for 16-byte lines, MAXSTR 200 and 28-bit addresses).
THEOREM DumpRefinesHolds == Spec => DumpRefines
  <1>1. Init => Abs!Init
    BY DEF Init, Abs!Init
  <1>2. XInv /\ [Next]_vars => [Abs!Next]_Abs!avars
    <2> SUFFICES ASSUME XInv, [Next]_vars PROVE [Abs!Next]_Abs!avars
      OBVIOUS
    <2>1. CASE SetIndent
      BY <2>1 DEF SetIndent, Abs!Next, Abs!SetIndent
    <2>2. CASE SetOffset
      BY <2>2 DEF SetOffset, Abs!Next, Abs!SetOffset
    <2>3. CASE Call
      BY <2>3 DEF Call, Abs!Next, Abs!Call
    <2>4. CASE Byte
      BY <2>4, ByteRefines
    <2>5. CASE Finish
      BY <2>5, FinishRefines DEF Abs!Next
    <2>6. CASE UNCHANGED vars
      BY <2>6 DEF vars, Abs!avars
    <2> QED BY <2>1, <2>2, <2>3, <2>4, <2>5, <2>6 DEF Next
  <1> QED BY <1>1, <1>2, XInvHolds, PTL DEF Spec, DumpRefines, Abs!Spec
=============================================================================
