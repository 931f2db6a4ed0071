------------------------------- MODULE XDump -------------------------------
(***************************************************************************)
(* testXDump of src/test/testUtil.c: a hex dump of `size` bytes, sixteen   *)
(* to a line, each line starting with xDumpIndent spaces and the address   *)
(* (ptr - start) + xDumpOffset printed with %06llx and a colon, each byte  *)
(* adding " %02x".  The line is built in char line[MAXSTR] by snprintf,    *)
(* whose return value -- the length it would have written -- advances     *)
(* linep; an assertion checks before every byte that four characters are  *)
(* still free.                                                             *)
(*                                                                         *)
(* The bytes' values do not change the layout and are left out; a printed *)
(* line is the record of its address, its number of bytes and its length. *)
(* The address is AddrBits wide (64 in the code: uint64_t xDumpOffset).    *)
(***************************************************************************)
EXTENDS Integers, Sequences, FiniteSets

CONSTANTS
    MaxStr,         \* MAXSTR
    BytesPerLine,   \* bytesPerLine
    AddrBits,       \* the width of the address arithmetic
    Indents,        \* the values testXDumpSetIndent may have stored
    Offsets,        \* the values testXDumpSetOffset may have stored
    Sizes           \* the sizes testXDump may be called with

ASSUME XDumpAssumption ==
    /\ MaxStr \in Nat /\ BytesPerLine \in Nat \ {0} /\ AddrBits \in Nat
    /\ Indents \subseteq 0..255 /\ 0 \in Indents
    /\ Offsets \subseteq 0..(2^AddrBits - 1) /\ 0 \in Offsets
    /\ Sizes \subseteq Nat

\* The number of hex digits of x < 2^AddrBits: one, and one more for every
\* power of sixteen not above x.
HexDigits(x) == 1 + Cardinality({d \in 1..((AddrBits + 3) \div 4 - 1) :
                                   16^d <= x})

\* What snprintf returns for "%*s%06llx:" at byte position p.
PrefixLen(indent, offset, p) ==
    LET digits == HexDigits((p + offset) % 2^AddrBits)
    IN indent + (IF digits < 6 THEN 6 ELSE digits) + 1

VARIABLES
    indent,   \* xDumpIndent
    offset,   \* xDumpOffset
    size,     \* the size argument
    num,      \* the bytes still to dump
    pos,      \* ptr - start
    len,      \* linep - line
    lineAddr, \* the address at the head of the line being built
    lineBytes,\* the bytes on the line being built
    out,      \* the lines testPrintE has printed
    pc        \* "idle", "loop", "done", or "aborted" by the assertion

vars == <<indent, offset, size, num, pos, len, lineAddr, lineBytes, out, pc>>

\* The line being built, as testPrintE prints it.
Line == [addr |-> lineAddr, bytes |-> lineBytes, len |-> len]

\* Mutant: the line built so far is printed at every multiple of sixteen,
\* without the check that something was built.
ByteFlushesEmpty ==
    /\ pc = "loop"
    /\ num > 0
    /\ LET newLine == pos % BytesPerLine = 0
           len1 == IF newLine THEN PrefixLen(indent, offset, pos) ELSE len
       IN /\ out' = IF newLine THEN Append(out, Line) ELSE out
          /\ lineAddr' = IF newLine THEN (pos + offset) % 2^AddrBits
                         ELSE lineAddr
          /\ IF MaxStr - 4 >= len1
               THEN /\ len' = len1 + 3
                    /\ lineBytes' = IF newLine THEN 1 ELSE lineBytes + 1
                    /\ pos' = pos + 1
                    /\ num' = num - 1
                    /\ UNCHANGED pc
               ELSE /\ pc' = "aborted"
                    /\ len' = len1
                    /\ UNCHANGED <<lineBytes, pos, num>>
    /\ UNCHANGED <<indent, offset, size>>

\* Mutant: the address of a new line leaves out xDumpOffset.
ByteNoOffset ==
    /\ pc = "loop"
    /\ num > 0
    /\ LET newLine == pos % BytesPerLine = 0
           len1 == IF newLine THEN PrefixLen(indent, offset, pos) ELSE len
       IN /\ out' = IF newLine /\ len # 0 THEN Append(out, Line) ELSE out
          /\ lineAddr' = IF newLine THEN pos % 2^AddrBits
                         ELSE lineAddr
          /\ IF MaxStr - 4 >= len1
               THEN /\ len' = len1 + 3
                    /\ lineBytes' = IF newLine THEN 1 ELSE lineBytes + 1
                    /\ pos' = pos + 1
                    /\ num' = num - 1
                    /\ UNCHANGED pc
               ELSE /\ pc' = "aborted"
                    /\ len' = len1
                    /\ UNCHANGED <<lineBytes, pos, num>>
    /\ UNCHANGED <<indent, offset, size>>

\* One pass of the while (num) loop: at a multiple of sixteen, print the
\* line built so far and start a new one with the indent and the address;
\* then the assertion; then " %02x".
Byte ==
    /\ pc = "loop"
    /\ num > 0
    /\ LET newLine == pos % BytesPerLine = 0
           len1 == IF newLine THEN PrefixLen(indent, offset, pos) ELSE len
       IN /\ out' = IF newLine /\ len # 0 THEN Append(out, Line) ELSE out
          /\ lineAddr' = IF newLine THEN (pos + offset) % 2^AddrBits
                         ELSE lineAddr
          /\ IF MaxStr - 4 >= len1
               THEN /\ len' = len1 + 3
                    /\ lineBytes' = IF newLine THEN 1 ELSE lineBytes + 1
                    /\ pos' = pos + 1
                    /\ num' = num - 1
                    /\ UNCHANGED pc
               ELSE /\ pc' = "aborted"
                    /\ len' = len1
                    /\ UNCHANGED <<lineBytes, pos, num>>
    /\ UNCHANGED <<indent, offset, size>>

\* The loop is over: if (linep != line) testPrintE("%s", line).
Finish ==
    /\ pc = "loop"
    /\ num = 0
    /\ out' = IF len # 0 THEN Append(out, Line) ELSE out
    /\ pc' = "done"
    /\ UNCHANGED <<indent, offset, size, num, pos, len, lineAddr, lineBytes>>

\* testXDumpSetIndent(indent) and testXDumpSetOffset(offset).
SetIndent ==
    /\ pc = "idle"
    /\ indent' \in Indents
    /\ UNCHANGED <<offset, size, num, pos, len, lineAddr, lineBytes, out, pc>>

SetOffset ==
    /\ pc = "idle"
    /\ offset' \in Offsets
    /\ UNCHANGED <<indent, size, num, pos, len, lineAddr, lineBytes, out, pc>>

\* testXDump(buf, size) is entered: num = size, ptr = start, linep = line.
Call ==
    /\ pc = "idle"
    /\ size' \in Sizes
    /\ num' = size'
    /\ pc' = "loop"
    /\ UNCHANGED <<indent, offset, pos, len, lineAddr, lineBytes, out>>

\* The static xDumpIndent and xDumpOffset start at zero.
Init ==
    /\ indent = 0
    /\ offset = 0
    /\ size = 0
    /\ num = 0
    /\ pos = 0
    /\ len = 0
    /\ lineAddr = 0
    /\ lineBytes = 0
    /\ out = <<>>
    /\ pc = "idle"

Next == SetIndent \/ SetOffset \/ Call \/ Byte \/ Finish

Spec == Init /\ [][Next]_vars

\* Every variable has its type.
TypeOK ==
    /\ indent \in Indents /\ offset \in Offsets
    /\ num \in 0..size /\ pos + num = size
    /\ pc \in {"idle", "loop", "done", "aborted"}

-----------------------------------------------------------------------------
(* Properties.                                                             *)

\* The layout a hex dump of s bytes should have at indent i and offset o:
\* line k holds bytes 16(k-1) .. 16k - 1, headed by their address.
Layout(i, o, s) ==
    LET n == (s + BytesPerLine - 1) \div BytesPerLine
        bytes(k) == IF k * BytesPerLine <= s THEN BytesPerLine
                    ELSE s - (k - 1) * BytesPerLine
        at(k) == (k - 1) * BytesPerLine
    IN [k \in 1..n |->
          [addr |-> (at(k) + o) % 2^AddrBits,
           bytes |-> bytes(k),
           len |-> PrefixLen(i, o, at(k)) + 3 * bytes(k)]]

\* The layout of the dump under way.
RefLines == Layout(indent, offset, size)

\* A dump that completes has printed exactly the reference layout: every
\* byte once, sixteen to a line, the last partial line included, each line
\* headed by its own address.
XDumpLayout == pc = "done" => out = RefLines

\* testPrintE streams the dump: a step that prints adds one line after those
\* already printed, headed by the address of the byte that follows them,
\* and holding a full sixteen bytes unless it is the flush after the loop
\* -- also for a dump the assertion cuts short.
PrintsWholeLines ==
    [][out' # out =>
         /\ Len(out') = Len(out) + 1
         /\ \A i \in 1..Len(out) : out'[i] = out[i]
         /\ out'[Len(out')].addr
              = (Len(out) * BytesPerLine + offset) % 2^AddrBits
         /\ out'[Len(out')].bytes = BytesPerLine \/ pc' = "done"]_vars

\* The assertion in the loop never fails: there is always room in line[]
\* for the next byte, whatever indent and offset the setters, which take
\* any uint8_t and uint64_t, stored.
LineFits == pc # "aborted"

-----------------------------------------------------------------------------
(* Refinement of XDumpAbs: the loop's line buffer, byte position and       *)
(* assertion are hidden; indent, offset, size, the output and the pc are   *)
(* the abstract ones.                                                      *)

Abs == INSTANCE XDumpAbs WITH Layout <- Layout

\* testXDump streams its layout: every step prints the next line of the
\* layout or nothing, the flush completes it, and an aborted dump leaves a
\* prefix of it -- the line buffer is printed only when it holds exactly
\* the next line.
DumpRefines == Abs!Spec

=============================================================================
