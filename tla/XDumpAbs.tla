------------------------------ MODULE XDumpAbs ------------------------------
(***************************************************************************)
(* What testXDump (src/test/testUtil.c) promises the test that calls it,  *)
(* whatever the line buffer and its assertion do: the lines it prints are *)
(* the layout of the dump, in order, one at a time, and a dump that       *)
(* completes has printed all of them.  A dump the assertion cuts short    *)
(* stops with a prefix of the layout on the output.                       *)
(***************************************************************************)
EXTENDS Naturals, Sequences

CONSTANTS
    Indents,          \* the indents a test may set
    Offsets,          \* the offsets a test may set
    Sizes,            \* the sizes a test may dump
    Layout(_, _, _)   \* the lines of a dump for an indent, offset and size

VARIABLES
    indent,   \* xDumpIndent
    offset,   \* xDumpOffset
    size,     \* the size argument
    out,      \* the lines printed
    pc        \* "idle", "loop", "done" or "aborted"

avars == <<indent, offset, size, out, pc>>

\* The layout of the dump under way.
Ref == Layout(indent, offset, size)

\* The output with the next line of the layout printed.
NextLine == Append(out, Ref[Len(out) + 1])

SetIndent ==
    /\ pc = "idle"
    /\ indent' \in Indents
    /\ UNCHANGED <<offset, size, out, pc>>

SetOffset ==
    /\ pc = "idle"
    /\ offset' \in Offsets
    /\ UNCHANGED <<indent, size, out, pc>>

Call ==
    /\ pc = "idle"
    /\ size' \in Sizes
    /\ pc' = "loop"
    /\ UNCHANGED <<indent, offset, out>>

\* The next line of the layout is printed.
PrintLine ==
    /\ pc = "loop"
    /\ Len(out) < Len(Ref)
    /\ out' = NextLine
    /\ UNCHANGED <<indent, offset, size, pc>>

\* The dump ends with the whole layout printed.
Complete ==
    /\ pc = "loop"
    /\ out' = Ref
    /\ pc' = "done"
    /\ UNCHANGED <<indent, offset, size>>

\* The dump is cut short, possibly after printing the next line.
Abort ==
    /\ pc = "loop"
    /\ \/ out' = out
       \/ Len(out) < Len(Ref) /\ out' = NextLine
    /\ pc' = "aborted"
    /\ UNCHANGED <<indent, offset, size>>

Init ==
    /\ indent = 0 /\ offset = 0 /\ size = 0
    /\ out = <<>>
    /\ pc = "idle"

Next == SetIndent \/ SetOffset \/ Call \/ PrintLine \/ Complete \/ Abort

Spec == Init /\ [][Next]_avars

=============================================================================
