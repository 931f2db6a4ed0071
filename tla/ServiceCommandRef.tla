------------------------- MODULE ServiceCommandRef -------------------------
(***************************************************************************)
(* The tag grammar of spec.md 4.3 as a reference compiler, and the         *)
(* property that the tool's tag loop (ServiceCommand) agrees with it.  The *)
(* reference is a RECURSIVE operator over the word list; it is kept apart  *)
(* from ServiceCommand, which the proofs of ServiceCommandProofs reason    *)
(* about, and is evaluated only by TLC.                                    *)
(***************************************************************************)
EXTENDS ServiceCommand

\* The parcel the specification's grammar (spec.md 4.3) compiles a tag
\* script to, or Rejected when the script has a missing literal, an
\* unknown tag or a path that cannot be opened.  Descriptor numbers are left out (Shape below).
Rejected == "rejected"
RECURSIVE RefCompile(_)
RefCompile(ws) ==
    IF ws = <<>> THEN <<>>
    ELSE LET tag == Head(ws)
             rest == IF Head(ws) = "null" THEN Tail(ws) ELSE Tail(Tail(ws))
             one == CASE tag \in NumberTags -> [ty |-> tag, v |-> Atoi(ws[2])]
                      [] tag = "s16"        -> [ty |-> tag, v |-> ws[2]]
                      [] tag = "nfd"        -> [ty |-> "fd", v |-> 0]
                      [] tag \in {"fd", "afd"} -> [ty |-> tag, v |-> 0]
                      [] tag = "null"       -> [ty |-> tag, v |-> 0]
             tail == RefCompile(rest)
         IN IF \/ tag \notin LiteralTags \cup {"null"}
               \/ tag \in LiteralTags /\ Len(ws) < 2
               \/ tag \in {"fd", "afd"} /\ ws[2] \notin Files
               \/ tail = Rejected
            THEN Rejected
            ELSE <<one>> \o tail

Shape(w) == IF w.ty \in {"fd", "afd"} THEN [ty |-> w.ty, v |-> 0] ELSE w

\* The compiler is sequential and order-preserving: when `call' runs without
\* flags and names an existing service, the parcel sent is the interface
\* token followed by exactly one write per tag, in command-line order, as
\* the grammar prescribes; a script the grammar accepts is never answered by
\* a diagnostic.  (The undocumented `intent' tag is outside the grammar.)
CompiledInOrder ==
    pc = "done" /\ ~smNull /\ Command = 1 /\ 3 <= Argc
      /\ argv[1] = "call" /\ argv[2] \in Services
      /\ (\A i \in 1..Argc : argv[i] # "intent")
    => LET ref == RefCompile(SubSeq(argv, 4, Argc)) IN
         /\ ref # Rejected => /\ err = NoErr
                              /\ [i \in DOMAIN sent |-> Shape(sent[i])]
                                   = <<[ty |-> "token", v |-> target]>> \o ref
         /\ err = NoErr => ref # Rejected

=============================================================================
