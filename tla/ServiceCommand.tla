--------------------------- MODULE ServiceCommand ---------------------------
(***************************************************************************)
(* The `service' command-line tool (src/cmds/service.cpp): one run of      *)
(* main(argc, argv).  The argument vector is chosen in Init from a set of  *)
(* vectors the operator may type; the tool then consumes it word by word:  *)
(* option parsing, the service-manager lookup, the subcommand, and for     *)
(* `call' the argument compiler that appends one parcel write per tag      *)
(* before the transaction is sent.  Words are strings; a path, a service   *)
(* name or a literal is one word, never built from characters.             *)
(***************************************************************************)
EXTENDS Integers, Sequences, FiniteSets

CONSTANTS
    Argvs,        \* the argument vectors (argv[1..argc-1]) an operator may type
    Services,     \* names checkService finds, with a non-empty interface name
    Files,        \* paths open(path, O_RDONLY) succeeds on
    MaxFd,        \* descriptors are numbered 0..MaxFd
    IntentWords   \* how strtok_r splits the key=value words of `intent'

ASSUME CommandAssumption ==
    /\ Argvs \subseteq Seq(STRING)
    /\ Services \subseteq STRING
    /\ Files \subseteq STRING
    /\ MaxFd \in Nat
    /\ \A w \in DOMAIN IntentWords :
         IntentWords[w] \in [key : STRING, value : STRING, cats : Seq(STRING)]

VARIABLES
    argv,        \* the words after the program name
    optind,      \* getopt's / main's cursor into argv
    wantsUsage,  \* main's wantsUsage
    result,      \* main's result
    pc,          \* where main is
    smNull,      \* defaultServiceManager() returned NULL
    err,         \* the diagnostic main itself printed on aerr, or NoErr
    target,      \* the service of `call', once looked up
    data,        \* the send parcel of `call': a sequence of writes
    openFds,     \* descriptors open in the process
    sent,        \* the parcel handed to service->transact, or NotSent
    exitCode,    \* main's return value, once returned
    ub           \* the undefined behaviours main has run into

vars == <<argv, optind, wantsUsage, result, pc, smNull, err, target, data,
          openFds, sent, exitCode, ub>>

NoErr == "none"
NotSent == <<>>
NoExit == -1

(***************************************************************************)
(* Conversions.  atoi/atof of a word: the digit it spells, 0 for a word    *)
(* that is not a number (the inputs hold no multi-digit numerals).         *)
(***************************************************************************)
DigitWords == <<"0", "1", "2", "3", "4", "5", "6", "7", "8", "9">>

Atoi(w) == IF \E i \in 1..10 : DigitWords[i] = w
           THEN (CHOOSE i \in 1..10 : DigitWords[i] = w) - 1
           ELSE 0

\* Words getopt(argc, argv, "h?") treats as options: it returns 'h' or '?'
\* for -h and -?, and '?' for any other dash word.
IsFlag(w) == w \in {"-h", "-?", "-x"}

\* The lowest descriptor not in use: what open() and ashmem_create_region
\* return, or -1 when the table is full.
LowestFree(fds) == IF \E n \in 0..MaxFd : n \notin fds
                   THEN CHOOSE n \in 0..MaxFd : n \notin fds /\ \A m \in 0..(n-1) : m \in fds
                   ELSE -1

\* The empty String16.
NoName == ""

\* get_interface_name(checkService(name)): the descriptor an
\* INTERFACE_TRANSACTION returns, or the empty String16 when there is no
\* such service; a found service is modelled by its name.
InterfaceName(name) == IF name \in Services THEN name ELSE NoName

Arg(i) == argv[i]
Argc == Len(argv)

\* The literal-taking tags and the parcel write each performs.
IntegerTags == {"i32", "i64"}
FloatTags == {"f", "d"}
NumberTags == IntegerTags \cup FloatTags
LiteralTags == NumberTags \cup {"s16", "fd", "afd", "nfd"}

-----------------------------------------------------------------------------
Init ==
    /\ argv \in Argvs
    /\ optind = 1
    /\ wantsUsage = FALSE
    /\ result = 0
    /\ pc = "getopt"
    /\ smNull = FALSE
    /\ err = NoErr
    /\ target = NoName
    /\ data = <<>>
    /\ openFds = {0, 1, 2}
    /\ sent = NotSent
    /\ exitCode = NoExit
    /\ ub = {}

\* Fail: the diagnostic, wantsUsage and result = 10 that every error path sets.
Fail(e) == /\ err' = e /\ wantsUsage' = TRUE /\ result' = 10

(***************************************************************************)
(* Option parsing: one getopt call per step.  Both 'h' and '?' set         *)
(* wantsUsage and leave result alone; getopt stops at the first word that  *)
(* is not a flag.                                                          *)
(***************************************************************************)
GetOpt ==
    /\ pc = "getopt"
    /\ IF optind <= Argc /\ IsFlag(Arg(optind))
       THEN /\ wantsUsage' = TRUE
            /\ optind' = optind + 1
            /\ pc' = "getopt"
       ELSE /\ pc' = "sm"
            /\ UNCHANGED <<wantsUsage, optind>>
    /\ UNCHANGED <<argv, ub, result, smNull, err, target, data, openFds, sent, exitCode>>

\* defaultServiceManager(): NULL makes main return 20 at once.  Otherwise the
\* process state has opened the binder driver, which takes the lowest free
\* descriptor (3 after stdin, stdout and stderr).
ServiceManager ==
    /\ pc = "sm"
    /\ \E null \in BOOLEAN :
         /\ smNull' = null
         /\ IF null THEN /\ exitCode' = 20 /\ pc' = "done"
                         /\ UNCHANGED openFds
                    ELSE /\ pc' = "dispatch" /\ UNCHANGED exitCode
                         /\ openFds' = openFds \cup {LowestFree(openFds)}
    /\ UNCHANGED <<argv, ub, optind, wantsUsage, result, err, target, data, sent>>

\* No subcommand, or a flag was seen: only the usage text is printed.
NoCommand ==
    /\ pc = "dispatch"
    /\ optind > Argc \/ wantsUsage
    /\ wantsUsage' = TRUE
    /\ pc' = "usage"
    /\ UNCHANGED <<argv, ub, optind, result, smNull, err, target, data, openFds, sent, exitCode>>

Check ==
    /\ pc = "dispatch" /\ optind <= Argc /\ ~wantsUsage
    /\ Arg(optind) = "check"
    /\ optind' = optind + 1
    /\ IF optind + 1 <= Argc
       THEN UNCHANGED <<err, wantsUsage, result>>
       ELSE Fail("no service for check")
    /\ pc' = "usage"
    /\ UNCHANGED <<argv, ub, smNull, target, data, openFds, sent, exitCode>>

\* `list' only prints: the names and interface names of the services.
List ==
    /\ pc = "dispatch" /\ optind <= Argc /\ ~wantsUsage
    /\ Arg(optind) = "list"
    /\ pc' = "usage"
    /\ UNCHANGED <<argv, ub, optind, wantsUsage, result, smNull, err, target, data, openFds, sent, exitCode>>

UnknownCommand ==
    /\ pc = "dispatch" /\ optind <= Argc /\ ~wantsUsage
    /\ Arg(optind) \notin {"check", "list", "call"}
    /\ Fail("unknown command")
    /\ pc' = "usage"
    /\ UNCHANGED <<argv, ub, optind, smNull, target, data, openFds, sent, exitCode>>

(***************************************************************************)
(* `call SERVICE CODE': look the service up and ask its interface name; if *)
(* both exist the parcel starts with the interface token and the tags are  *)
(* compiled, otherwise main reports the service missing (result 10, no     *)
(* usage).  With fewer than two words after `call' the message printed is  *)
(* chosen by whether one word is left.                                     *)
(***************************************************************************)
\* Mutant: the "does not exist" path forgets result = 10.
CallMissingResult ==
    /\ pc = "dispatch" /\ optind <= Argc /\ ~wantsUsage
    /\ Arg(optind) = "call"
    /\ IF optind + 2 <= Argc
       THEN /\ optind' = optind + 3
            /\ IF InterfaceName(Arg(optind + 1)) # NoName
               THEN /\ target' = Arg(optind + 1)
                    /\ data' = <<[ty |-> "token", v |-> InterfaceName(Arg(optind + 1))]>>
                    /\ pc' = "tags"
                    /\ UNCHANGED <<err, result>>
               ELSE /\ err' = "service does not exist"
                    /\ pc' = "usage"
                    /\ UNCHANGED <<target, data, result>>
            /\ UNCHANGED wantsUsage
       ELSE /\ optind' = optind + 1
            /\ Fail(IF optind + 1 <= Argc THEN "no service for call"
                                          ELSE "no code for call")
            /\ pc' = "usage"
            /\ UNCHANGED <<target, data>>
    /\ UNCHANGED <<argv, ub, smNull, openFds, sent, exitCode>>

Call ==
    /\ pc = "dispatch" /\ optind <= Argc /\ ~wantsUsage
    /\ Arg(optind) = "call"
    /\ IF optind + 2 <= Argc
       THEN /\ optind' = optind + 3
            /\ IF InterfaceName(Arg(optind + 1)) # NoName
               THEN /\ target' = Arg(optind + 1)
                    /\ data' = <<[ty |-> "token", v |-> InterfaceName(Arg(optind + 1))]>>
                    /\ pc' = "tags"
                    /\ UNCHANGED <<err, result>>
               ELSE /\ err' = "service does not exist"
                    /\ result' = 10
                    /\ pc' = "usage"
                    /\ UNCHANGED <<target, data>>
            /\ UNCHANGED wantsUsage
       ELSE /\ optind' = optind + 1
            /\ Fail(IF optind + 1 <= Argc THEN "no service for call"
                                          ELSE "no code for call")
            /\ pc' = "usage"
            /\ UNCHANGED <<target, data>>
    /\ UNCHANGED <<argv, ub, smNull, openFds, sent, exitCode>>

-----------------------------------------------------------------------------
(***************************************************************************)
(* The tag loop of `call'.  Each action is one branch of the if-chain;     *)
(* every error branch breaks out of the loop to the transaction.           *)
(***************************************************************************)
InTags == pc = "tags" /\ optind <= Argc

\* A literal-taking tag is the last word: diagnostic and break.
MissingLiteral ==
    /\ InTags /\ Arg(optind) \in LiteralTags
    /\ optind + 1 > Argc
    /\ optind' = optind + 1
    /\ Fail("no literal for tag")
    /\ pc' = "transact"
    /\ UNCHANGED <<argv, ub, smNull, target, data, openFds, sent, exitCode>>

HasLiteral(tag) == InTags /\ Arg(optind) = tag /\ optind + 1 <= Argc
Literal == Arg(optind + 1)

\* i32, i64: write atoi/atoll of the literal.
WriteInteger ==
    /\ \E tag \in IntegerTags :
         /\ HasLiteral(tag)
         /\ data' = Append(data, [ty |-> tag, v |-> Atoi(Literal)])
    /\ optind' = optind + 2
    /\ UNCHANGED <<argv, ub, wantsUsage, result, pc, smNull, err, target, openFds, sent, exitCode>>

\* f, d: write atof of the literal, which agrees with atoi on the digit words
\* and reads 0 from any other word.
WriteFloat ==
    /\ \E tag \in FloatTags :
         /\ HasLiteral(tag)
         /\ data' = Append(data, [ty |-> tag, v |-> Atoi(Literal)])
    /\ optind' = optind + 2
    /\ UNCHANGED <<argv, ub, wantsUsage, result, pc, smNull, err, target, openFds, sent, exitCode>>

WriteString ==
    /\ HasLiteral("s16")
    /\ data' = Append(data, [ty |-> "s16", v |-> Literal])
    /\ optind' = optind + 2
    /\ UNCHANGED <<argv, ub, wantsUsage, result, pc, smNull, err, target, openFds, sent, exitCode>>

WriteNull ==
    /\ InTags /\ Arg(optind) = "null"
    /\ data' = Append(data, [ty |-> "null", v |-> 0])
    /\ optind' = optind + 1
    /\ UNCHANGED <<argv, ub, wantsUsage, result, pc, smNull, err, target, openFds, sent, exitCode>>

\* fd PATH: open read-only; the parcel takes ownership of the descriptor.
WriteFd ==
    /\ HasLiteral("fd")
    /\ optind' = optind + 2
    /\ LET fd == IF Literal \in Files THEN LowestFree(openFds) ELSE -1 IN
       IF fd >= 0
       THEN /\ openFds' = openFds \cup {fd}
            /\ data' = Append(data, [ty |-> "fd", v |-> fd])
            /\ UNCHANGED <<wantsUsage, result, pc, err>>
       ELSE /\ Fail("could not open")
            /\ pc' = "transact"
            /\ UNCHANGED <<openFds, data>>
    /\ UNCHANGED <<argv, ub, smNull, target, sent, exitCode>>

(***************************************************************************)
(* afd PATH: open and fstat the file, create an ashmem region of its size, *)
(* mmap it, read the file into it, close the file and hand the region's    *)
(* descriptor to the parcel.  Only open/fstat are checked: the region may  *)
(* not be created (afd = -1), and mmap or read may fail, leaving the       *)
(* region without the file's contents ("copied" FALSE).                    *)
(***************************************************************************)
WriteAshmem ==
    /\ HasLiteral("afd")
    /\ optind' = optind + 2
    /\ LET fd == IF Literal \in Files THEN LowestFree(openFds) ELSE -1 IN
       IF fd >= 0
       THEN \E created \in BOOLEAN, copied \in BOOLEAN :
              LET afd == IF created THEN LowestFree(openFds \cup {fd}) ELSE -1 IN
              /\ openFds' = (openFds \cup {afd}) \ {-1}
              /\ data' = Append(data, [ty |-> "afd", v |-> afd,
                                       copied |-> created /\ afd >= 0 /\ copied])
              /\ UNCHANGED <<wantsUsage, result, pc, err>>
       ELSE /\ Fail("could not open or stat")
            /\ pc' = "transact"
            /\ UNCHANGED <<openFds, data>>
    /\ UNCHANGED <<argv, ub, smNull, target, sent, exitCode>>

\* nfd N: the parcel takes ownership of descriptor atoi(N), whatever it is.
\* Mutant: nfd consumes its tag but not its number.
WriteNfdOneWord ==
    /\ HasLiteral("nfd")
    /\ data' = Append(data, [ty |-> "fd", v |-> Atoi(Literal)])
    /\ optind' = optind + 1
    /\ UNCHANGED <<argv, ub, wantsUsage, result, pc, smNull, err, target, openFds, sent, exitCode>>

WriteNfd ==
    /\ HasLiteral("nfd")
    /\ data' = Append(data, [ty |-> "fd", v |-> Atoi(Literal)])
    /\ optind' = optind + 2
    /\ UNCHANGED <<argv, ub, wantsUsage, result, pc, smNull, err, target, openFds, sent, exitCode>>

(***************************************************************************)
(* intent key=value ...: every following word up to one with no key is    *)
(* split by strtok_r at '='.  IntentWords gives the split of a word with a *)
(* '='; any other word is all key and has a NULL value, and a word of      *)
(* only '=' characters has a NULL key (NoValue), which ends the loop.  A   *)
(* later action/data/type/launchFlags/component replaces an earlier one;   *)
(* every categories word appends its comma-separated names to the 16-slot  *)
(* array categories[], whose strtok_r loop also stores the NULL that ends  *)
(* the list.  Then seven fields are written, with -1 for a NULL string.    *)
(* atoi and strtok_r of a NULL value, and a store at categories[16] or     *)
(* beyond, are undefined behaviour; the writes below are what a build that *)
(* survives them produces.                                                 *)
(***************************************************************************)
NoValue == NoName
Key(w) == IF w \in DOMAIN IntentWords THEN IntentWords[w].key ELSE w
Value(w) == IF w \in DOMAIN IntentWords THEN IntentWords[w].value ELSE NoValue
Cats(w) == IF w \in DOMAIN IntentWords THEN IntentWords[w].cats ELSE <<>>

\* writeString16(parcel, string): -1 for a NULL string.
IntentString(v) == IF v = NoValue THEN [ty |-> "i32", v |-> -1] ELSE [ty |-> "s16", v |-> v]

WriteIntent ==
    /\ InTags /\ Arg(optind) = "intent"
    /\ LET rest == SubSeq(argv, optind + 1, Argc)
           stop == CHOOSE i \in 1..(Len(rest) + 1) :
                      /\ i > Len(rest) \/ Key(rest[i]) = NoValue
                      /\ \A j \in 1..(i - 1) : Key(rest[j]) # NoValue
           kvs  == SubSeq(rest, 1, stop - 1)
           Has(k) == \E i \in DOMAIN kvs : Key(kvs[i]) = k
           LastValue(k) == IF Has(k)
                      THEN Value(kvs[CHOOSE i \in DOMAIN kvs :
                                       Key(kvs[i]) = k /\ \A j \in (i+1)..Len(kvs) : Key(kvs[j]) # k])
                      ELSE NoValue
           IsCategories(w) == Key(w) = "categories"
           catWords == SelectSeq(kvs, IsCategories)
           flat[k \in 0..Len(catWords)] ==
               IF k = 0 THEN <<>> ELSE flat[k - 1] \o Cats(catWords[k])
           cats == flat[Len(catWords)]
           nullValue == {k \in {"launchFlags", "categories"} :
                           \E i \in DOMAIN kvs : Key(kvs[i]) = k /\ Value(kvs[i]) = NoValue}
       IN /\ optind' = optind + stop
          /\ data' = data \o << IntentString(LastValue("action")), IntentString(LastValue("data")), IntentString(LastValue("type")),
                                [ty |-> "i32", v |-> Atoi(LastValue("launchFlags"))],
                                IntentString(LastValue("component")), [ty |-> "i32", v |-> Len(cats)] >>
                          \o [i \in DOMAIN cats |-> [ty |-> "s16", v |-> cats[i]]]
                          \o << [ty |-> "i32", v |-> -1] >>
          /\ ub' = ub \cup {"NULL " \o k : k \in nullValue}
                      \cup (IF Len(cats) >= 16 THEN {"categories[16]"} ELSE {})
    /\ UNCHANGED <<argv, wantsUsage, result, pc, smNull, err, target, openFds, sent, exitCode>>

UnknownTag ==
    /\ InTags
    /\ Arg(optind) \notin LiteralTags \cup {"null", "intent"}
    /\ Fail("unknown option")
    /\ pc' = "transact"
    /\ UNCHANGED <<argv, ub, optind, smNull, target, data, openFds, sent, exitCode>>

TagsDone ==
    /\ pc = "tags" /\ optind > Argc
    /\ pc' = "transact"
    /\ UNCHANGED <<argv, ub, optind, wantsUsage, result, smNull, err, target, data, openFds, sent, exitCode>>

\* After the loop, by normal exit or by break: service->transact(code, data).
Transact ==
    /\ pc = "transact"
    /\ sent' = data
    /\ pc' = "usage"
    /\ UNCHANGED <<argv, ub, optind, wantsUsage, result, smNull, err, target, data, openFds, exitCode>>

\* Print the usage text if wanted; return result.
Finish ==
    /\ pc = "usage"
    /\ exitCode' = result
    /\ pc' = "done"
    /\ UNCHANGED <<argv, ub, optind, wantsUsage, result, smNull, err, target, data, openFds, sent>>

\* The process has exited.
Exited == pc = "done" /\ UNCHANGED vars

Next ==
    \/ GetOpt \/ ServiceManager \/ NoCommand \/ Check \/ List \/ UnknownCommand \/ Call
    \/ MissingLiteral \/ WriteInteger \/ WriteFloat \/ WriteString \/ WriteNull \/ WriteFd
    \/ WriteAshmem \/ WriteNfd \/ WriteIntent \/ UnknownTag \/ TagsDone \/ Transact \/ Finish
    \/ Exited

Spec == Init /\ [][Next]_vars

-----------------------------------------------------------------------------
(***************************************************************************)
(* Types and properties.                                                   *)
(***************************************************************************)
Write == [ty : {"token", "s16"}, v : STRING]
         \cup [ty : NumberTags \cup {"null", "fd"}, v : Int]
         \cup [ty : {"afd"}, v : Int, copied : BOOLEAN]

TypeOK ==
    /\ argv \in Seq(STRING)
    /\ optind \in 1..(Argc + 1)
    /\ wantsUsage \in BOOLEAN /\ smNull \in BOOLEAN
    /\ result \in {0, 10}
    /\ pc \in {"getopt", "sm", "dispatch", "tags", "transact", "usage", "done"}
    /\ err \in STRING
    /\ data \in Seq(Write) /\ sent \in Seq(Write)
    /\ openFds \subseteq 0..MaxFd
    /\ exitCode \in {NoExit, 0, 10, 20}

\* Index of the subcommand word: the first word getopt does not consume.
Command == CHOOSE i \in 1..(Argc + 1) : (i > Argc \/ ~IsFlag(argv[i]))
                                        /\ \A j \in 1..(i - 1) : IsFlag(argv[j])

\* main's exit status (spec.md 6): 20 exactly when the service manager is
\* unreachable, 10 exactly when main printed a diagnostic of its own, else 0.
ExitStatus ==
    pc = "done" =>
        /\ (exitCode = 20) = smNull
        /\ (exitCode = 10) = (err # NoErr)
        /\ exitCode \in {0, 10, 20}

\* spec.md 4.3: a parse error is fatal and no partial request is ever sent;
\* main breaks out of the tag loop and still calls service->transact.
NoPartialRequest ==
    sent # NotSent => err = NoErr

\* spec.md 6: an unknown flag is a usage error (exit 10); getopt's '?' case
\* only sets wantsUsage.
UnknownFlagIsUsageError ==
    pc = "done" /\ ~smNull /\ (\E i \in 1..(Command - 1) : argv[i] = "-x")
    => exitCode = 10

\* spec.md 3: descriptor ownership passes to the parcel exactly once; no
\* descriptor is owned by two writes of the parcel sent.
FdOwnedOnce ==
    \A i, j \in DOMAIN sent :
        i # j /\ sent[i].ty \in {"fd", "afd"} /\ sent[j].ty \in {"fd", "afd"}
        => sent[i].v # sent[j].v

\* spec.md 4.3: an ashmem region is handed to the remote end only when it
\* was created and holds the file's full contents.
AshmemComplete ==
    \A i \in DOMAIN sent : sent[i].ty = "afd" => sent[i].v >= 0 /\ sent[i].copied

\* A run of main stays within defined C behaviour: `intent' never stores
\* past the end of categories[16], nor passes a NULL value to atoi or
\* strtok_r.
NoUndefinedBehaviour ==
    ub = {}

=============================================================================
