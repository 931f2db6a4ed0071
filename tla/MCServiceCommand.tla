-------------------------- MODULE MCServiceCommand --------------------------
(***************************************************************************)
(* The `service' tool on the argument vectors an operator may type: an     *)
(* optional flag, a subcommand with too few, enough or wrong words, and a  *)
(* tag script of up to three words over the tags and literals below.       *)
(***************************************************************************)
EXTENDS ServiceCommandRef, TLC

\* Flag prefixes: none, the help flag, a flag getopt does not know.
MCFlags == {<<>>, <<"-h">>, <<"-x">>}

\* Subcommands: missing, incomplete, complete, on a missing service, unknown.
MCCommands == {<<>>, <<"check">>, <<"check", "svc">>, <<"list">>, <<"bogus">>,
               <<"call">>, <<"call", "svc">>, <<"call", "svc", "1">>,
               <<"call", "gone", "1">>}

\* Tag-script words: tags, a digit, an openable path, a word that is neither.
MCWords == {"i32", "d", "s16", "null", "fd", "afd", "nfd", "3", "/f", "x"}

MCMaxScript == 3

\* How strtok_r splits the key=value words used below; "launchFlags" has no
\* '=' (a key with a NULL value), "=" has no key, and "categories=c16"
\* names sixteen categories.
MCIntentWords ==
       ("action=A" :> [key |-> "action", value |-> "A", cats |-> <<>>])
    @@ ("categories=c" :> [key |-> "categories", value |-> "c", cats |-> <<"c">>])
    @@ ("categories=c16" :> [key |-> "categories", value |-> "c,c,c,c,c,c,c,c,c,c,c,c,c,c,c,c",
                             cats |-> [i \in 1..16 |-> "c"]])
    @@ ("=" :> [key |-> NoValue, value |-> NoValue, cats |-> <<>>])

MCIntentScriptWords == {"action=A", "categories=c", "categories=c16",
                        "launchFlags", "=", "null"}

\* intent scripts: `intent' after at most one other tag, then up to three words.
MCIntentArgvs == {<<"call", "svc", "1">> \o p \o <<"intent">> \o s :
                    p \in {<<>>, <<"null">>},
                    s \in UNION {[1..n -> MCIntentScriptWords] : n \in 0..MCMaxScript}}

MCArgvs == {f \o c \o s : f \in MCFlags, c \in MCCommands,
                          s \in UNION {[1..n -> MCWords] : n \in 0..MCMaxScript}}
           \cup MCIntentArgvs

\* Descriptor scripts of four words on an existing service: enough for two
\* descriptor tags.  "3" is the binder driver's descriptor, "4" the first
\* one a file or an ashmem region gets.
MCFdWords == {"fd", "nfd", "afd", "/f", "3", "4"}

MCFdArgvs == {<<"call", "svc", "1">> \o s : s \in [1..4 -> MCFdWords]}
=============================================================================
