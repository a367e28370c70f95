------------------------------- MODULE MCDiff -------------------------------
(* Small instance of Diff: two keys, one of them a log level.  The files are
   named with and without extensions; one invocation names a file twice.      *)
EXTENDS Diff

CONSTANT num        \* a value that is no string

MCKeyOrder == <<"logging.{f}.any", "service.port">>
MCKey      == {MCKeyOrder[n] : n \in DOMAIN MCKeyOrder}

MCPlace(k) == CHOOSE n \in DOMAIN MCKeyOrder : MCKeyOrder[n] = k
MCBefore(k, l) == MCPlace(k) < MCPlace(l)

MCText  == {"info", "INFO", "debug"}
MCValue == MCText \cup {num}
MCLower == [t \in MCText |-> CASE t \in {"info", "INFO"} -> "info" [] t = "debug" -> "debug"]

MCMaps ==
    {[k \in {"logging.{f}.any"} |-> v] : v \in MCText}
    \cup {[k \in MCKey |-> IF k = "service.port" THEN num ELSE "info"]}

File(b, e) == [base |-> b, ext |-> e]

MCFiles == {File("a", ""), File("b", "yaml")}

Run(mode, args, format) == [mode |-> mode, args |-> args, format |-> format]

\* Runs that compare, with the same file twice and with two files of one format.
Comparing ==
    {Run("files", <<File("a", ""), f>>, "conf") : f \in MCFiles}
    \cup {Run("server", <<File("a", "")>>, Unset)}

ArgLists == {<<>>} \cup {<<f>> : f \in MCFiles} \cup {<<f, g>> : f \in MCFiles, g \in MCFiles}
            \cup {<<f, f, f>> : f \in MCFiles}

\* Names that signify one format, another or none, with and without the flag.
MCInvocations ==
    Comparing
    \cup {Run("files", args, format) : args \in ArgLists, format \in {Unset}}
    \cup {Run("files", <<File("a", ""), File("b", "yaml")>>, format) : format \in {"", "yaml", "x"}}
    \cup {Run("server", args, Unset) : args \in {<<>>, <<File("b", "yaml")>>, <<File("a", ""), File("a", "")>>}}
=============================================================================
