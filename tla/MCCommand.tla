------------------------------ MODULE MCCommand ------------------------------
(* Small instance of Command: every combination of what can be said on the
   command line with every kind of text.                                      *)
EXTENDS Command

MCLevels ==
    <<"panic", "fatal", "error", "warning", "info", "debug", "trace">>

\* As in MCConvert: `new' is valid for the later version only, `bad' for none.
MCVersion   == {"6.4.0", "7.0.0", "3.0.0", "7", "#"}
MCSupported == {"6.4.0", "7.0.0"}
MCMalformed == {"7", "#"}
MCBody      == {"empty", "both", "new", "bad"}
MCValidFor  == [v \in MCSupported |-> IF v = "7.0.0" THEN {"both", "new"} ELSE {"both"}]

MCSources ==
    [fmt : Format, body : MCBody \cup {Unparsable},
     ver : MCVersion \cup {NoVersion, Blank}, by : {"user"}]

Line(sub, parse, lvl, config, args, v, format) ==
    [sub |-> sub, parse |-> parse, level |-> lvl, config |-> config,
     args |-> args, ver |-> v, force |-> FALSE, format |-> format]

File(e) == [ext |-> e]

\* What becomes of the flags at each log level, and every verdict at the default.
MCCommandLines ==
    {Line(sub, parse, lvl, config, <<File("conf")>>, v, Unset) :
        sub \in {"validate", "other"}, parse \in {"ok", "bad", "help"},
        lvl \in {"panic", "error", "info", "debug", BadLevel},
        config \in {"none", "used", "bad"}, v \in {Unset, "7.0.0"}}
    \cup
    {Line("validate", "ok", "info", "none", args, v, format) :
        args \in {<<>>, <<File("yaml")>>, <<File("conf")>>, <<File("toml")>>,
                  <<File("yaml"), File("conf")>>},
        v \in {Unset, "6.4.0", "7.0.0", "3.0.0", "7"},
        format \in {Unset, "", "yaml", "asconf", "toml"}}
=============================================================================
