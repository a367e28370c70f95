----------------------------- MODULE MCFlatDiff -----------------------------
(* Small instance of FlatDiff: two keys of which one holds a log level, a key
   of the library's, and one that is there or not.                            *)
EXTENDS FlatDiff

CONSTANT num        \* a value that is no string

MCKeyOrder == <<"heartbeat.mode", "logging.{f}.any", "logging.{f}.<index>", "service.port">>
MCKey      == {MCKeyOrder[n] : n \in DOMAIN MCKeyOrder}

MCPlace(k) == CHOOSE n \in DOMAIN MCKeyOrder : MCKeyOrder[n] = k
MCBefore(k, l) == MCPlace(k) < MCPlace(l)

MCText  == {"info", "INFO", "on", "ON"}
MCValue == MCText \cup {num}
MCLower == [t \in MCText |-> CASE t \in {"info", "INFO"} -> "info"
                               [] t \in {"on", "ON"} -> "on"]

\* What the keys may hold; a level has two spellings, as has what is no level.
MCHolds == [k \in MCKey |->
    CASE k = "heartbeat.mode" -> {"on", "ON"}
      [] k = "logging.{f}.any" -> MCText
      [] k = "logging.{f}.<index>" -> {num}
      [] k = "service.port" -> {num}]

MCMaps == {m \in FlatMap : \A k \in DOMAIN m : m[k] \in MCHolds[k]}
=============================================================================
