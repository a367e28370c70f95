----------------------------- MODULE Obfuscation -----------------------------
(***************************************************************************)
(* What testgen (testutils/main/testgen.go) makes of the lines of a        *)
(* configuration it copies: comments are dropped, and with -obfuscate the  *)
(* names behind certain keywords are replaced by made-up ones.             *)
(*                                                                         *)
(* A line is a keyword with a name.  A made-up name is a stem and a        *)
(* number, as in ns1, ns2, ...: each pattern of the table keeps the name   *)
(* it gives next, and some patterns share the counter they number by.      *)
(***************************************************************************)
EXTENDS Naturals, Sequences

\* A name: the stem without its last `cut' characters, then the number (0: none).
Name == [stem : STRING, cut : Nat, num : Nat]

Line == [key : STRING, name : Name]

\* A line beyond the limit of bufio.Scanner, which stops there without an error
\* that anyone asks for.
Overlong == "overlong"

\* The table's patterns with a callback: the first name and the counter.
Numbered ==
    LET entry(stem, num, counter) ==
            [first |-> [stem |-> stem, cut |-> 0, num |-> num], counter |-> counter]
    IN [namespace             |-> entry("ns", 1, "namespacesSeen"),
        dc                    |-> entry("dc", 1, "dcSeen"),
        xdr_remote_datacenter |-> entry("dc", 1, "dcSeen"),
        datacenter            |-> entry("dc", 1, "dcSeen"),
        set                   |-> entry("set", 1, "setSeen"),
        mount                 |-> entry("/dummy/mount/point", 1, "mountSeen"),
        device                |-> entry("/dummy/device", 1, "deviceSeen"),
        file                  |-> entry("/dummy/file/path", 1, "fileSeen"),
        tls                   |-> entry("tls_cluster_name", 1, "tlsSeen"),
        feature_key_file      |-> entry("/etc/aerospike/features.conf", 0, "fileSeen")]

\* The patterns that put one fixed value in place of every name.
Fixed == {"cluster_name", "address", "user", "group", "multicast_group", "tls_name",
          "query_base_dn", "server", "query_user_dn", "query_user_password_file",
          "role_query_pattern", "user_dn_pattern", "cert_file", "key_file", "ca_file",
          "tls_node", "address_port", "ca_path", "key_file_password", "vault_ca",
          "vault_url", "vault_path", "http_url"}

Counter == {Numbered[e].counter : e \in DOMAIN Numbered}

\* The patterns a line matches, in the order of the table.  The pattern for `file'
\* matches behind every keyword that ends in -file, that for `key-file' in
\* feature-key-file too, that for `address' in address-port.
Matching(key) ==
    IF key = "feature_key_file" THEN <<"file", "key_file", "feature_key_file">>
    ELSE IF key \in {"cert_file", "key_file", "ca_file", "query_user_password_file"}
    THEN <<"file", key>>
    ELSE IF key = "address_port" THEN <<"address", "address_port">>
    ELSE IF key \in DOMAIN Numbered \cup Fixed THEN <<key>>
    ELSE <<>>

digits[n \in Nat] == IF n = 0 THEN 0 ELSE 1 + digits[n \div 10]

\* Mutant of NextName: the number is appended before it is increased.
SameNumber(name, seen) ==
    [stem |-> name.stem, cut |-> name.cut + digits[seen] - digits[name.num], num |-> seen]

\* The callbacks cut as many characters as the counter has digits -- which are the
\* name's own digits only if no other pattern has counted since -- and append the
\* increased counter.  Beyond 1000 datacenters that would be more than "dc1" has.
NextName(name, seen) ==
    [stem |-> name.stem, cut |-> name.cut + digits[seen] - digits[name.num],
     num |-> seen + 1]

\* One pattern applied to the line of t, with the names and counters of its table.
obfuscateLine(t, e) ==
    LET named(name) == [key |-> t.line.key, name |-> name]
    IN IF e \in Fixed
       THEN [names |-> t.names, seen |-> t.seen,
             line |-> named([stem |-> e, cut |-> 0, num |-> 0])]
       ELSE LET c == Numbered[e].counter
            IN [names |-> [t.names EXCEPT ![e] = NextName(@, t.seen[c])],
                seen  |-> [t.seen EXCEPT ![c] = @ + 1],
                line  |-> named(t.names[e])]

FreshTable == [names |-> [e \in DOMAIN Numbered |-> Numbered[e].first],
               seen  |-> [c \in Counter |-> 1]]

\* Line l and the table t after each of the patterns that match it.
PatternsOn(t, l) ==
    LET patterns == Matching(l.key)
        applied[i \in 0..Len(patterns)] ==
            IF i = 0 THEN [names |-> t.names, seen |-> t.seen, line |-> l]
            ELSE obfuscateLine(applied[i - 1], patterns[i])
    IN applied

\* Each line as it is written, with the table it leaves to the next.
TablesAfter(lines) ==
    LET after[n \in 0..Len(lines)] ==
            IF n = 0 THEN FreshTable
            ELSE PatternsOn(after[n - 1], lines[n])[Len(Matching(lines[n].key))]
    IN after

obfuscated(lines) == [n \in 1..Len(lines) |-> TablesAfter(lines)[n].line]

\* The lines the scanner delivers.
Scanned(lines) ==
    LET last == {n \in 1..Len(lines) : lines[n].key = Overlong}
    IN IF last = {} THEN lines
       ELSE SubSeq(lines, 1, (CHOOSE n \in last : \A m \in last : n <= m) - 1)

processFileData(lines, obfuscate) ==
    IF obfuscate THEN obfuscated(Scanned(lines)) ELSE Scanned(lines)
=============================================================================
